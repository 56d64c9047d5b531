----------------------------- MODULE LinkProofs -----------------------------
(***************************************************************************)
(* Facts about the operators of Link that the proofs about the loops rest  *)
(* on, checked by TLAPS.                                                   *)
(***************************************************************************)
EXTENDS Link, WellFoundedInduction, TLAPS

-----------------------------------------------------------------------------
(***************************************************************************)
(* Induction over data, for the proofs about what the loops of the code    *)
(* compute.  The library's induction theorems take a predicate as a        *)
(* parameter; here a predicate is the set of the numbers that satisfy it,  *)
(* and induction follows from the well-foundedness of < on Nat.            *)
(***************************************************************************)
\* A non-empty set of naturals has a least element.
LEMMA LeastNatural ==
    ASSUME NEW T \in SUBSET Nat, T /= {}
    PROVE  \E m \in T : \A k \in T : m <= k
  <1>. DEFINE R == OpToRel(<, Nat)
  <1>1. IsWellFoundedOn(R, Nat)
    BY NatLessThanWellFounded
  <1>2. R = {p \in Nat \X Nat : p[1] < p[2]}
    BY DEF OpToRel
  <1>. HIDE DEF R
  <1>3. PICK m \in T : \A k \in T : <<k, m>> \notin R
    BY <1>1, WFMin
  <1>4. ASSUME NEW k \in T
        PROVE  m <= k
    <2>1. <<k, m>> \notin R /\ k \in Nat /\ m \in Nat
      BY <1>3
    <2>2. <<k, m>> \in Nat \X Nat /\ <<k, m>>[1] = k /\ <<k, m>>[2] = m
      BY <2>1
    <2>3. ~(k < m)
      BY <1>2, <2>1, <2>2
    <2>. QED  BY <2>1, <2>3
  <1>. QED  BY <1>4

\* A set of naturals closed under successor is all of them.
LEMMA SetInduction ==
    ASSUME NEW T, 0 \in T, \A n \in Nat : n \in T => n + 1 \in T
    PROVE  Nat \subseteq T
  <1>. SUFFICES ASSUME Nat \ T /= {} PROVE FALSE
    OBVIOUS
  <1>1. PICK m \in Nat \ T : \A k \in Nat \ T : m <= k
    BY LeastNatural
  <1>2. m /= 0 /\ m - 1 \in Nat /\ m - 1 \in T
    BY <1>1
  <1>. QED  BY <1>1, <1>2

\* A function defined by primitive recursion up to N exists.
LEMMA Iteration ==
    ASSUME NEW A, NEW a \in A, NEW N \in Nat, NEW H \in [1..N -> [A -> A]]
    PROVE  \E g \in [0..N -> A] : g[0] = a /\ \A i \in 1..N : g[i] = H[i][g[i - 1]]
  <1>. DEFINE Upto(n, g) == g[0] = a /\ \A i \in 1..n : g[i] = H[i][g[i - 1]]
              T == {n \in Nat : n <= N => \E g \in [0..n -> A] : Upto(n, g)}
  <1>1. 0 \in T
    <2>1. [i \in 0..0 |-> a] \in [0..0 -> A] /\ Upto(0, [i \in 0..0 |-> a])
      OBVIOUS
    <2>. QED  BY <2>1
  <1>2. ASSUME NEW n \in Nat, n \in T
        PROVE  n + 1 \in T
    <2>. SUFFICES ASSUME n + 1 <= N
                  PROVE  \E g \in [0..(n + 1) -> A] : Upto(n + 1, g)
      OBVIOUS
    <2>1. PICK g \in [0..n -> A] : Upto(n, g)
      BY <1>2
    <2>. DEFINE h == [i \in 0..(n + 1) |-> IF i = n + 1 THEN H[n + 1][g[n]] ELSE g[i]]
    <2>2. n + 1 \in 1..N /\ g[n] \in A
      BY <2>1
    <2>3. H[n + 1][g[n]] \in A
      BY <2>2
    <2>4. h \in [0..(n + 1) -> A]
      BY <2>3
    <2>5. h[0] = a
      BY <2>1
    <2>6. ASSUME NEW i \in 1..(n + 1)
          PROVE  h[i] = H[i][h[i - 1]]
      <3>1. CASE i = n + 1
        BY <3>1
      <3>2. CASE i /= n + 1
        BY <2>1, <3>2
      <3>. QED  BY <3>1, <3>2
    <2>. HIDE DEF h
    <2>. QED  BY <2>4, <2>5, <2>6
  <1>. HIDE DEF T
  <1>3. N \in T
    BY <1>1, <1>2, SetInduction
  <1>. QED  BY <1>3 DEF T

\* The same of the numbers up to N.
LEMMA CountingUp ==
    ASSUME NEW N \in Nat, NEW T, 0 \in T, \A n \in 0..N : n + 1 <= N /\ n \in T => n + 1 \in T
    PROVE  \A n \in 0..N : n \in T
  <1>. DEFINE U == {n \in Nat : n <= N => n \in T}
  <1>1. 0 \in U
    OBVIOUS
  <1>2. \A n \in Nat : n \in U => n + 1 \in U
    OBVIOUS
  <1>. HIDE DEF U
  <1>3. Nat \subseteq U
    BY <1>1, <1>2, SetInduction
  <1>. QED  BY <1>3 DEF U

-----------------------------------------------------------------------------
(***************************************************************************)
(* The operators on links keep them links.                                 *)
(***************************************************************************)

LEMMA SendDataType ==
    ASSUME NEW l \in LinkType, NEW kind \in DataKinds, NEW ep \in Nat
    PROVE  SendData(l, kind, ep) \in LinkType
  <1>. DEFINE frame == [seq |-> l.next, kind |-> kind, ep |-> ep]
              lane == IF l.rx THEN Append(l.data, frame) ELSE l.data
  <1>1. frame \in DataFrame
    BY DEF LinkType, DataFrame
  <1>. HIDE DEF frame
  <1>2. lane \in Seq(DataFrame) /\ l.next + 1 \in Nat \ {0}
    BY <1>1 DEF LinkType
  <1>. HIDE DEF lane
  <1>3. [l EXCEPT !.next = @ + 1, !.data = lane] \in LinkType
    BY <1>2 DEF LinkType
  <1>. QED  BY <1>3 DEF SendData, lane, frame

LEMMA SendSystemType ==
    ASSUME NEW l \in LinkType, NEW kind \in SysKinds, NEW ep \in Nat
    PROVE  SendSystem(l, kind, ep) \in LinkType
  <1>. DEFINE frame == [seq |-> l.next, kind |-> kind, ep |-> ep]
              lane == IF l.rx THEN Append(l.sys, frame) ELSE l.sys
              last == IF kind = "interrupt" THEN ep ELSE l.ep
  <1>1. frame \in SysFrame
    BY DEF LinkType, SysFrame
  <1>. HIDE DEF frame
  <1>2. lane \in Seq(SysFrame) /\ l.next + 1 \in Nat \ {0} /\ last \in Nat
    BY <1>1 DEF LinkType
  <1>. HIDE DEF lane, last
  <1>3. [l EXCEPT !.next = @ + 1, !.sys = lane, !.ep = last] \in LinkType
    BY <1>2 DEF LinkType
  <1>. QED  BY <1>3 DEF SendSystem, lane, frame, last

LEMMA PopSysType ==
    ASSUME NEW l \in LinkType, l.sys /= <<>>
    PROVE  PopSys(l) \in LinkType /\ Head(l.sys) \in SysFrame
  <1>1. Tail(l.sys) \in Seq(SysFrame) /\ Head(l.sys) \in SysFrame
    BY DEF LinkType
  <1>. QED  BY <1>1 DEF PopSys, LinkType

LEMMA PopDataType ==
    ASSUME NEW l \in LinkType, l.data /= <<>>
    PROVE  PopData(l) \in LinkType /\ Head(l.data) \in DataFrame
  <1>1. Tail(l.data) \in Seq(DataFrame) /\ Head(l.data) \in DataFrame
    BY DEF LinkType
  <1>. QED  BY <1>1 DEF PopData, LinkType

LEMMA DropType ==
    ASSUME NEW l \in LinkType
    PROVE  DropInbound(l) \in LinkType /\ DropOutbound(l) \in LinkType
  <1>1. <<>> \in Seq(SysFrame) /\ <<>> \in Seq(DataFrame)
    OBVIOUS
  <1>. QED  BY <1>1 DEF DropInbound, DropOutbound, LinkType

-----------------------------------------------------------------------------
(***************************************************************************)
(* What they change, and what they leave alone.                            *)
(***************************************************************************)

LEMMA SendDataEffect ==
    ASSUME NEW l \in LinkType, NEW kind \in DataKinds, NEW ep \in Nat
    PROVE  LET m == SendData(l, kind, ep)
               frame == [seq |-> l.next, kind |-> kind, ep |-> ep]
           IN  /\ m.sys = l.sys /\ m.rx = l.rx /\ m.tx = l.tx /\ m.ep = l.ep
               /\ m.next = l.next + 1 /\ frame \in DataFrame
               /\ m.data = IF l.rx THEN Append(l.data, frame) ELSE l.data
  <1>1. l.next \in Nat
    BY DEF LinkType
  <1>. QED  BY <1>1 DEF SendData, LinkType, DataFrame

LEMMA SendSystemEffect ==
    ASSUME NEW l \in LinkType, NEW kind \in SysKinds, NEW ep \in Nat
    PROVE  LET m == SendSystem(l, kind, ep)
               frame == [seq |-> l.next, kind |-> kind, ep |-> ep]
           IN  /\ m.data = l.data /\ m.rx = l.rx /\ m.tx = l.tx
               /\ m.ep = IF kind = "interrupt" THEN ep ELSE l.ep
               /\ m.next = l.next + 1 /\ frame \in SysFrame
               /\ m.sys = IF l.rx THEN Append(l.sys, frame) ELSE l.sys
  <1>1. l.next \in Nat
    BY DEF LinkType
  <1>. QED  BY <1>1 DEF SendSystem, LinkType, SysFrame

LEMMA PopEffect ==
    ASSUME NEW l \in LinkType
    PROVE  /\ PopSys(l).sys = Tail(l.sys) /\ PopSys(l).data = l.data
           /\ PopSys(l).next = l.next /\ PopSys(l).rx = l.rx /\ PopSys(l).ep = l.ep
           /\ PopData(l).data = Tail(l.data) /\ PopData(l).sys = l.sys
           /\ PopData(l).next = l.next /\ PopData(l).rx = l.rx /\ PopData(l).ep = l.ep
  BY DEF PopSys, PopData, LinkType

-----------------------------------------------------------------------------
(***************************************************************************)
(* What the two ends can do to a link: m is what it becomes of l.          *)
(***************************************************************************)

\* The sender leaves, or sends one frame, caused no earlier than the last Interrupt it sent;
\* the frame is lost if the receiver is gone.
Sent(l, m) ==
    /\ m.rx = l.rx
    /\ \/ /\ m.next = l.next /\ m.ep = l.ep
          /\ m.sys = l.sys /\ m.data = l.data
       \/ /\ m.next = l.next + 1 /\ m.ep >= l.ep /\ ~l.rx
          /\ m.sys = l.sys /\ m.data = l.data
       \/ /\ m.next = l.next + 1 /\ l.rx /\ m.data = l.data
          /\ \E frame \in SysFrame :
               /\ frame.seq = l.next /\ frame.ep >= l.ep
               /\ m.ep = IF frame.kind = "interrupt" THEN frame.ep ELSE l.ep
               /\ m.sys = Append(l.sys, frame)
       \/ /\ m.next = l.next + 1 /\ m.ep = l.ep /\ l.rx /\ m.sys = l.sys
          /\ \E frame \in DataFrame :
               /\ frame.seq = l.next /\ frame.ep >= l.ep
               /\ m.data = Append(l.data, frame)

\* The receiver takes the head of a lane, or empties one, or leaves.
Drawn(l, m) ==
    /\ m.next = l.next /\ m.ep = l.ep
    /\ m.rx = l.rx \/ (~m.rx /\ m.sys = <<>> /\ m.data = <<>>)
    /\ m.sys = l.sys \/ m.sys = <<>> \/ (l.sys /= <<>> /\ m.sys = Tail(l.sys))
    /\ m.data = l.data \/ m.data = <<>> \/ (l.data /= <<>> /\ m.data = Tail(l.data))

LEMMA SendDataSent ==
    ASSUME NEW l \in LinkType, NEW kind \in DataKinds, NEW ep \in Nat, ep >= l.ep
    PROVE  Sent(l, SendData(l, kind, ep))
  <1>. DEFINE frame == [seq |-> l.next, kind |-> kind, ep |-> ep]
              m == SendData(l, kind, ep)
  <1>1. /\ m.sys = l.sys /\ m.rx = l.rx /\ m.ep = l.ep
        /\ m.next = l.next + 1 /\ frame \in DataFrame
        /\ m.data = IF l.rx THEN Append(l.data, frame) ELSE l.data
    BY SendDataEffect
  <1>2. frame.seq = l.next /\ frame.ep = ep /\ l.rx \in BOOLEAN /\ l.ep \in Nat
    BY DEF LinkType
  <1>. HIDE DEF frame, m
  <1>3. ASSUME l.rx
        PROVE  Sent(l, m)
    <2>1. m.data = Append(l.data, frame)
      BY <1>1, <1>3
    <2>. QED  BY <1>1, <1>2, <1>3, <2>1 DEF Sent
  <1>4. ASSUME ~l.rx
        PROVE  Sent(l, m)
    <2>1. m.data = l.data /\ m.ep >= l.ep
      BY <1>1, <1>2, <1>4
    <2>. QED  BY <1>1, <1>4, <2>1 DEF Sent
  <1>5. Sent(l, m)
    BY <1>2, <1>3, <1>4
  <1>. QED  BY <1>5 DEF m

LEMMA SendSystemSent ==
    ASSUME NEW l \in LinkType, NEW kind \in SysKinds, NEW ep \in Nat, ep >= l.ep
    PROVE  Sent(l, SendSystem(l, kind, ep))
  <1>. DEFINE frame == [seq |-> l.next, kind |-> kind, ep |-> ep]
              m == SendSystem(l, kind, ep)
  <1>1. /\ m.data = l.data /\ m.rx = l.rx
        /\ m.ep = IF kind = "interrupt" THEN ep ELSE l.ep
        /\ m.next = l.next + 1 /\ frame \in SysFrame
        /\ m.sys = IF l.rx THEN Append(l.sys, frame) ELSE l.sys
    BY SendSystemEffect
  <1>2. /\ frame.seq = l.next /\ frame.ep = ep /\ frame.kind = kind
        /\ l.rx \in BOOLEAN /\ l.ep \in Nat
    BY DEF LinkType
  <1>. HIDE DEF frame, m
  <1>3. ASSUME l.rx
        PROVE  Sent(l, m)
    <2>1. m.sys = Append(l.sys, frame)
      BY <1>1, <1>3
    <2>. QED  BY <1>1, <1>2, <1>3, <2>1 DEF Sent
  <1>4. ASSUME ~l.rx
        PROVE  Sent(l, m)
    <2>1. m.sys = l.sys /\ m.ep >= l.ep
      BY <1>1, <1>2, <1>4
    <2>. QED  BY <1>1, <1>4, <2>1 DEF Sent
  <1>5. Sent(l, m)
    BY <1>2, <1>3, <1>4
  <1>. QED  BY <1>5 DEF m

LEMMA CloseSent ==
    ASSUME NEW l \in LinkType
    PROVE  Sent(l, l) /\ Sent(l, DropOutbound(l))
  BY DEF Sent, DropOutbound, LinkType

LEMMA ReceiverDraws ==
    ASSUME NEW l \in LinkType
    PROVE  /\ Drawn(l, l) /\ Drawn(l, DropInbound(l))
           /\ l.sys /= <<>> => Drawn(l, PopSys(l)) /\ Drawn(l, [PopSys(l) EXCEPT !.data = <<>>])
           /\ l.data /= <<>> => Drawn(l, PopData(l))
  <1>1. Drawn(l, l) /\ Drawn(l, DropInbound(l))
    BY DEF Drawn, DropInbound, LinkType
  <1>2. l.data /= <<>> => Drawn(l, PopData(l))
    BY DEF Drawn, PopData, LinkType
  <1>3. l.sys /= <<>> => Drawn(l, PopSys(l))
    BY DEF Drawn, PopSys, LinkType
  <1>4. l.sys /= <<>> => Drawn(l, [PopSys(l) EXCEPT !.data = <<>>])
    BY DEF Drawn, PopSys, LinkType
  <1>. QED  BY <1>1, <1>2, <1>3, <1>4

-----------------------------------------------------------------------------
(***************************************************************************)
(* Frames and order under the things that happen to a lane.                *)
(***************************************************************************)

LEMMA FramesType ==
    ASSUME NEW S, NEW lane \in Seq(S)
    PROVE  Frames(lane) \subseteq S
  BY DEF Frames

LEMMA FramesOfEmpty == Frames(<<>>) = {} /\ Ascending(<<>>)
  BY DEF Frames, Ascending

LEMMA FramesOfOne == \A frame : Frames(<<frame>>) = {frame}
  BY DEF Frames

LEMMA FramesOfTail ==
    ASSUME NEW S, NEW lane \in Seq(S), lane /= <<>>
    PROVE  /\ Frames(lane) = {Head(lane)} \cup Frames(Tail(lane))
           /\ Head(lane) \in S
  <1>1. Len(lane) \in Nat /\ Len(lane) > 0 /\ Head(lane) = lane[1]
    OBVIOUS
  <1>2. Len(Tail(lane)) = Len(lane) - 1 /\ \A i \in 1..(Len(lane) - 1) : Tail(lane)[i] = lane[i + 1]
    OBVIOUS
  <1>3. ASSUME NEW i \in 1..Len(lane)
        PROVE  lane[i] \in {Head(lane)} \cup Frames(Tail(lane))
    <2>1. CASE i = 1
      BY <1>1, <2>1
    <2>2. CASE i > 1
      <3>1. i - 1 \in 1..Len(Tail(lane)) /\ Tail(lane)[i - 1] = lane[i]
        BY <1>1, <1>2, <2>2
      <3>. QED  BY <3>1 DEF Frames
    <2>. QED  BY <2>1, <2>2
  <1>4. ASSUME NEW i \in 1..Len(Tail(lane))
        PROVE  Tail(lane)[i] \in Frames(lane)
    <2>1. i + 1 \in 1..Len(lane) /\ Tail(lane)[i] = lane[i + 1]
      BY <1>1, <1>2
    <2>. QED  BY <2>1 DEF Frames
  <1>5. Head(lane) \in Frames(lane)
    BY <1>1 DEF Frames
  <1>6. Frames(lane) \subseteq {Head(lane)} \cup Frames(Tail(lane))
    BY <1>3 DEF Frames
  <1>7. Frames(Tail(lane)) \subseteq Frames(lane)
    BY <1>4 DEF Frames
  <1>. QED  BY <1>1, <1>5, <1>6, <1>7

LEMMA AscendingTail ==
    ASSUME NEW S, NEW lane \in Seq(S), lane /= <<>>, Ascending(lane)
    PROVE  /\ Ascending(Tail(lane))
           /\ \A f \in Frames(Tail(lane)) : Head(lane).seq < f.seq
  <1>1. Len(lane) \in Nat /\ Len(lane) > 0 /\ Head(lane) = lane[1]
    OBVIOUS
  <1>2. Len(Tail(lane)) = Len(lane) - 1 /\ \A i \in 1..(Len(lane) - 1) : Tail(lane)[i] = lane[i + 1]
    OBVIOUS
  <1>3. \A i \in 1..Len(Tail(lane)) :
          i + 1 \in 1..Len(lane) /\ 1 < i + 1 /\ Tail(lane)[i] = lane[i + 1]
    BY <1>1, <1>2
  <1>4. 1 \in 1..Len(lane)
    BY <1>1
  <1>5. ASSUME NEW i \in 1..Len(Tail(lane)), NEW j \in 1..Len(Tail(lane)), i < j
        PROVE  Tail(lane)[i].seq < Tail(lane)[j].seq
    <2>1. i + 1 < j + 1
      BY <1>5
    <2>. QED  BY <1>3, <2>1 DEF Ascending
  <1>6. \A i \in 1..Len(Tail(lane)) : Head(lane).seq < Tail(lane)[i].seq
    BY <1>1, <1>3, <1>4 DEF Ascending
  <1>. QED  BY <1>5, <1>6 DEF Ascending, Frames

LEMMA FramesOfAppend ==
    ASSUME NEW S, NEW lane \in Seq(S), NEW frame \in S
    PROVE  Frames(Append(lane, frame)) = Frames(lane) \cup {frame}
  <1>1. /\ Len(lane) \in Nat /\ Len(Append(lane, frame)) = Len(lane) + 1
        /\ \A i \in 1..Len(lane) : Append(lane, frame)[i] = lane[i]
        /\ Append(lane, frame)[Len(lane) + 1] = frame
    OBVIOUS
  <1>2. ASSUME NEW i \in 1..(Len(lane) + 1)
        PROVE  Append(lane, frame)[i] \in Frames(lane) \cup {frame}
    <2>1. CASE i = Len(lane) + 1
      BY <1>1, <2>1
    <2>2. CASE i \in 1..Len(lane)
      BY <1>1, <2>2 DEF Frames
    <2>. QED  BY <1>1, <2>1, <2>2
  <1>3. \A i \in 1..Len(lane) : i \in 1..(Len(lane) + 1)
    BY <1>1
  <1>4. Len(lane) + 1 \in 1..(Len(lane) + 1)
    BY <1>1
  <1>5. Frames(Append(lane, frame)) \subseteq Frames(lane) \cup {frame}
    BY <1>1, <1>2 DEF Frames
  <1>6. Frames(lane) \subseteq Frames(Append(lane, frame))
    BY <1>1, <1>3 DEF Frames
  <1>7. frame \in Frames(Append(lane, frame))
    BY <1>1, <1>4 DEF Frames
  <1>. QED  BY <1>5, <1>6, <1>7

LEMMA AscendingAppend ==
    ASSUME NEW S, NEW lane \in Seq(S), NEW frame \in S, Ascending(lane),
           \A f \in Frames(lane) : f.seq < frame.seq
    PROVE  Ascending(Append(lane, frame))
  <1>1. /\ Len(lane) \in Nat /\ Len(Append(lane, frame)) = Len(lane) + 1
        /\ \A i \in 1..Len(lane) : Append(lane, frame)[i] = lane[i]
        /\ Append(lane, frame)[Len(lane) + 1] = frame
    OBVIOUS
  <1>2. ASSUME NEW i \in 1..(Len(lane) + 1), NEW j \in 1..(Len(lane) + 1), i < j
        PROVE  Append(lane, frame)[i].seq < Append(lane, frame)[j].seq
    <2>1. i \in 1..Len(lane) /\ lane[i] \in Frames(lane)
      BY <1>1, <1>2 DEF Frames
    <2>2. CASE j = Len(lane) + 1
      BY <1>1, <2>1, <2>2
    <2>3. CASE j \in 1..Len(lane)
      BY <1>1, <1>2, <2>1, <2>3 DEF Ascending
    <2>. QED  BY <1>1, <2>2, <2>3
  <1>. QED  BY <1>1, <1>2 DEF Ascending

-----------------------------------------------------------------------------
(***************************************************************************)
(* A loop over a lane: what it computes is proved by induction.            *)
(***************************************************************************)

\* g is how the loop of Retain goes through the lane: g[n] is what it has kept of the first n.
Goes(g, lane, keep) ==
    /\ g[0] = <<>>
    /\ \A i \in 1..Len(lane) :
         g[i] = IF lane[i] \in keep THEN Append(g[i - 1], lane[i]) ELSE g[i - 1]
    /\ Retain(lane, keep) = g[Len(lane)]

\* Retain goes through the lane once.
LEMMA RetainSteps ==
    ASSUME NEW S, NEW lane \in Seq(S), NEW keep
    PROVE  \E g \in [0..Len(lane) -> Seq(S)] : Goes(g, lane, keep)
  <1>. DEFINE N == Len(lane)
              Body(k) == [n \in 0..N |-> IF n = 0 THEN <<>>
                            ELSE IF lane[n] \in keep THEN Append(k[n - 1], lane[n]) ELSE k[n - 1]]
              H == [i \in 1..N |-> [s \in Seq(S) |-> IF lane[i] \in keep THEN Append(s, lane[i]) ELSE s]]
              f == CHOOSE k : k = Body(k)
  <1>1. N \in Nat /\ \A i \in 1..N : lane[i] \in S
    OBVIOUS
  <1>2. \A i \in 1..N, s \in Seq(S) : (IF lane[i] \in keep THEN Append(s, lane[i]) ELSE s) \in Seq(S)
    BY <1>1
  <1>3. H \in [1..N -> [Seq(S) -> Seq(S)]]
    BY <1>2
  <1>4. <<>> \in Seq(S)
    OBVIOUS
  <1>5. \A i \in 1..N, s \in Seq(S) : H[i][s] = IF lane[i] \in keep THEN Append(s, lane[i]) ELSE s
    OBVIOUS
  <1>. HIDE DEF N, H
  <1>6. PICK g \in [0..N -> Seq(S)] : g[0] = <<>> /\ \A i \in 1..N : g[i] = H[i][g[i - 1]]
    <2>. DEFINE A == Seq(S)
                a == <<>>
    <2>1. a \in A /\ H \in [1..N -> [A -> A]] /\ N \in Nat
      BY <1>1, <1>3, <1>4
    <2>. HIDE DEF A, a
    <2>2. \E g \in [0..N -> A] : g[0] = a /\ \A i \in 1..N : g[i] = H[i][g[i - 1]]
      BY <2>1, Iteration
    <2>. QED  BY <2>2 DEF A, a
  <1>7. ASSUME NEW i \in 1..N
        PROVE  g[i] = IF lane[i] \in keep THEN Append(g[i - 1], lane[i]) ELSE g[i - 1]
    <2>1. i - 1 \in 0..N
      BY <1>1
    <2>. QED  BY <1>5, <1>6, <2>1
  <1>8. g = Body(g)
    <2>1. ASSUME NEW n \in 0..N
          PROVE  g[n] = IF n = 0 THEN <<>>
                        ELSE IF lane[n] \in keep THEN Append(g[n - 1], lane[n]) ELSE g[n - 1]
      <3>1. CASE n = 0
        BY <1>6, <3>1
      <3>2. CASE n \in 1..N
        <4>1. n /= 0
          BY <1>1, <3>2
        <4>2. g[n] = IF lane[n] \in keep THEN Append(g[n - 1], lane[n]) ELSE g[n - 1]
          BY <1>7, <3>2
        <4>. QED  BY <4>1, <4>2, Zenon
      <3>. QED  BY <1>1, <3>1, <3>2
    <2>. QED  BY <1>6, <2>1
  <1>. HIDE DEF Body
  <1>9. f = Body(f)
    BY <1>8
  <1>. HIDE DEF f
  <1>10. DOMAIN f = 0..N /\ \A n \in 0..N : f[n] = IF n = 0 THEN <<>>
             ELSE IF lane[n] \in keep THEN Append(f[n - 1], lane[n]) ELSE f[n - 1]
    BY <1>9 DEF Body
  <1>11. f[N] = g[N]
    <2>. DEFINE T == {n \in Nat : n <= N => f[n] = g[n]}
    <2>1. 0 \in T
      BY <1>1, <1>6, <1>10
    <2>2. ASSUME NEW n \in Nat, n \in T
          PROVE  n + 1 \in T
      <3>. SUFFICES ASSUME n + 1 <= N PROVE f[n + 1] = g[n + 1]
        OBVIOUS
      <3>1. /\ n + 1 \in 0..N /\ n + 1 \in 1..N /\ n + 1 /= 0 /\ (n + 1) - 1 = n
            /\ f[n] = g[n]
        BY <1>1, <2>2
      <3>2. f[n + 1] = IF lane[n + 1] \in keep THEN Append(f[n], lane[n + 1]) ELSE f[n]
        BY <1>10, <3>1
      <3>3. g[n + 1] = IF lane[n + 1] \in keep THEN Append(g[n], lane[n + 1]) ELSE g[n]
        BY <1>7, <3>1
      <3>. QED  BY <3>1, <3>2, <3>3
    <2>. HIDE DEF T
    <2>3. N \in T
      BY <1>1, <2>1, <2>2, SetInduction
    <2>. QED  BY <1>1, <2>3 DEF T
  <1>12. Retain(lane, keep) = f[N]
    BY DEF Retain, f, Body, N
  <1>. QED  BY <1>6, <1>7, <1>11, <1>12 DEF N, Goes
LEMMA RetainEffect ==
    ASSUME NEW S, NEW lane \in Seq(S), NEW keep
    PROVE  /\ Retain(lane, keep) \in Seq(S)
           /\ Frames(Retain(lane, keep)) = Frames(lane) \cap keep
  <1>. DEFINE N == Len(lane)
  <1>1. N \in Nat /\ \A i \in 1..N : lane[i] \in S
    OBVIOUS
  <1>. PICK g \in [0..Len(lane) -> Seq(S)] : Goes(g, lane, keep)
    BY RetainSteps
  <1>2. /\ g \in [0..N -> Seq(S)] /\ g[0] = <<>>
        /\ \A i \in 1..N :
             g[i] = IF lane[i] \in keep THEN Append(g[i - 1], lane[i]) ELSE g[i - 1]
        /\ Retain(lane, keep) = g[N]
    BY DEF Goes
  <1>. HIDE DEF N
  <1>. DEFINE Upto(n) == {lane[i] : i \in 1..n} \cap keep
              T == {n \in Nat : n <= N => Frames(g[n]) = Upto(n)}
  <1>3. 0 \in T
    BY <1>2, FramesOfEmpty
  <1>4. ASSUME NEW n \in Nat, n \in T
        PROVE  n + 1 \in T
    <2>. SUFFICES ASSUME n + 1 <= N PROVE Frames(g[n + 1]) = Upto(n + 1)
      OBVIOUS
    <2>1. /\ n + 1 \in 1..N /\ n \in 0..N /\ (n + 1) - 1 = n
          /\ Frames(g[n]) = Upto(n)
      BY <1>1, <1>4
    <2>2. /\ g[n] \in Seq(S) /\ lane[n + 1] \in S
          /\ g[n + 1] = IF lane[n + 1] \in keep THEN Append(g[n], lane[n + 1]) ELSE g[n]
      BY <1>1, <1>2, <2>1
    <2>3. {lane[i] : i \in 1..(n + 1)} = {lane[i] : i \in 1..n} \cup {lane[n + 1]}
      <3>1. 1..(n + 1) = 1..n \cup {n + 1}
        OBVIOUS
      <3>. QED  BY <3>1
    <2>4. CASE lane[n + 1] \in keep
      <3>1. Frames(g[n + 1]) = Frames(g[n]) \cup {lane[n + 1]}
        BY <2>2, <2>4, FramesOfAppend
      <3>. QED  BY <2>1, <2>3, <2>4, <3>1
    <2>5. CASE lane[n + 1] \notin keep
      BY <2>1, <2>2, <2>3, <2>5
    <2>. QED  BY <2>4, <2>5
  <1>. HIDE DEF T
  <1>5. N \in T
    BY <1>1, <1>3, <1>4, SetInduction
  <1>6. Frames(g[N]) = Upto(N)
    BY <1>1, <1>5 DEF T
  <1>7. g[N] \in Seq(S)
    BY <1>1, <1>2
  <1>. QED  BY <1>2, <1>6, <1>7 DEF Frames, N

\* The order stays.
LEMMA AscendingRetain ==
    ASSUME NEW S, NEW lane \in Seq(S), NEW keep, Ascending(lane)
    PROVE  Ascending(Retain(lane, keep))
  <1>. DEFINE N == Len(lane)
  <1>1. N \in Nat /\ \A i \in 1..N : lane[i] \in S
    OBVIOUS
  <1>. PICK g \in [0..Len(lane) -> Seq(S)] : Goes(g, lane, keep)
    BY RetainSteps
  <1>2. /\ g \in [0..N -> Seq(S)] /\ g[0] = <<>>
        /\ \A i \in 1..N :
             g[i] = IF lane[i] \in keep THEN Append(g[i - 1], lane[i]) ELSE g[i - 1]
        /\ Retain(lane, keep) = g[N]
    BY DEF Goes
  <1>0. \A i, j \in 1..N : i < j => lane[i].seq < lane[j].seq
    BY DEF Ascending
  <1>. HIDE DEF N
  <1>. DEFINE Fine(n) == /\ Ascending(g[n])
                         /\ \A f \in Frames(g[n]), j \in (n + 1)..N : f.seq < lane[j].seq
              T == {n \in Nat : n <= N => Fine(n)}
  <1>3. 0 \in T
    BY <1>2, FramesOfEmpty
  <1>4. ASSUME NEW n \in Nat, n \in T
        PROVE  n + 1 \in T
    <2>. SUFFICES ASSUME n + 1 <= N PROVE Fine(n + 1)
      OBVIOUS
    <2>1. /\ n + 1 \in 1..N /\ n \in 0..N /\ (n + 1) - 1 = n
          /\ Fine(n)
      BY <1>1, <1>4
    <2>2. /\ g[n] \in Seq(S) /\ lane[n + 1] \in S
          /\ g[n + 1] = IF lane[n + 1] \in keep THEN Append(g[n], lane[n + 1]) ELSE g[n]
      BY <1>1, <1>2, <2>1
    <2>3. n + 1 \in (n + 1)..N /\ ((n + 1) + 1)..N \subseteq (n + 1)..N
      BY <1>1
    <2>4. \A j \in ((n + 1) + 1)..N : j \in 1..N /\ n + 1 < j
      BY <1>1
    <2>5. \A j \in ((n + 1) + 1)..N : lane[n + 1].seq < lane[j].seq
      BY <1>0, <2>1, <2>4
    <2>6. \A f \in Frames(g[n]) : f.seq < lane[n + 1].seq
      BY <2>1, <2>3
    <2>7. CASE lane[n + 1] \in keep
      <3>1. Frames(g[n + 1]) = Frames(g[n]) \cup {lane[n + 1]}
        BY <2>2, <2>7, FramesOfAppend
      <3>2. Ascending(g[n + 1])
        BY <2>1, <2>2, <2>6, <2>7, AscendingAppend
      <3>. QED  BY <2>1, <2>3, <2>5, <3>1, <3>2
    <2>8. CASE lane[n + 1] \notin keep
      BY <2>1, <2>2, <2>3, <2>8
    <2>. QED  BY <2>7, <2>8
  <1>. HIDE DEF T
  <1>5. N \in T
    BY <1>1, <1>3, <1>4, SetInduction
  <1>. QED  BY <1>1, <1>2, <1>5 DEF T

LEMMA FramesOfConcat ==
    ASSUME NEW S, NEW lane \in Seq(S), NEW next \in Seq(S)
    PROVE  /\ lane \o next \in Seq(S)
           /\ Frames(lane \o next) = Frames(lane) \cup Frames(next)
           /\ Ascending(lane) /\ Ascending(next) /\ Precede(lane, next) => Ascending(lane \o next)
  <1>. DEFINE both == lane \o next
              N == Len(lane)
              M == Len(next)
  <1>1. /\ N \in Nat /\ M \in Nat /\ both \in Seq(S) /\ Len(both) = N + M
        /\ \A i \in 1..N : both[i] = lane[i]
        /\ \A j \in 1..M : both[N + j] = next[j]
    OBVIOUS
  <1>. HIDE DEF both
  <1>2. \A k \in 1..(N + M) : k \in 1..N \/ (k - N \in 1..M /\ N + (k - N) = k)
    BY <1>1
  <1>3. ASSUME NEW k \in 1..(N + M)
        PROVE  (k \in 1..N /\ both[k] = lane[k]) \/ (k - N \in 1..M /\ both[k] = next[k - N])
    <2>1. CASE k \in 1..N
      BY <1>1, <2>1
    <2>2. CASE k - N \in 1..M /\ N + (k - N) = k
      <3>1. both[N + (k - N)] = next[k - N]
        BY <1>1, <2>2
      <3>. QED  BY <2>2, <3>1
    <2>. QED  BY <1>2, <2>1, <2>2
  <1>4. \A j \in 1..M : N + j \in 1..(N + M)
    BY <1>1
  <1>5. \A i \in 1..N : i \in 1..(N + M)
    BY <1>1
  <1>6. Frames(both) = Frames(lane) \cup Frames(next)
    <2>1. Frames(both) \subseteq Frames(lane) \cup Frames(next)
      BY <1>1, <1>3 DEF Frames
    <2>2. Frames(lane) \subseteq Frames(both)
      BY <1>1, <1>5 DEF Frames
    <2>3. Frames(next) \subseteq Frames(both)
      BY <1>1, <1>4 DEF Frames
    <2>. QED  BY <2>1, <2>2, <2>3
  <1>7. ASSUME Ascending(lane), Ascending(next), Precede(lane, next)
        PROVE  Ascending(both)
    <2>1. ASSUME NEW i \in 1..(N + M), NEW j \in 1..(N + M), i < j
          PROVE  both[i].seq < both[j].seq
      <3>1. CASE j \in 1..N
        <4>1. i \in 1..N
          BY <1>1, <2>1, <3>1
        <4>. QED  BY <1>1, <1>7, <2>1, <3>1, <4>1 DEF Ascending
      <3>2. CASE i \in 1..N /\ j - N \in 1..M /\ both[j] = next[j - N]
        <4>1. lane[i] \in Frames(lane) /\ next[j - N] \in Frames(next)
          BY <3>2 DEF Frames
        <4>. QED  BY <1>1, <1>7, <3>2, <4>1 DEF Precede
      <3>3. CASE /\ i - N \in 1..M /\ both[i] = next[i - N]
                 /\ j - N \in 1..M /\ both[j] = next[j - N]
        <4>1. i - N < j - N
          BY <1>1, <2>1
        <4>. QED  BY <1>7, <3>3, <4>1 DEF Ascending
      <3>4. (i \in 1..N \/ (i - N \in 1..M /\ both[i] = next[i - N]))
            /\ (j \in 1..N \/ (j - N \in 1..M /\ both[j] = next[j - N]))
        BY <1>3
      <3>. QED  BY <3>1, <3>2, <3>3, <3>4
    <2>. QED  BY <1>1, <2>1 DEF Ascending
  <1>. QED  BY <1>1, <1>6, <1>7 DEF both

=============================================================================
