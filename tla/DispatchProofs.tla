--------------------------- MODULE DispatchProofs ----------------------------
(***************************************************************************)
(* The round trip of a dispatched task, and the two transports it goes by, *)
(* checked by TLAPS: what is concluded of a task has happened, barge-in    *)
(* costs no event and of the calls only the one it finds half-way; and on  *)
(* either transport what is told of a task is kept apart run from run and  *)
(* turn from turn, and a follow-up replays what the pipeline was told.     *)
(***************************************************************************)
EXTENDS DispatchTransports, Dispatch, SequenceTheorems, FiniteSetTheorems, TLAPS

\* The lemmas about induction over data, and about lanes.
Data == INSTANCE LinkProofs

-----------------------------------------------------------------------------
(***************************************************************************)
(* Sequences, and what is selected from them.                              *)
(***************************************************************************)

LEMMA SequencesGrow ==
    ASSUME NEW S, NEW P, <<>> \in P,
           \A s \in Seq(S), x \in S : s \in P => Append(s, x) \in P
    PROVE  \A s \in Seq(S) : s \in P
  <1>. DEFINE T == {n \in Nat : \A s \in Seq(S) : Len(s) = n => s \in P}
  <1>1. 0 \in T
    BY EmptySeq
  <1>2. ASSUME NEW n \in Nat, n \in T
        PROVE  n + 1 \in T
    <2>1. ASSUME NEW s \in Seq(S), Len(s) = n + 1
          PROVE  s \in P
      <3>1. s /= <<>>
        BY <2>1
      <3>2. PICK t \in Seq(S), x \in S : s = Append(t, x)
        BY <3>1, SequenceEmptyOrAppend
      <3>3. Len(t) = n
        BY <2>1, <3>2
      <3>. QED  BY <1>2, <3>2, <3>3
    <2>. QED  BY <2>1
  <1>3. Nat \subseteq T
    <2>. HIDE DEF T
    <2>. QED  BY <1>1, <1>2, Data!SetInduction
  <1>. QED  BY <1>3

LEMMA ConcatAppend ==
    ASSUME NEW S, NEW s \in Seq(S), NEW t \in Seq(S), NEW x \in S
    PROVE  s \o Append(t, x) = Append(s \o t, x)
  <1>1. t \o <<x>> = Append(t, x) /\ (s \o t) \o <<x>> = Append(s \o t, x)
    BY AppendIsConcat, ConcatProperties
  <1>2. (s \o t) \o <<x>> = s \o (t \o <<x>>)
    <2>1. <<x>> \in Seq(S)
      OBVIOUS
    <2>. QED  BY <2>1, ConcatAssociative
  <1>. QED  BY <1>1, <1>2

LEMMA RetainIsShared ==
    \A seq, keep : Lanes!Retain(seq, keep) = Data!Retain(seq, keep) /\ Lanes!Frames(seq) = Data!Frames(seq)
  BY DEF Lanes!Retain, Data!Retain, Lanes!Frames, Data!Frames

LEMMA Retained ==
    ASSUME NEW S, NEW s \in Seq(S), NEW keep
    PROVE  /\ Lanes!Retain(s, keep) \in Seq(S)
           /\ Lanes!Frames(Lanes!Retain(s, keep)) = Lanes!Frames(s) \cap keep
  BY Data!RetainEffect, RetainIsShared

LEMMA RetainedAppend ==
    ASSUME NEW S, NEW s \in Seq(S), NEW x \in S, NEW keep
    PROVE  Lanes!Retain(Append(s, x), keep)
             = IF x \in keep THEN Append(Lanes!Retain(s, keep), x) ELSE Lanes!Retain(s, keep)
  <1>. DEFINE whole == Append(s, x)
              N == Len(s)
  <1>1. /\ N \in Nat /\ whole \in Seq(S) /\ Len(whole) = N + 1 /\ whole[N + 1] = x
        /\ \A i \in 1..N : whole[i] = s[i]
    BY AppendProperties
  <1>. HIDE DEF whole
  <1>2. PICK g \in [0..N -> Seq(S)] : Data!Goes(g, s, keep)
    BY Data!RetainSteps
  <1>3. PICK h \in [0..Len(whole) -> Seq(S)] : Data!Goes(h, whole, keep)
    BY <1>1, Data!RetainSteps
  <1>4. /\ g[0] = <<>> /\ h[0] = <<>>
        /\ \A i \in 1..N : g[i] = IF s[i] \in keep THEN Append(g[i - 1], s[i]) ELSE g[i - 1]
        /\ \A i \in 1..(N + 1) : h[i] = IF whole[i] \in keep THEN Append(h[i - 1], whole[i]) ELSE h[i - 1]
        /\ Data!Retain(s, keep) = g[N] /\ Data!Retain(whole, keep) = h[N + 1]
    BY <1>1, <1>2, <1>3 DEF Data!Goes
  <1>. HIDE DEF N
  <1>5. g[N] = h[N]
    <2>. DEFINE T == {n \in 0..N : g[n] = h[n]}
    <2>1. 0 \in T
      BY <1>1, <1>4
    <2>2. ASSUME NEW n \in 0..N, n + 1 <= N, n \in T
          PROVE  n + 1 \in T
      <3>1. n + 1 \in 1..N /\ n + 1 \in 1..(N + 1) /\ (n + 1) - 1 = n /\ g[n] = h[n]
        BY <1>1, <2>2
      <3>2. /\ g[n + 1] = IF s[n + 1] \in keep THEN Append(g[n], s[n + 1]) ELSE g[n]
            /\ h[n + 1] = IF whole[n + 1] \in keep THEN Append(h[n], whole[n + 1]) ELSE h[n]
        BY <1>4, <3>1
      <3>3. whole[n + 1] = s[n + 1]
        BY <1>1, <3>1
      <3>4. g[n + 1] = h[n + 1]
        BY ONLY <3>1, <3>2, <3>3
      <3>. QED  BY <1>1, <3>1, <3>4
    <2>. HIDE DEF T
    <2>3. \A n \in 0..N : n \in T
      BY <1>1, <2>1, <2>2, Data!CountingUp
    <2>4. N \in 0..N
      BY <1>1
    <2>5. N \in T
      BY <2>3, <2>4
    <2>. QED  BY <2>5 DEF T
  <1>6. N + 1 \in 1..(N + 1) /\ (N + 1) - 1 = N
    BY <1>1
  <1>7. h[N + 1] = IF x \in keep THEN Append(h[N], x) ELSE h[N]
    BY <1>1, <1>4, <1>6
  <1>8. Lanes!Retain(s, keep) = g[N] /\ Lanes!Retain(whole, keep) = h[N + 1]
    BY <1>4, RetainIsShared
  <1>. QED  BY <1>5, <1>7, <1>8, Zenon DEF whole

LEMMA RetainedFromNone == \A keep : Lanes!Retain(<<>>, keep) = <<>>
  <1>. TAKE keep
  <1>1. <<>> \in Seq({})
    OBVIOUS
  <1>2. PICK g \in [0..Len(<<>>) -> Seq({})] : Data!Goes(g, <<>>, keep)
    BY <1>1, Data!RetainSteps
  <1>3. g[0] = <<>> /\ Data!Retain(<<>>, keep) = g[Len(<<>>)]
    BY <1>2 DEF Data!Goes
  <1>. QED  BY <1>3, RetainIsShared

LEMMA RetainedAlike ==
    ASSUME NEW S, NEW s \in Seq(S), NEW keep, NEW more,
           \A i \in 1..Len(s) : s[i] \in keep <=> s[i] \in more
    PROVE  Lanes!Retain(s, keep) = Lanes!Retain(s, more)
  <1>. DEFINE Alike(t) == \A i \in 1..Len(t) : t[i] \in keep <=> t[i] \in more
              P == {t \in Seq(S) : Alike(t) => Lanes!Retain(t, keep) = Lanes!Retain(t, more)}
  <1>1. <<>> \in P
    BY RetainedFromNone
  <1>2. ASSUME NEW t \in Seq(S), NEW x \in S, t \in P
        PROVE  Append(t, x) \in P
    <2>0. Append(t, x) \in Seq(S)
      BY AppendProperties
    <2>. SUFFICES ASSUME Alike(Append(t, x))
                  PROVE  Lanes!Retain(Append(t, x), keep) = Lanes!Retain(Append(t, x), more)
      BY <2>0
    <2>1. /\ Len(Append(t, x)) = Len(t) + 1 /\ Append(t, x)[Len(t) + 1] = x
          /\ \A i \in 1..Len(t) : Append(t, x)[i] = t[i]
          /\ Len(t) \in Nat
      BY AppendProperties
    <2>2. x \in keep <=> x \in more
      BY <2>1
    <2>3. Alike(t)
      BY <2>1
    <2>4. Lanes!Retain(t, keep) = Lanes!Retain(t, more)
      BY <1>2, <2>3
    <2>5. /\ Lanes!Retain(Append(t, x), keep)
               = IF x \in keep THEN Append(Lanes!Retain(t, keep), x) ELSE Lanes!Retain(t, keep)
          /\ Lanes!Retain(Append(t, x), more)
               = IF x \in more THEN Append(Lanes!Retain(t, more), x) ELSE Lanes!Retain(t, more)
      BY RetainedAppend
    <2>. QED  BY <2>2, <2>4, <2>5, Zenon
  <1>3. s \in P
    <2>. HIDE DEF P
    <2>. QED  BY <1>1, <1>2, SequencesGrow
  <1>. QED  BY <1>3

-----------------------------------------------------------------------------
(***************************************************************************)
(* The events a sequence holds, and the calls.                             *)
(***************************************************************************)

LEMMA EventsNone == \A kinds : EventsIn(<<>>, kinds) = <<>>
  BY RetainedFromNone DEF EventsIn, EventsOf, Only

LEMMA EventsSelected ==
    ASSUME NEW S, NEW s \in Seq(S), NEW kinds, NEW more, \A x \in S : x \in more <=> x.kind \in kinds
    PROVE  EventsIn(s, kinds) = EventsOf(Lanes!Retain(s, more))
  <1>. DEFINE keep == {x \in Lanes!Frames(s) : x.kind \in kinds}
  <1>1. \A i \in 1..Len(s) : s[i] \in keep <=> s[i] \in more
    <2>1. \A i \in 1..Len(s) : s[i] \in S /\ s[i] \in Lanes!Frames(s)
      BY DEF Lanes!Frames
    <2>. QED  BY <2>1
  <1>2. EventsIn(s, kinds) = EventsOf(Lanes!Retain(s, keep))
    BY DEF EventsIn, Only
  <1>. HIDE DEF keep
  <1>3. Lanes!Retain(s, keep) = Lanes!Retain(s, more)
    BY <1>1, RetainedAlike
  <1>. QED  BY <1>2, <1>3

LEMMA EventsOfAppend ==
    ASSUME NEW S, NEW q \in Seq(S), NEW x \in S, x.event \in DispatchEvent,
           \A i \in 1..Len(q) : q[i].event \in DispatchEvent
    PROVE  EventsOf(Append(q, x)) = Append(EventsOf(q), x.event)
  <1>. DEFINE r == Append(q, x)
              a == EventsOf(r)
              e == EventsOf(q)
              b == Append(e, x.event)
  <1>1. /\ r \in Seq(S) /\ Len(r) = Len(q) + 1 /\ r[Len(q) + 1] = x /\ Len(q) \in Nat
        /\ \A i \in 1..Len(q) : r[i] = q[i]
    BY AppendProperties
  <1>. HIDE DEF r
  <1>2. e \in Seq(DispatchEvent) /\ Len(e) = Len(q) /\ \A i \in 1..Len(q) : e[i] = q[i].event
    BY <1>1 DEF EventsOf
  <1>3. \A i \in 1..(Len(q) + 1) : r[i].event \in DispatchEvent
    BY <1>1
  <1>4. a \in Seq(DispatchEvent) /\ Len(a) = Len(q) + 1 /\ \A i \in 1..(Len(q) + 1) : a[i] = r[i].event
    BY <1>1, <1>3 DEF EventsOf
  <1>. HIDE DEF e
  <1>5. /\ b \in Seq(DispatchEvent) /\ Len(b) = Len(q) + 1 /\ b[Len(q) + 1] = x.event
        /\ \A i \in 1..Len(q) : b[i] = q[i].event
    BY <1>2, AppendProperties
  <1>. HIDE DEF a, b
  <1>6. \A i \in 1..(Len(q) + 1) : a[i] = b[i]
    BY <1>1, <1>4, <1>5
  <1>7. a = b
    BY <1>1, <1>4, <1>5, <1>6, SeqEqual
  <1>. QED  BY <1>7 DEF a, b, e, r

\* What is taken from a sequence whose frames of these kinds hold events.
Carry(S, kinds) == \A x \in S : x.kind \in kinds => x.event \in DispatchEvent

LEMMA EventsType ==
    ASSUME NEW S, NEW kinds, Carry(S, kinds), NEW s \in Seq(S)
    PROVE  EventsIn(s, kinds) \in Seq(DispatchEvent)
  <1>. DEFINE more == {y \in S : y.kind \in kinds}
              q == Lanes!Retain(s, more)
  <1>1. q \in Seq(S) /\ Lanes!Frames(q) = Lanes!Frames(s) \cap more
    BY Retained
  <1>2. EventsIn(s, kinds) = EventsOf(q)
    <2>1. \A x \in S : x \in more <=> x.kind \in kinds
      OBVIOUS
    <2>. HIDE DEF more
    <2>. QED  BY <2>1, EventsSelected
  <1>3. \A y \in more : y.event \in DispatchEvent
    BY DEF Carry
  <1>. HIDE DEF q, more
  <1>4. \A i \in 1..Len(q) : q[i] \in Lanes!Frames(q)
    BY DEF Lanes!Frames
  <1>5. \A i \in 1..Len(q) : q[i].event \in DispatchEvent
    BY <1>1, <1>3, <1>4
  <1>6. Len(q) \in Nat
    BY <1>1
  <1>. QED  BY <1>2, <1>5, <1>6 DEF EventsOf

LEMMA EventsAppend ==
    ASSUME NEW S, NEW kinds, Carry(S, kinds), NEW s \in Seq(S), NEW x \in S
    PROVE  EventsIn(Append(s, x), kinds)
             = IF x.kind \in kinds THEN Append(EventsIn(s, kinds), x.event) ELSE EventsIn(s, kinds)
  <1>. DEFINE more == {y \in S : y.kind \in kinds}
              q == Lanes!Retain(s, more)
  <1>0. \A y \in S : y \in more <=> y.kind \in kinds
    OBVIOUS
  <1>1. \A y \in more : y.event \in DispatchEvent
    BY DEF Carry
  <1>. HIDE DEF more
  <1>2. Append(s, x) \in Seq(S)
    BY AppendProperties
  <1>3. q \in Seq(S) /\ Lanes!Frames(q) = Lanes!Frames(s) \cap more
    BY Retained
  <1>4. EventsIn(s, kinds) = EventsOf(q)
    BY <1>0, EventsSelected
  <1>5. EventsIn(Append(s, x), kinds) = EventsOf(Lanes!Retain(Append(s, x), more))
    <2>. DEFINE t == Append(s, x)
    <2>. HIDE DEF t
    <2>1. t \in Seq(S)
      BY <1>2 DEF t
    <2>2. EventsIn(t, kinds) = EventsOf(Lanes!Retain(t, more))
      BY <1>0, <2>1, EventsSelected
    <2>. QED  BY <2>2 DEF t
  <1>6. Lanes!Retain(Append(s, x), more) = IF x \in more THEN Append(q, x) ELSE q
    BY RetainedAppend
  <1>. HIDE DEF q
  <1>7. \A i \in 1..Len(q) : q[i] \in Lanes!Frames(q)
    BY DEF Lanes!Frames
  <1>8. \A i \in 1..Len(q) : q[i].event \in DispatchEvent
    BY <1>1, <1>3, <1>7
  <1>9. CASE x.kind \in kinds
    <2>1. x \in more /\ x.event \in DispatchEvent
      BY <1>0, <1>1, <1>9
    <2>2. EventsOf(Append(q, x)) = Append(EventsOf(q), x.event)
      BY <1>3, <1>8, <2>1, EventsOfAppend
    <2>. QED  BY <1>4, <1>5, <1>6, <1>9, <2>1, <2>2, Zenon
  <1>10. CASE x.kind \notin kinds
    <2>1. x \notin more
      BY <1>0, <1>10
    <2>. QED  BY <1>4, <1>5, <1>6, <1>10, <2>1, Zenon
  <1>. QED  BY <1>9, <1>10

LEMMA EventsConcat ==
    ASSUME NEW S, NEW kinds, Carry(S, kinds), NEW s \in Seq(S), NEW t \in Seq(S)
    PROVE  EventsIn(s \o t, kinds) = EventsIn(s, kinds) \o EventsIn(t, kinds)
  <1>. DEFINE P == {u \in Seq(S) : EventsIn(s \o u, kinds) = EventsIn(s, kinds) \o EventsIn(u, kinds)}
              a == EventsIn(s, kinds)
  <1>0. a \in Seq(DispatchEvent)
    BY EventsType
  <1>1. <<>> \in P
    <2>1. s \o <<>> = s /\ a \o <<>> = a
      BY <1>0, ConcatEmptySeq
    <2>2. EventsIn(<<>>, kinds) = <<>>
      BY EventsNone
    <2>3. <<>> \in Seq(S)
      OBVIOUS
    <2>. QED  BY <2>1, <2>2, <2>3, Zenon
  <1>2. ASSUME NEW u \in Seq(S), NEW x \in S, u \in P
        PROVE  Append(u, x) \in P
    <2>. DEFINE b == EventsIn(u, kinds)
                e == x.event
                v == Append(u, x)
    <2>1. v \in Seq(S) /\ s \o u \in Seq(S) /\ s \o v = Append(s \o u, x)
      BY AppendProperties, ConcatProperties, ConcatAppend
    <2>2. b \in Seq(DispatchEvent)
      BY EventsType
    <2>3. EventsIn(Append(s \o u, x), kinds)
            = IF x.kind \in kinds THEN Append(EventsIn(s \o u, kinds), e) ELSE EventsIn(s \o u, kinds)
      <3>. DEFINE w == s \o u
      <3>. HIDE DEF w
      <3>1. w \in Seq(S)
        BY <2>1 DEF w
      <3>2. EventsIn(Append(w, x), kinds)
              = IF x.kind \in kinds THEN Append(EventsIn(w, kinds), x.event) ELSE EventsIn(w, kinds)
        BY <3>1, EventsAppend
      <3>. QED  BY <3>2 DEF w
    <2>4. EventsIn(v, kinds) = IF x.kind \in kinds THEN Append(b, e) ELSE b
      BY EventsAppend
    <2>5. EventsIn(s \o u, kinds) = a \o b
      BY <1>2
    <2>6. x.kind \in kinds => Append(a \o b, e) = a \o Append(b, e)
      <3>1. x.kind \in kinds => e \in DispatchEvent
        BY DEF Carry
      <3>. HIDE DEF a, b, e
      <3>3. e \in DispatchEvent => a \o Append(b, e) = Append(a \o b, e)
        BY <1>0, <2>2, ConcatAppend
      <3>. QED  BY <3>1, <3>3
    <2>7. EventsIn(s \o v, kinds) = a \o EventsIn(v, kinds)
      <3>. HIDE DEF a, b, e, v
      <3>. QED  BY <2>1, <2>3, <2>4, <2>5, <2>6, Zenon
    <2>. QED  BY <2>1, <2>7
  <1>3. t \in P
    <2>. HIDE DEF P
    <2>. QED  BY <1>1, <1>2, SequencesGrow
  <1>. QED  BY <1>3

LEMMA EventsFirst ==
    ASSUME NEW S, NEW kinds, Carry(S, kinds), NEW s \in Seq(S), s # <<>>
    PROVE  EventsIn(s, kinds)
             = IF Head(s).kind \in kinds THEN <<Head(s).event>> \o EventsIn(Tail(s), kinds)
               ELSE EventsIn(Tail(s), kinds)
  <1>. DEFINE x == Head(s)
              t == Tail(s)
              one == Append(<<>>, x)
              b == EventsIn(t, kinds)
  <1>1. x \in S /\ t \in Seq(S) /\ s = <<x>> \o t
    BY HeadTailProperties
  <1>2. one = <<x>> /\ one \in Seq(S)
    BY <1>1
  <1>3. EventsIn(<<>>, kinds) = <<>> /\ <<>> \in Seq(S)
    BY EventsNone
  <1>4. b \in Seq(DispatchEvent)
    BY <1>1, EventsType
  <1>. HIDE DEF x, t, b
  <1>5. EventsIn(one, kinds) = IF x.kind \in kinds THEN Append(<<>>, x.event) ELSE <<>>
    <2>. DEFINE e == <<>>
    <2>. HIDE DEF e
    <2>1. e \in Seq(S) /\ EventsIn(e, kinds) = e
      BY <1>3 DEF e
    <2>2. EventsIn(Append(e, x), kinds)
            = IF x.kind \in kinds THEN Append(EventsIn(e, kinds), x.event) ELSE EventsIn(e, kinds)
      BY <1>1, <2>1, EventsAppend
    <2>. QED  BY <2>1, <2>2, Zenon DEF e
  <1>6. EventsIn(one \o t, kinds) = EventsIn(one, kinds) \o b
    <2>. HIDE DEF one
    <2>. QED  BY <1>1, <1>2, EventsConcat DEF b
  <1>7. EventsIn(s, kinds) = EventsIn(one, kinds) \o b
    BY <1>1, <1>2, <1>6, Zenon
  <1>8. <<>> \o b = b /\ (Append(<<>>, x.event) = <<x.event>>)
    BY <1>4, ConcatEmptySeq
  <1>9. EventsIn(s, kinds) = IF x.kind \in kinds THEN <<x.event>> \o b ELSE b
    BY <1>5, <1>7, <1>8, Zenon
  <1>. QED  BY <1>9 DEF x, t, b

\* A second selection that the first one does not spoil.
LEMMA RetainedTwice ==
    ASSUME NEW S, NEW s \in Seq(S), NEW more, NEW keep, \A x \in S : x \in more => x \in keep
    PROVE  Lanes!Retain(Lanes!Retain(s, keep), more) = Lanes!Retain(s, more)
  <1>. DEFINE P == {t \in Seq(S) : Lanes!Retain(Lanes!Retain(t, keep), more) = Lanes!Retain(t, more)}
  <1>1. <<>> \in P
    BY RetainedFromNone
  <1>2. ASSUME NEW t \in Seq(S), NEW x \in S, t \in P
        PROVE  Append(t, x) \in P
    <2>. DEFINE k == Lanes!Retain(t, keep)
    <2>1. k \in Seq(S) /\ Append(t, x) \in Seq(S)
      BY Retained, AppendProperties
    <2>2. /\ Lanes!Retain(Append(t, x), keep) = IF x \in keep THEN Append(k, x) ELSE k
          /\ Lanes!Retain(Append(t, x), more)
               = IF x \in more THEN Append(Lanes!Retain(t, more), x) ELSE Lanes!Retain(t, more)
      BY RetainedAppend
    <2>3. Lanes!Retain(k, more) = Lanes!Retain(t, more)
      BY <1>2
    <2>. HIDE DEF k
    <2>4. Lanes!Retain(Append(k, x), more)
            = IF x \in more THEN Append(Lanes!Retain(k, more), x) ELSE Lanes!Retain(k, more)
      BY <2>1, RetainedAppend
    <2>5. Lanes!Retain(Lanes!Retain(Append(t, x), keep), more) = Lanes!Retain(Append(t, x), more)
      BY <2>2, <2>3, <2>4, Zenon
    <2>. QED  BY <2>1, <2>5
  <1>3. s \in P
    <2>. HIDE DEF P
    <2>. QED  BY <1>1, <1>2, SequencesGrow
  <1>. QED  BY <1>3

LEMMA EventsKept ==
    ASSUME NEW S, NEW s \in Seq(S), NEW kinds, NEW keep,
           \A i \in 1..Len(s) : s[i].kind \in kinds => s[i] \in keep
    PROVE  EventsIn(Lanes!Retain(s, keep), kinds) = EventsIn(s, kinds)
  <1>. DEFINE whole == {x \in S : x \in keep \/ x.kind \in kinds}
              more == {x \in S : x.kind \in kinds}
              k == Lanes!Retain(s, whole)
  <1>1. Lanes!Retain(s, keep) = k
    <2>1. \A i \in 1..Len(s) : s[i] \in keep <=> s[i] \in whole
      OBVIOUS
    <2>. HIDE DEF whole
    <2>. QED  BY <2>1, RetainedAlike
  <1>2. k \in Seq(S)
    BY Retained
  <1>3. (\A x \in S : x \in more <=> x.kind \in kinds) /\ (\A x \in S : x \in more => x \in whole)
    OBVIOUS
  <1>. HIDE DEF more, whole
  <1>4. Lanes!Retain(k, more) = Lanes!Retain(s, more)
    BY <1>3, RetainedTwice
  <1>. HIDE DEF k
  <1>5. EventsIn(k, kinds) = EventsOf(Lanes!Retain(k, more))
    BY <1>2, <1>3, EventsSelected
  <1>6. EventsIn(s, kinds) = EventsOf(Lanes!Retain(s, more))
    BY <1>3, EventsSelected
  <1>. QED  BY <1>1, <1>4, <1>5, <1>6

LEMMA EventsAbsent ==
    ASSUME NEW S, NEW s \in Seq(S), NEW kinds, \A i \in 1..Len(s) : s[i].kind \notin kinds
    PROVE  EventsIn(s, kinds) = <<>>
  <1>. DEFINE more == {x \in S : x.kind \in kinds}
  <1>0. \A x \in S : x \in more <=> x.kind \in kinds
    OBVIOUS
  <1>1. Lanes!Retain(s, more) \in Seq(S) /\ Lanes!Frames(Lanes!Retain(s, more)) = Lanes!Frames(s) \cap more
    BY Retained
  <1>2. Lanes!Frames(s) \cap more = {}
    BY DEF Lanes!Frames
  <1>. HIDE DEF more
  <1>3. Lanes!Retain(s, more) = <<>>
    <2>. DEFINE k == Lanes!Retain(s, more)
    <2>. HIDE DEF k
    <2>1. k \in Seq(S) /\ Lanes!Frames(k) = {}
      BY <1>1, <1>2 DEF k
    <2>2. k # <<>> => 1 \in 1..Len(k)
      BY <2>1, EmptySeq
    <2>3. k = <<>>
      BY <2>1, <2>2 DEF Lanes!Frames
    <2>. QED  BY <2>3 DEF k
  <1>4. EventsIn(s, kinds) = EventsOf(<<>>)
    BY <1>0, <1>3, EventsSelected
  <1>. QED  BY <1>4 DEF EventsOf

-----------------------------------------------------------------------------
(***************************************************************************)
(* The frames of a sequence, and whether its calls are distinct.           *)
(***************************************************************************)
LEMMA FramesAppend ==
    ASSUME NEW S, NEW s \in Seq(S), NEW x \in S
    PROVE  Lanes!Frames(Append(s, x)) = Lanes!Frames(s) \cup {x}
  <1>. DEFINE a == Append(s, x)
  <1>1. /\ Len(a) = Len(s) + 1 /\ a[Len(s) + 1] = x /\ Len(s) \in Nat
        /\ \A i \in 1..Len(s) : a[i] = s[i]
    BY AppendProperties
  <1>. HIDE DEF a
  <1>2. Lanes!Frames(a) = Lanes!Frames(s) \cup {x}
    BY <1>1 DEF Lanes!Frames
  <1>. QED  BY <1>2 DEF a

LEMMA FramesConcat ==
    ASSUME NEW S, NEW s \in Seq(S), NEW t \in Seq(S)
    PROVE  Lanes!Frames(s \o t) = Lanes!Frames(s) \cup Lanes!Frames(t)
  <1>. DEFINE a == s \o t
  <1>1. /\ Len(a) = Len(s) + Len(t) /\ Len(s) \in Nat /\ Len(t) \in Nat
        /\ \A i \in 1..Len(s) + Len(t) : a[i] = IF i <= Len(s) THEN s[i] ELSE t[i - Len(s)]
    BY ConcatProperties
  <1>. HIDE DEF a
  <1>2. Lanes!Frames(s) \subseteq Lanes!Frames(a)
    BY <1>1 DEF Lanes!Frames
  <1>3. Lanes!Frames(t) \subseteq Lanes!Frames(a)
    <2>. SUFFICES ASSUME NEW i \in 1..Len(t) PROVE t[i] \in Lanes!Frames(a)
      BY DEF Lanes!Frames
    <2>1. Len(s) + i \in 1..Len(s) + Len(t) /\ a[Len(s) + i] = t[i]
      BY <1>1
    <2>. QED  BY <1>1, <2>1 DEF Lanes!Frames
  <1>4. Lanes!Frames(a) \subseteq Lanes!Frames(s) \cup Lanes!Frames(t)
    BY <1>1 DEF Lanes!Frames
  <1>. QED  BY <1>2, <1>3, <1>4 DEF a

LEMMA FramesTail ==
    ASSUME NEW S, NEW s \in Seq(S), s # <<>>
    PROVE  /\ Lanes!Frames(s) = {Head(s)} \cup Lanes!Frames(Tail(s))
           /\ Head(s) \in S /\ Tail(s) \in Seq(S)
  <1>1. Head(s) \in S /\ Tail(s) \in Seq(S) /\ s = <<Head(s)>> \o Tail(s)
    BY HeadTailProperties
  <1>2. <<Head(s)>> \in Seq(S)
    BY <1>1
  <1>3. Lanes!Frames(<<Head(s)>>) = {Head(s)}
    BY DEF Lanes!Frames
  <1>4. Lanes!Frames(<<Head(s)>> \o Tail(s)) = Lanes!Frames(<<Head(s)>>) \cup Lanes!Frames(Tail(s))
    <2>. DEFINE h == <<Head(s)>>
    <2>. HIDE DEF h
    <2>1. Lanes!Frames(h \o Tail(s)) = Lanes!Frames(h) \cup Lanes!Frames(Tail(s))
      BY <1>1, <1>2, FramesConcat DEF h
    <2>. QED  BY <2>1 DEF h
  <1>. QED  BY <1>1, <1>3, <1>4

\* Two frames that are not both a call with one id.
Apart(x, y) == x.kind = "call" /\ y.kind = "call" => x.id # y.id

LEMMA DistinctAppend ==
    ASSUME NEW S, NEW s \in Seq(S), NEW x \in S
    PROVE  Distinct(Append(s, x)) <=> Distinct(s) /\ \A y \in Lanes!Frames(s) : Apart(x, y)
  <1>. DEFINE a == Append(s, x)
  <1>1. /\ Len(a) = Len(s) + 1 /\ a[Len(s) + 1] = x /\ Len(s) \in Nat
        /\ \A i \in 1..Len(s) : a[i] = s[i]
    BY AppendProperties
  <1>. HIDE DEF a
  <1>2. ASSUME Distinct(a) PROVE Distinct(s) /\ \A y \in Lanes!Frames(s) : Apart(x, y)
    <2>1. Distinct(s)
      BY <1>1, <1>2 DEF Distinct
    <2>2. ASSUME NEW i \in 1..Len(s) PROVE Apart(x, s[i])
      <3>1. i \in 1..Len(a) /\ Len(s) + 1 \in 1..Len(a) /\ i # Len(s) + 1 /\ a[i] = s[i]
        BY <1>1
      <3>. QED  BY <1>1, <1>2, <3>1 DEF Distinct, Apart
    <2>. QED  BY <2>1, <2>2 DEF Lanes!Frames
  <1>3. ASSUME Distinct(s), \A y \in Lanes!Frames(s) : Apart(x, y)
        PROVE  Distinct(a)
    <2>1. \A i \in 1..Len(s) : Apart(x, s[i]) /\ Apart(s[i], x)
      BY <1>3 DEF Lanes!Frames, Apart
    <2>2. \A i, j \in 1..Len(s) : i # j => Apart(s[i], s[j])
      BY <1>3 DEF Distinct, Apart
    <2>3. \A i, j \in 1..Len(a) : i # j => Apart(a[i], a[j])
      BY <1>1, <2>1, <2>2
    <2>. QED  BY <2>3 DEF Distinct, Apart
  <1>. QED  BY <1>2, <1>3 DEF a

LEMMA DistinctConcat ==
    ASSUME NEW S, NEW s \in Seq(S), NEW t \in Seq(S)
    PROVE  Distinct(s \o t) <=> /\ Distinct(s) /\ Distinct(t)
                                /\ \A x \in Lanes!Frames(s), y \in Lanes!Frames(t) : Apart(x, y)
  <1>. DEFINE a == s \o t
  <1>1. /\ Len(a) = Len(s) + Len(t) /\ Len(s) \in Nat /\ Len(t) \in Nat
        /\ \A i \in 1..Len(s) + Len(t) : a[i] = IF i <= Len(s) THEN s[i] ELSE t[i - Len(s)]
    BY ConcatProperties
  <1>. HIDE DEF a
  <1>2. /\ \A i \in 1..Len(s) : i \in 1..Len(a) /\ a[i] = s[i]
        /\ \A i \in 1..Len(t) : Len(s) + i \in 1..Len(a) /\ a[Len(s) + i] = t[i]
    BY <1>1
  <1>3. ASSUME Distinct(a)
        PROVE  Distinct(s) /\ Distinct(t) /\ \A x \in Lanes!Frames(s), y \in Lanes!Frames(t) : Apart(x, y)
    <2>1. \A i, j \in 1..Len(a) : i # j => Apart(a[i], a[j])
      BY <1>3 DEF Distinct, Apart
    <2>2. \A i, j \in 1..Len(s) : i # j => Apart(s[i], s[j])
      BY <1>2, <2>1
    <2>3. \A i, j \in 1..Len(t) : i # j => Apart(t[i], t[j])
      <3>. TAKE i, j \in 1..Len(t)
      <3>1. i # j => Len(s) + i # Len(s) + j
        BY <1>1
      <3>. QED  BY <1>2, <2>1, <3>1
    <2>4. \A i \in 1..Len(s), j \in 1..Len(t) : Apart(s[i], t[j])
      <3>. TAKE i \in 1..Len(s), j \in 1..Len(t)
      <3>1. i # Len(s) + j
        BY <1>1
      <3>. QED  BY <1>2, <2>1, <3>1
    <2>5. Distinct(s)
      BY <2>2 DEF Distinct, Apart
    <2>6. Distinct(t)
      BY <2>3 DEF Distinct, Apart
    <2>. QED  BY <2>4, <2>5, <2>6 DEF Lanes!Frames
  <1>4. ASSUME Distinct(s), Distinct(t), \A x \in Lanes!Frames(s), y \in Lanes!Frames(t) : Apart(x, y)
        PROVE  Distinct(a)
    <2>1. \A i \in 1..Len(s), j \in 1..Len(t) : Apart(s[i], t[j]) /\ Apart(t[j], s[i])
      BY <1>4 DEF Lanes!Frames, Apart
    <2>2. \A i, j \in 1..Len(s) : i # j => Apart(s[i], s[j])
      BY <1>4 DEF Distinct, Apart
    <2>3. \A i, j \in 1..Len(t) : i # j => Apart(t[i], t[j])
      BY <1>4 DEF Distinct, Apart
    <2>4. ASSUME NEW i \in 1..Len(a), NEW j \in 1..Len(a), i # j PROVE Apart(a[i], a[j])
      <3>1. \/ i \in 1..Len(s) /\ a[i] = s[i]
            \/ i - Len(s) \in 1..Len(t) /\ a[i] = t[i - Len(s)]
        BY <1>1
      <3>2. \/ j \in 1..Len(s) /\ a[j] = s[j]
            \/ j - Len(s) \in 1..Len(t) /\ a[j] = t[j - Len(s)]
        BY <1>1
      <3>3. i - Len(s) # j - Len(s)
        BY <1>1, <2>4
      <3>. QED  BY <2>1, <2>2, <2>3, <2>4, <3>1, <3>2, <3>3
    <2>. QED  BY <2>4 DEF Distinct, Apart
  <1>. QED  BY <1>3, <1>4 DEF a

LEMMA DistinctTail ==
    ASSUME NEW S, NEW s \in Seq(S), s # <<>>, Distinct(s)
    PROVE  Distinct(Tail(s)) /\ \A y \in Lanes!Frames(Tail(s)) : Apart(Head(s), y)
  <1>. DEFINE h == <<Head(s)>>
              t == Tail(s)
  <1>1. Head(s) \in S /\ t \in Seq(S) /\ s = h \o t
    BY HeadTailProperties
  <1>2. h \in Seq(S) /\ Head(s) \in Lanes!Frames(h)
    BY <1>1 DEF Lanes!Frames
  <1>. HIDE DEF h, t
  <1>3. Distinct(h \o t)
    BY <1>1
  <1>4. Distinct(t) /\ \A x \in Lanes!Frames(h), y \in Lanes!Frames(t) : Apart(x, y)
    BY <1>1, <1>2, <1>3, DistinctConcat
  <1>. QED  BY <1>2, <1>4 DEF t

LEMMA DistinctRetained ==
    ASSUME NEW S, NEW s \in Seq(S), NEW keep, Distinct(s)
    PROVE  Distinct(Lanes!Retain(s, keep))
  <1>. DEFINE P == {t \in Seq(S) : Distinct(t) => Distinct(Lanes!Retain(t, keep))}
  <1>1. <<>> \in P
    BY RetainedFromNone DEF Distinct
  <1>2. ASSUME NEW t \in Seq(S), NEW x \in S, t \in P
        PROVE  Append(t, x) \in P
    <2>. DEFINE k == Lanes!Retain(t, keep)
    <2>0. Append(t, x) \in Seq(S)
      BY AppendProperties
    <2>. SUFFICES ASSUME Distinct(Append(t, x))
                  PROVE  Distinct(Lanes!Retain(Append(t, x), keep))
      BY <2>0
    <2>1. k \in Seq(S) /\ Lanes!Frames(k) \subseteq Lanes!Frames(t)
      BY Retained
    <2>2. Distinct(t) /\ \A y \in Lanes!Frames(t) : Apart(x, y)
      BY DistinctAppend
    <2>3. Distinct(k)
      BY <1>2, <2>2
    <2>. HIDE DEF k
    <2>4. Distinct(Append(k, x))
      BY <2>1, <2>2, <2>3, DistinctAppend
    <2>5. Lanes!Retain(Append(t, x), keep) = IF x \in keep THEN Append(k, x) ELSE k
      BY RetainedAppend DEF k
    <2>. QED  BY <2>3, <2>4, <2>5, Zenon
  <1>3. s \in P
    <2>. HIDE DEF P
    <2>. QED  BY <1>1, <1>2, SequencesGrow
  <1>. QED  BY <1>3

-----------------------------------------------------------------------------
(***************************************************************************)
(* An inbox after its first Interrupt.                                     *)
(***************************************************************************)
LEMMA FirstInterrupt ==
    ASSUME NEW S, NEW box \in Seq(S), Interrupted(box)
    PROVE  First(box) \in 1..Len(box) /\ IsInterrupt(box[First(box)])
  <1>. DEFINE I == {i \in 1..Len(box) : IsInterrupt(box[i])}
  <1>1. I \in SUBSET Nat /\ I # {} /\ \A i \in I : i \in 1..Len(box) /\ IsInterrupt(box[i])
    BY DEF Interrupted
  <1>2. First(box) = IF I # {} THEN Min(I) ELSE 0
    BY DEF First, SelectInSeq
  <1>. HIDE DEF I
  <1>3. \E m \in I : \A k \in I : m <= k
    BY <1>1, Data!LeastNatural
  <1>4. Min(I) \in I
    BY <1>3 DEF Min
  <1>. QED  BY <1>1, <1>2, <1>4

LEMMA AfterFacts ==
    ASSUME NEW S, NEW box \in Seq(S), Interrupted(box)
    PROVE  /\ AfterInterrupt(box) \in Seq(S)
           /\ Lanes!Frames(AfterInterrupt(box)) \subseteq Lanes!Frames(box)
           /\ \A x \in Lanes!Frames(box) : Durable(x) => x \in Lanes!Frames(AfterInterrupt(box))
           /\ Distinct(box) => Distinct(AfterInterrupt(box))
           /\ Carry(S, {"input"}) => Inputs(AfterInterrupt(box)) = Inputs(box)
  <1>. DEFINE n == First(box)
              p == SubSeq(box, 1, n - 1)
              q == SubSeq(box, n + 1, Len(box))
              x == box[n]
              one == <<x>>
              keep == {y \in Lanes!Frames(p) : Durable(y)}
              k == Lanes!Retain(p, keep)
  <1>1. n \in 1..Len(box) /\ IsInterrupt(x) /\ Len(box) \in Nat
    BY FirstInterrupt
  <1>. HIDE DEF n
  <1>2. x \in S
    BY <1>1
  <1>. HIDE DEF x
  <1>3. one \in Seq(S) /\ Lanes!Frames(one) = {x}
    BY <1>2 DEF Lanes!Frames
  <1>4. p \in Seq(S) /\ q \in Seq(S)
    <2>1. \A i \in 1..Len(box) : box[i] \in S
      OBVIOUS
    <2>2. p \in Seq(S)
      <3>1. \A i \in 1..(n - 1) : box[i] \in S
        BY <1>1, <2>1
      <3>2. n - 1 \in Int /\ 1 \in Int
        BY <1>1
      <3>. QED  BY <3>1, <3>2, SubSeqProperties
    <2>3. q \in Seq(S)
      <3>1. \A i \in (n + 1)..Len(box) : box[i] \in S
        BY <1>1, <2>1
      <3>2. n + 1 \in Int /\ Len(box) \in Int
        BY <1>1
      <3>. QED  BY <3>1, <3>2, SubSeqProperties
    <2>. QED  BY <2>2, <2>3
  <1>5. box = p \o (one \o q)
    <2>. DEFINE r == SubSeq(box, n, Len(box))
    <2>1. r = one \o q
      BY <1>1, SubSeqRecursiveFirst DEF x
    <2>2. p \o r = SubSeq(box, 1, Len(box))
      <3>1. 1 \in 1..Len(box) + 1 /\ n - 1 \in 1 - 1..Len(box) /\ Len(box) \in n - 1..Len(box)
        BY <1>1
      <3>2. SubSeq(box, 1, n - 1) \o SubSeq(box, (n - 1) + 1, Len(box)) = SubSeq(box, 1, Len(box))
        BY <3>1, ConcatAdjacentSubSeq
      <3>3. (n - 1) + 1 = n
        BY <1>1
      <3>. QED  BY <3>2, <3>3
    <2>3. SubSeq(box, 1, Len(box)) = box
      BY SubSeqFull
    <2>. QED  BY <2>1, <2>2, <2>3
  <1>6. AfterInterrupt(box) = k \o q
    BY DEF AfterInterrupt, Only, n
  <1>. HIDE DEF p, q, one
  <1>7. k \in Seq(S) /\ Lanes!Frames(k) = Lanes!Frames(p) \cap keep
    BY <1>4, Retained
  <1>8. keep \subseteq Lanes!Frames(p) /\ \A y \in Lanes!Frames(p) : y \in keep <=> Durable(y)
    OBVIOUS
  <1>. DEFINE r == one \o q
  <1>9. r \in Seq(S) /\ Lanes!Frames(r) = {x} \cup Lanes!Frames(q)
    BY <1>3, <1>4, ConcatProperties, FramesConcat
  <1>. HIDE DEF r, k, keep
  <1>10. box = p \o r
    BY <1>5 DEF r
  <1>11. Lanes!Frames(box) = Lanes!Frames(p) \cup Lanes!Frames(r)
    BY <1>4, <1>9, <1>10, FramesConcat
  <1>12. k \o q \in Seq(S) /\ Lanes!Frames(k \o q) = Lanes!Frames(k) \cup Lanes!Frames(q)
    BY <1>4, <1>7, ConcatProperties, FramesConcat
  <1>13. ~Durable(x)
    BY <1>1 DEF Durable, IsInterrupt
  <1>14. Distinct(box) => Distinct(k \o q)
    <2>1. Distinct(box) => /\ Distinct(p) /\ Distinct(r)
                           /\ \A y \in Lanes!Frames(p), z \in Lanes!Frames(r) : Apart(y, z)
      BY <1>4, <1>9, <1>10, DistinctConcat
    <2>2. Distinct(r) => Distinct(q)
      BY <1>3, <1>4, DistinctConcat DEF r
    <2>3. Distinct(p) => Distinct(k)
      BY <1>4, DistinctRetained DEF k
    <2>. QED  BY <1>4, <1>7, <1>8, <1>9, <2>1, <2>2, <2>3, DistinctConcat
  <1>15. Carry(S, {"input"}) => Inputs(k \o q) = Inputs(box)
    <2>. SUFFICES ASSUME Carry(S, {"input"}) PROVE Inputs(k \o q) = Inputs(box)
      OBVIOUS
    <2>. DEFINE K == {"input"}
    <2>. HIDE DEF K
    <2>0. Carry(S, K)
      BY DEF K
    <2>1. EventsIn(k \o q, K) = EventsIn(k, K) \o EventsIn(q, K)
      BY <1>4, <1>7, <2>0, EventsConcat
    <2>2. EventsIn(p \o r, K) = EventsIn(p, K) \o EventsIn(r, K)
      BY <1>4, <1>9, <2>0, EventsConcat
    <2>3. EventsIn(one \o q, K) = EventsIn(one, K) \o EventsIn(q, K)
      BY <1>3, <1>4, <2>0, EventsConcat
    <2>4. EventsIn(one, K) = <<>>
      <3>1. \A i \in 1..Len(one) : one[i].kind \notin K
        BY <1>1 DEF one, K, IsInterrupt
      <3>. QED  BY <1>3, <3>1, EventsAbsent
    <2>5. EventsIn(k, K) = EventsIn(p, K)
      <3>1. \A i \in 1..Len(p) : p[i].kind \in K => p[i] \in keep
        <4>1. \A i \in 1..Len(p) : p[i] \in Lanes!Frames(p)
          BY DEF Lanes!Frames
        <4>. QED  BY <1>8, <4>1 DEF K, Durable
      <3>. QED  BY <1>4, <3>1, EventsKept DEF k
    <2>6. EventsIn(q, K) \in Seq(DispatchEvent)
      BY <1>4, <2>0, EventsType
    <2>7. <<>> \o EventsIn(q, K) = EventsIn(q, K)
      BY <2>6, ConcatEmptySeq
    <2>8. EventsIn(r, K) = EventsIn(q, K)
      BY <2>3, <2>4, <2>7, Zenon DEF r
    <2>9. EventsIn(k \o q, K) = EventsIn(box, K)
      BY <1>10, <2>1, <2>2, <2>5, <2>8, Zenon
    <2>. QED  BY <2>9 DEF Inputs, K
  <1>. QED  BY <1>6, <1>7, <1>8, <1>9, <1>11, <1>12, <1>13, <1>14, <1>15

-----------------------------------------------------------------------------
(***************************************************************************)
(* What each action does to the fields of the records, and their types.    *)
(***************************************************************************)
USE DispatchAssumption

LEMMA FrameFacts ==
    /\ Interrupt \in Frame /\ Interrupt.kind = "interrupt"
    /\ \A kind \in {"user", "started", "text", "final", "finished"} :
         Plain(kind) \in Frame /\ Plain(kind).kind = kind
    /\ \A id \in CallIds : /\ Call(id) \in Frame /\ Call(id).kind = "call" /\ Call(id).id = id
                           /\ Command(id) \in Frame /\ Command(id).kind = "command" /\ Command(id).id = id
    /\ \A event \in DispatchEvent :
         /\ Raw(event) \in Frame /\ Raw(event).kind = "event" /\ Raw(event).event = event
         /\ Input(event) \in Frame /\ Input(event).kind = "input" /\ Input(event).event = event
         /\ Noted(event) \in Message /\ Noted(event).event = event
         /\ Noted(event).kind = IF event.kind = "accepted" THEN "result" ELSE "event"
    /\ Plain("user") \in Message /\ Plain("system") \in Message
    /\ Carry(Frame, {"input"}) /\ Carry(Message, {"result", "event"})
    /\ \A f \in Frame : /\ f.kind = "call" => f.id \in CallIds /\ f = Call(f.id)
                        /\ f.kind = "command" => f.id \in CallIds
                        /\ f.kind = "input" => f.event \in DispatchEvent
    /\ \A f \in Frame : f.kind \in {"interrupt", "user", "started", "text", "final", "finished",
                                    "call", "command", "event", "input"}
    /\ \A event \in DispatchEvent : event.id \in CallIds /\ event.kind \in {"accepted", "completion"}
  <1>1. Interrupt \in Frame /\ Interrupt.kind = "interrupt"
    BY DEF Interrupt, Frame
  <1>2. \A kind \in {"user", "started", "text", "final", "finished"} :
          Plain(kind) \in Frame /\ Plain(kind).kind = kind
    BY DEF Plain, Frame
  <1>3. \A id \in CallIds : /\ Call(id) \in Frame /\ Call(id).kind = "call" /\ Call(id).id = id
                            /\ Command(id) \in Frame /\ Command(id).kind = "command" /\ Command(id).id = id
    BY DEF Call, Command, Frame
  <1>4. \A event \in DispatchEvent :
          /\ Raw(event) \in Frame /\ Raw(event).kind = "event" /\ Raw(event).event = event
          /\ Input(event) \in Frame /\ Input(event).kind = "input" /\ Input(event).event = event
    BY DEF Raw, Input, Frame
  <1>5. \A event \in DispatchEvent :
          /\ Noted(event) \in Message /\ Noted(event).event = event
          /\ Noted(event).kind = IF event.kind = "accepted" THEN "result" ELSE "event"
    BY DEF Noted, Message
  <1>6. Plain("user") \in Message /\ Plain("system") \in Message
    BY DEF Plain, Message
  <1>7. \A f \in Frame : f.kind = "input" => f.event \in DispatchEvent
    BY DEF Frame
  <1>8. \A m \in Message : m.kind \in {"result", "event"} => m.event \in DispatchEvent
    BY DEF Message
  <1>9. \A f \in Frame : /\ f.kind = "call" => f.id \in CallIds /\ f = Call(f.id)
                         /\ f.kind = "command" => f.id \in CallIds
    BY DEF Frame, Call
  <1>10. \A f \in Frame : f.kind \in {"interrupt", "user", "started", "text", "final", "finished",
                                      "call", "command", "event", "input"}
    BY DEF Frame
  <1>11. \A event \in DispatchEvent : event.id \in CallIds /\ event.kind \in {"accepted", "completion"}
    BY DEF DispatchEvent
  <1>. QED  BY <1>1, <1>2, <1>3, <1>4, <1>5, <1>6, <1>7, <1>8, <1>9, <1>10, <1>11 DEF Carry

LEMMA Fields ==
    ASSUME TypeOK
    PROVE  /\ ingress.pc \in {"recv", "flush", "done"} /\ ingress.inbox \in Seq(Frame)
           /\ ingress.plan \in Seq(Frame) /\ ingress.open \in BOOLEAN
           /\ lm.pc \in {"recv", "generate", "stream", "final", "finished"} /\ lm.inbox \in Seq(Frame)
           /\ lm.convo \in Seq(Message) /\ lm.calls \in Seq(CallIds) /\ lm.next \in 1..MaxCalls + 1
           /\ egress.pc \in {"recv", "publish", "claim", "command"} /\ egress.inbox \in Seq(Frame)
           /\ egress.call \in 0..MaxCalls /\ egress.out \in Seq(Frame)
           /\ transport.tasks \in [CallIds -> SUBSET {"delivered", "accepted", "completion"}]
           /\ transport.events \in Seq(DispatchEvent) /\ trace.taken \in Seq(DispatchEvent)
           /\ trace.uncommitted \subseteq CallIds /\ trace.lost \subseteq CallIds
           /\ trace.refused \subseteq CallIds /\ trace.cuts \in Nat
  BY DEF TypeOK, IngressRecord, LmRecord, EgressRecord, TransportRecord, TraceRecord,
         IngressStates, LmStates, EgressStates

LEMMA SetIngressPc ==
    \A r \in IngressRecord, x \in IngressStates :
        LET n == [r EXCEPT !.pc = x]
        IN  n \in IngressRecord /\ n.pc = x /\ n.inbox = r.inbox /\ n.plan = r.plan /\ n.open = r.open
  BY DEF IngressRecord

LEMMA SetIngressInbox ==
    \A r \in IngressRecord, x \in Seq(Frame) :
        LET n == [r EXCEPT !.inbox = x]
        IN  n \in IngressRecord /\ n.inbox = x /\ n.pc = r.pc /\ n.plan = r.plan /\ n.open = r.open
  BY DEF IngressRecord

LEMMA SetIngressPlan ==
    \A r \in IngressRecord, x \in Seq(Frame) :
        LET n == [r EXCEPT !.plan = x]
        IN  n \in IngressRecord /\ n.plan = x /\ n.pc = r.pc /\ n.inbox = r.inbox /\ n.open = r.open
  BY DEF IngressRecord

LEMMA SetIngressOpen ==
    \A r \in IngressRecord, x \in BOOLEAN :
        LET n == [r EXCEPT !.open = x]
        IN  n \in IngressRecord /\ n.open = x /\ n.pc = r.pc /\ n.inbox = r.inbox /\ n.plan = r.plan
  BY DEF IngressRecord

LEMMA SetLmPc ==
    \A r \in LmRecord, x \in LmStates :
        LET n == [r EXCEPT !.pc = x]
        IN  n \in LmRecord /\ n.pc = x /\ n.inbox = r.inbox /\ n.convo = r.convo /\ n.reply = r.reply /\ n.calls = r.calls /\ n.next = r.next
  BY DEF LmRecord

LEMMA SetLmInbox ==
    \A r \in LmRecord, x \in Seq(Frame) :
        LET n == [r EXCEPT !.inbox = x]
        IN  n \in LmRecord /\ n.inbox = x /\ n.pc = r.pc /\ n.convo = r.convo /\ n.reply = r.reply /\ n.calls = r.calls /\ n.next = r.next
  BY DEF LmRecord

LEMMA SetLmConvo ==
    \A r \in LmRecord, x \in Seq(Message) :
        LET n == [r EXCEPT !.convo = x]
        IN  n \in LmRecord /\ n.convo = x /\ n.pc = r.pc /\ n.inbox = r.inbox /\ n.reply = r.reply /\ n.calls = r.calls /\ n.next = r.next
  BY DEF LmRecord

LEMMA SetLmReply ==
    \A r \in LmRecord, x \in BOOLEAN :
        LET n == [r EXCEPT !.reply = x]
        IN  n \in LmRecord /\ n.reply = x /\ n.pc = r.pc /\ n.inbox = r.inbox /\ n.convo = r.convo /\ n.calls = r.calls /\ n.next = r.next
  BY DEF LmRecord

LEMMA SetLmCalls ==
    \A r \in LmRecord, x \in Seq(CallIds) :
        LET n == [r EXCEPT !.calls = x]
        IN  n \in LmRecord /\ n.calls = x /\ n.pc = r.pc /\ n.inbox = r.inbox /\ n.convo = r.convo /\ n.reply = r.reply /\ n.next = r.next
  BY DEF LmRecord

LEMMA SetLmNext ==
    \A r \in LmRecord, x \in 1..MaxCalls + 1 :
        LET n == [r EXCEPT !.next = x]
        IN  n \in LmRecord /\ n.next = x /\ n.pc = r.pc /\ n.inbox = r.inbox /\ n.convo = r.convo /\ n.reply = r.reply /\ n.calls = r.calls
  BY DEF LmRecord

LEMMA SetEgressPc ==
    \A r \in EgressRecord, x \in EgressStates :
        LET n == [r EXCEPT !.pc = x]
        IN  n \in EgressRecord /\ n.pc = x /\ n.inbox = r.inbox /\ n.call = r.call /\ n.out = r.out
  BY DEF EgressRecord

LEMMA SetEgressInbox ==
    \A r \in EgressRecord, x \in Seq(Frame) :
        LET n == [r EXCEPT !.inbox = x]
        IN  n \in EgressRecord /\ n.inbox = x /\ n.pc = r.pc /\ n.call = r.call /\ n.out = r.out
  BY DEF EgressRecord

LEMMA SetEgressCall ==
    \A r \in EgressRecord, x \in 0..MaxCalls :
        LET n == [r EXCEPT !.call = x]
        IN  n \in EgressRecord /\ n.call = x /\ n.pc = r.pc /\ n.inbox = r.inbox /\ n.out = r.out
  BY DEF EgressRecord

LEMMA SetEgressOut ==
    \A r \in EgressRecord, x \in Seq(Frame) :
        LET n == [r EXCEPT !.out = x]
        IN  n \in EgressRecord /\ n.out = x /\ n.pc = r.pc /\ n.inbox = r.inbox /\ n.call = r.call
  BY DEF EgressRecord

LEMMA SetTransportTasks ==
    \A r \in TransportRecord, x \in [CallIds -> SUBSET {"delivered", "accepted", "completion"}] :
        LET n == [r EXCEPT !.tasks = x]
        IN  n \in TransportRecord /\ n.tasks = x /\ n.events = r.events
  BY DEF TransportRecord

LEMMA SetTransportEvents ==
    \A r \in TransportRecord, x \in Seq(DispatchEvent) :
        LET n == [r EXCEPT !.events = x]
        IN  n \in TransportRecord /\ n.events = x /\ n.tasks = r.tasks
  BY DEF TransportRecord

LEMMA SetHistoryTaken ==
    \A r \in TraceRecord, x \in Seq(DispatchEvent) :
        LET n == [r EXCEPT !.taken = x]
        IN  n \in TraceRecord /\ n.taken = x /\ n.uncommitted = r.uncommitted /\ n.lost = r.lost /\ n.refused = r.refused /\ n.cuts = r.cuts
  BY DEF TraceRecord

LEMMA SetHistoryUncommitted ==
    \A r \in TraceRecord, x \in SUBSET CallIds :
        LET n == [r EXCEPT !.uncommitted = x]
        IN  n \in TraceRecord /\ n.uncommitted = x /\ n.taken = r.taken /\ n.lost = r.lost /\ n.refused = r.refused /\ n.cuts = r.cuts
  BY DEF TraceRecord

LEMMA SetHistoryLost ==
    \A r \in TraceRecord, x \in SUBSET CallIds :
        LET n == [r EXCEPT !.lost = x]
        IN  n \in TraceRecord /\ n.lost = x /\ n.taken = r.taken /\ n.uncommitted = r.uncommitted /\ n.refused = r.refused /\ n.cuts = r.cuts
  BY DEF TraceRecord

LEMMA SetHistoryRefused ==
    \A r \in TraceRecord, x \in SUBSET CallIds :
        LET n == [r EXCEPT !.refused = x]
        IN  n \in TraceRecord /\ n.refused = x /\ n.taken = r.taken /\ n.uncommitted = r.uncommitted /\ n.lost = r.lost /\ n.cuts = r.cuts
  BY DEF TraceRecord

LEMMA SetHistoryCuts ==
    \A r \in TraceRecord, x \in Nat :
        LET n == [r EXCEPT !.cuts = x]
        IN  n \in TraceRecord /\ n.cuts = x /\ n.taken = r.taken /\ n.uncommitted = r.uncommitted /\ n.lost = r.lost /\ n.refused = r.refused
  BY DEF TraceRecord

LEMMA LmHears ==
    ASSUME TypeOK, NEW frame \in Frame, ToLm(frame)
    PROVE  /\ lm' \in LmRecord /\ lm'.inbox = Append(lm.inbox, frame)
           /\ lm'.pc = lm.pc /\ lm'.convo = lm.convo /\ lm'.calls = lm.calls /\ lm'.next = lm.next
  <1>1. Append(lm.inbox, frame) \in Seq(Frame)
    BY Fields, AppendProperties
  <1>. QED  BY <1>1 DEF ToLm, TypeOK, LmRecord

LEMMA EgressHears ==
    ASSUME TypeOK, NEW frame \in Frame, ToEgress(frame)
    PROVE  /\ egress' \in EgressRecord /\ egress'.inbox = Append(egress.inbox, frame)
           /\ egress'.pc = egress.pc /\ egress'.call = egress.call /\ egress'.out = egress.out
  <1>1. Append(egress.inbox, frame) \in Seq(Frame)
    BY Fields, AppendProperties
  <1>. QED  BY <1>1 DEF ToEgress, TypeOK, EgressRecord

LEMMA UpstreamSends ==
    ASSUME TypeOK, UserSpeaks \/ BargeIn
    PROVE  /\ TypeOK' /\ UNCHANGED <<lm, egress, transport, trace>>
           /\ ingress'.pc = ingress.pc /\ ingress'.plan = ingress.plan
           /\ \E frame \in Frame : frame.kind \in {"interrupt", "user"} /\ ingress'.inbox = Append(ingress.inbox, frame)
  <1>1. PICK frame \in Frame : /\ frame.kind \in {"interrupt", "user"}
                               /\ ingress' = [ingress EXCEPT !.inbox = Append(@, frame)]
                               /\ UNCHANGED <<lm, egress, transport, trace>>
    BY FrameFacts DEF UserSpeaks, BargeIn
  <1>. DEFINE box == Append(ingress.inbox, frame)
  <1>2. box \in Seq(Frame)
    BY Fields, AppendProperties
  <1>3. ingress' = [ingress EXCEPT !.inbox = box]
    BY <1>1
  <1>4. box = Append(ingress.inbox, frame)
    OBVIOUS
  <1>. HIDE DEF box
  <1>5. ingress' \in IngressRecord /\ ingress'.pc = ingress.pc /\ ingress'.plan = ingress.plan /\ ingress'.inbox = box
    BY <1>2, <1>3 DEF TypeOK, IngressRecord
  <1>. QED  BY <1>1, <1>4, <1>5 DEF TypeOK

LEMMA LmTakesStep ==
    ASSUME TypeOK, LmTakes
    PROVE  /\ TypeOK' /\ UNCHANGED <<ingress, transport, trace>>
           /\ lm.pc = "recv" /\ lm.inbox # <<>> /\ lm'.inbox = Tail(lm.inbox)
           /\ lm'.calls = lm.calls /\ lm'.next = lm.next /\ lm'.pc \in {"recv", "generate"}
           /\ \/ /\ Head(lm.inbox).kind = "user" /\ lm'.convo = Append(lm.convo, Plain("user")) /\ UNCHANGED egress
              \/ /\ Head(lm.inbox).kind = "input" /\ lm'.convo = Append(lm.convo, Noted(Head(lm.inbox).event))
                 /\ UNCHANGED egress
              \/ /\ Head(lm.inbox).kind = "event" /\ lm'.convo = lm.convo
                 /\ egress'.inbox = Append(egress.inbox, Head(lm.inbox))
                 /\ egress'.pc = egress.pc /\ egress'.call = egress.call /\ egress'.out = egress.out
  <1>. DEFINE frame == Head(lm.inbox)
              rest == Tail(lm.inbox)
  <1>1. lm.pc = "recv" /\ lm.inbox # <<>> /\ UNCHANGED <<ingress, transport, trace>>
    BY DEF LmTakes, HasData
  <1>2. frame \in Frame /\ rest \in Seq(Frame)
    BY <1>1, Fields, HeadTailProperties
  <1>3. \/ frame.kind = "user" /\ lm' = Recorded(lm, Plain("user"), "generate") /\ UNCHANGED egress
        \/ /\ frame.kind = "input" /\ UNCHANGED egress
           /\ \E pc \in {"recv", "generate"} : lm' = Recorded(lm, Noted(frame.event), pc)
        \/ frame.kind = "event" /\ lm' = [lm EXCEPT !.inbox = rest] /\ ToEgress(frame)
    BY DEF LmTakes
  <1>4. \A m \in Message, p \in {"recv", "generate"} :
          LET l == Recorded(lm, m, p)
          IN  /\ l \in LmRecord /\ l.inbox = rest /\ l.calls = lm.calls /\ l.next = lm.next
              /\ l.pc = p /\ l.convo = Append(lm.convo, m)
    <2>. TAKE m \in Message, p \in {"recv", "generate"}
    <2>. DEFINE c == Append(lm.convo, m)
                l1 == [lm EXCEPT !.inbox = rest]
                l2 == [l1 EXCEPT !.convo = c]
                l3 == [l2 EXCEPT !.pc = p]
    <2>1. c \in Seq(Message) /\ lm \in LmRecord
      BY Fields, AppendProperties DEF TypeOK
    <2>2. Recorded(lm, m, p) = l3
      BY DEF Recorded
    <2>0. p \in LmStates
      BY DEF LmStates
    <2>. HIDE DEF c, rest
    <2>3. l1 \in LmRecord /\ l1.inbox = rest /\ l1.calls = lm.calls /\ l1.next = lm.next
      BY <1>2, <2>1, SetLmInbox DEF rest
    <2>. HIDE DEF l1
    <2>4. l2 \in LmRecord /\ l2.inbox = rest /\ l2.calls = lm.calls /\ l2.next = lm.next /\ l2.convo = c
      BY <2>1, <2>3, SetLmConvo
    <2>. HIDE DEF l2
    <2>5. l3 \in LmRecord /\ l3.inbox = rest /\ l3.calls = lm.calls /\ l3.next = lm.next /\ l3.convo = c /\ l3.pc = p
      BY ONLY <2>0, <2>4, SetLmPc
    <2>. QED  BY <2>2, <2>5 DEF c
  <1>. HIDE DEF rest
  <1>5. CASE frame.kind = "user" /\ lm' = Recorded(lm, Plain("user"), "generate") /\ UNCHANGED egress
    BY <1>1, <1>4, <1>5, FrameFacts DEF TypeOK, rest
  <1>6. CASE /\ frame.kind = "input" /\ UNCHANGED egress
             /\ \E pc \in {"recv", "generate"} : lm' = Recorded(lm, Noted(frame.event), pc)
    <2>1. Noted(frame.event) \in Message
      BY <1>2, <1>6, FrameFacts
    <2>. QED  BY <1>1, <1>4, <1>6, <2>1 DEF TypeOK, rest
  <1>7. CASE frame.kind = "event" /\ lm' = [lm EXCEPT !.inbox = rest] /\ ToEgress(frame)
    <2>1. /\ lm' \in LmRecord /\ lm'.inbox = rest /\ lm'.pc = lm.pc /\ lm'.convo = lm.convo
          /\ lm'.calls = lm.calls /\ lm'.next = lm.next
      BY <1>2, <1>7 DEF TypeOK, LmRecord
    <2>. QED  BY <1>1, <1>2, <1>7, <2>1, EgressHears DEF TypeOK, rest
  <1>. QED  BY <1>3, <1>5, <1>6, <1>7

LEMMA IngressForwardsStep ==
    ASSUME TypeOK, IngressForwards
    PROVE  /\ TypeOK' /\ UNCHANGED <<egress, transport, trace>>
           /\ ingress.inbox # <<>> /\ ingress'.inbox = Tail(ingress.inbox)
           /\ ingress'.pc = ingress.pc /\ ingress'.plan = ingress.plan
           /\ Head(ingress.inbox) \in Frame /\ lm'.inbox = Append(lm.inbox, Head(ingress.inbox))
           /\ lm'.pc = lm.pc /\ lm'.convo = lm.convo /\ lm'.calls = lm.calls /\ lm'.next = lm.next
  <1>. DEFINE rest == Tail(ingress.inbox)
              n == [ingress EXCEPT !.inbox = rest]
  <1>1. /\ ingress.inbox # <<>> /\ ingress' = n /\ ToLm(Head(ingress.inbox))
        /\ UNCHANGED <<egress, transport, trace>>
    BY DEF IngressForwards, HasData
  <1>2. Head(ingress.inbox) \in Frame /\ rest \in Seq(Frame) /\ ingress \in IngressRecord
    BY <1>1, Fields, HeadTailProperties DEF TypeOK
  <1>3. /\ lm' \in LmRecord /\ lm'.inbox = Append(lm.inbox, Head(ingress.inbox))
        /\ lm'.pc = lm.pc /\ lm'.convo = lm.convo /\ lm'.calls = lm.calls /\ lm'.next = lm.next
    BY <1>1, <1>2, LmHears
  <1>. HIDE DEF rest
  <1>4. n \in IngressRecord /\ n.inbox = rest /\ n.pc = ingress.pc /\ n.plan = ingress.plan
    BY <1>2, SetIngressInbox
  <1>. HIDE DEF n
  <1>. QED  BY <1>1, <1>2, <1>3, <1>4 DEF TypeOK, rest

LEMMA IngressInterruptStep ==
    ASSUME TypeOK, IngressInterrupt
    PROVE  /\ TypeOK' /\ UNCHANGED <<egress, transport, trace>>
           /\ Interrupted(ingress.inbox) /\ ingress'.inbox = AfterInterrupt(ingress.inbox)
           /\ ingress.plan = <<>> /\ ingress'.plan = ingress.plan
           /\ lm'.inbox = Append(lm.inbox, Interrupt)
           /\ lm'.pc = lm.pc /\ lm'.convo = lm.convo /\ lm'.calls = lm.calls /\ lm'.next = lm.next
  <1>. DEFINE rest == AfterInterrupt(ingress.inbox)
              m == [ingress EXCEPT !.pc = "flush"]
              n == [m EXCEPT !.inbox = rest]
  <1>1. /\ Interrupted(ingress.inbox) /\ ingress.plan = <<>> /\ ingress' = n /\ ToLm(Interrupt)
        /\ UNCHANGED <<egress, transport, trace>>
    BY DEF IngressInterrupt, IngressReady
  <1>2. rest \in Seq(Frame) /\ ingress \in IngressRecord /\ "flush" \in IngressStates
    BY <1>1, Fields, AfterFacts DEF TypeOK, IngressStates
  <1>3. /\ lm' \in LmRecord /\ lm'.inbox = Append(lm.inbox, Interrupt)
        /\ lm'.pc = lm.pc /\ lm'.convo = lm.convo /\ lm'.calls = lm.calls /\ lm'.next = lm.next
    BY <1>1, FrameFacts, LmHears
  <1>. HIDE DEF rest
  <1>4. m \in IngressRecord /\ m.plan = ingress.plan
    BY <1>2, SetIngressPc
  <1>. HIDE DEF m
  <1>5. n \in IngressRecord /\ n.inbox = rest /\ n.plan = ingress.plan
    BY <1>2, <1>4, SetIngressInbox
  <1>. HIDE DEF n
  <1>. QED  BY <1>1, <1>2, <1>3, <1>5 DEF TypeOK, rest

LEMMA IngressFlushStep ==
    ASSUME TypeOK, IngressFlush
    PROVE  /\ TypeOK' /\ UNCHANGED <<lm, egress, transport, trace>>
           /\ ingress.pc = "flush" /\ ingress'.pc = "recv"
           /\ Lanes!Frames(ingress'.plan) \subseteq Lanes!Frames(ingress.inbox)
           /\ Lanes!Frames(ingress'.inbox) \subseteq Lanes!Frames(ingress.inbox)
  <1>. DEFINE data == Only(ingress.inbox, IsData)
              rest == Only(ingress.inbox, IsInterrupt)
              l == [ingress EXCEPT !.pc = "recv"]
              m == [l EXCEPT !.plan = data]
              n == [m EXCEPT !.inbox = rest]
  <1>1. ingress.pc = "flush" /\ ingress' = n /\ UNCHANGED <<lm, egress, transport, trace>>
    <2>1. m.inbox = ingress.inbox
      BY DEF TypeOK, IngressRecord
    <2>. QED  BY <2>1 DEF IngressFlush
  <1>2. ingress \in IngressRecord /\ "recv" \in IngressStates /\ ingress.inbox \in Seq(Frame)
    BY Fields DEF TypeOK, IngressStates
  <1>3. data \in Seq(Frame) /\ Lanes!Frames(data) \subseteq Lanes!Frames(ingress.inbox)
    BY <1>2, Retained DEF Only
  <1>4. rest \in Seq(Frame) /\ Lanes!Frames(rest) \subseteq Lanes!Frames(ingress.inbox)
    BY <1>2, Retained DEF Only
  <1>. HIDE DEF data, rest
  <1>5. l \in IngressRecord /\ l.pc = "recv"
    BY <1>2, SetIngressPc
  <1>. HIDE DEF l
  <1>6. m \in IngressRecord /\ m.pc = "recv" /\ m.plan = data
    BY <1>3, <1>5, SetIngressPlan
  <1>. HIDE DEF m
  <1>7. n \in IngressRecord /\ n.pc = "recv" /\ n.plan = data /\ n.inbox = rest
    BY <1>4, <1>6, SetIngressInbox
  <1>. HIDE DEF n
  <1>. QED  BY <1>1, <1>3, <1>4, <1>7 DEF TypeOK

LEMMA IngressSendsStep ==
    ASSUME TypeOK, IngressSends
    PROVE  /\ TypeOK' /\ UNCHANGED <<egress, transport, trace>>
           /\ ingress.plan # <<>> /\ ingress'.plan = Tail(ingress.plan)
           /\ ingress'.pc = "recv" /\ ingress'.inbox = ingress.inbox
           /\ Head(ingress.plan) \in Frame /\ lm'.inbox = Append(lm.inbox, Head(ingress.plan))
           /\ lm'.pc = lm.pc /\ lm'.convo = lm.convo /\ lm'.calls = lm.calls /\ lm'.next = lm.next
  <1>. DEFINE rest == Tail(ingress.plan)
              n == [ingress EXCEPT !.plan = rest]
  <1>1. /\ ingress.plan # <<>> /\ ingress.pc = "recv" /\ ingress' = n /\ ToLm(Head(ingress.plan))
        /\ UNCHANGED <<egress, transport, trace>>
    BY DEF IngressSends
  <1>2. Head(ingress.plan) \in Frame /\ rest \in Seq(Frame) /\ ingress \in IngressRecord
    BY <1>1, Fields, HeadTailProperties DEF TypeOK
  <1>3. /\ lm' \in LmRecord /\ lm'.inbox = Append(lm.inbox, Head(ingress.plan))
        /\ lm'.pc = lm.pc /\ lm'.convo = lm.convo /\ lm'.calls = lm.calls /\ lm'.next = lm.next
    BY <1>1, <1>2, LmHears
  <1>. HIDE DEF rest
  <1>4. n \in IngressRecord /\ n.plan = rest /\ n.pc = ingress.pc /\ n.inbox = ingress.inbox
    BY <1>2, SetIngressPlan
  <1>. HIDE DEF n
  <1>. QED  BY <1>1, <1>2, <1>3, <1>4 DEF TypeOK, rest

LEMMA IngressInjectsStep ==
    ASSUME TypeOK, IngressInjects
    PROVE  LET event == Head(transport.events)
           IN  /\ TypeOK' /\ UNCHANGED egress /\ event \in DispatchEvent
               /\ transport.events # <<>> /\ transport'.events = Tail(transport.events)
               /\ transport'.tasks = transport.tasks
               /\ ingress.plan = <<>> /\ ingress'.plan = <<Input(event)>>
               /\ ingress'.pc = "recv" /\ ingress'.inbox = ingress.inbox
               /\ lm'.inbox = Append(lm.inbox, Raw(event))
               /\ lm'.pc = lm.pc /\ lm'.convo = lm.convo /\ lm'.calls = lm.calls /\ lm'.next = lm.next
               /\ trace'.taken = Append(trace.taken, event) /\ trace'.uncommitted = trace.uncommitted
               /\ trace'.lost = trace.lost /\ trace'.refused = trace.refused /\ trace'.cuts = trace.cuts
  <1>. DEFINE event == Head(transport.events)
              rest == Tail(transport.events)
              plan == <<Input(event)>>
              more == Append(trace.taken, event)
              n == [ingress EXCEPT !.plan = plan]
              t == [transport EXCEPT !.events = rest]
              r == [trace EXCEPT !.taken = more]
  <1>1. /\ transport.events # <<>> /\ ingress.plan = <<>> /\ ingress.pc = "recv" /\ ingress' = n
        /\ ToLm(Raw(event)) /\ transport' = t /\ trace' = r /\ UNCHANGED egress
    BY DEF IngressInjects, IngressReady
  <1>2. /\ event \in DispatchEvent /\ rest \in Seq(DispatchEvent)
        /\ ingress \in IngressRecord /\ transport \in TransportRecord /\ trace \in TraceRecord
    BY <1>1, Fields, HeadTailProperties DEF TypeOK
  <1>. HIDE DEF event, rest
  <1>3. plan \in Seq(Frame) /\ more \in Seq(DispatchEvent) /\ Raw(event) \in Frame
    BY <1>2, FrameFacts, Fields, AppendProperties
  <1>4. /\ lm' \in LmRecord /\ lm'.inbox = Append(lm.inbox, Raw(event))
        /\ lm'.pc = lm.pc /\ lm'.convo = lm.convo /\ lm'.calls = lm.calls /\ lm'.next = lm.next
    BY <1>1, <1>3, LmHears
  <1>5. plan = <<Input(event)>> /\ more = Append(trace.taken, event)
    OBVIOUS
  <1>. HIDE DEF plan, more
  <1>6. n \in IngressRecord /\ n.plan = plan /\ n.pc = ingress.pc /\ n.inbox = ingress.inbox
    BY <1>2, <1>3, SetIngressPlan
  <1>7. t \in TransportRecord /\ t.events = rest /\ t.tasks = transport.tasks
    BY <1>2, SetTransportEvents
  <1>8. /\ r \in TraceRecord /\ r.taken = more /\ r.uncommitted = trace.uncommitted
        /\ r.lost = trace.lost /\ r.refused = trace.refused /\ r.cuts = trace.cuts
    BY <1>2, <1>3, SetHistoryTaken
  <1>. HIDE DEF n, t, r
  <1>9. TypeOK'
    BY <1>1, <1>4, <1>6, <1>7, <1>8 DEF TypeOK
  <1>. QED  BY <1>1, <1>2, <1>4, <1>5, <1>6, <1>7, <1>8, <1>9 DEF event, rest

LEMMA SourceEndsStep ==
    ASSUME TypeOK, SourceEnds
    PROVE  /\ TypeOK' /\ UNCHANGED <<lm, egress, transport, trace>>
           /\ ingress'.pc # "flush" /\ ingress'.inbox = ingress.inbox /\ ingress'.plan = ingress.plan
  <1>1. PICK fatal \in BOOLEAN :
          ingress' = [ingress EXCEPT !.open = FALSE, !.pc = IF fatal THEN "done" ELSE @]
    BY DEF SourceEnds
  <1>2. ingress.pc = "recv" /\ UNCHANGED <<lm, egress, transport, trace>>
    BY DEF SourceEnds, IngressReady
  <1>. DEFINE m == [ingress EXCEPT !.open = FALSE]
              pc == IF fatal THEN "done" ELSE ingress.pc
              n == [m EXCEPT !.pc = pc]
  <1>3. ingress \in IngressRecord /\ pc \in IngressStates /\ pc # "flush" /\ FALSE \in BOOLEAN
    BY <1>2 DEF TypeOK, IngressStates
  <1>4. /\ m \in IngressRecord /\ m.pc = ingress.pc /\ m.inbox = ingress.inbox /\ m.plan = ingress.plan
    BY <1>3, SetIngressOpen
  <1>5. ingress' = n
    BY <1>1, <1>4
  <1>. HIDE DEF m, pc
  <1>6. n \in IngressRecord /\ n.pc = pc /\ n.inbox = m.inbox /\ n.plan = m.plan
    BY <1>3, <1>4, SetIngressPc
  <1>. HIDE DEF n
  <1>. QED  BY <1>2, <1>3, <1>4, <1>5, <1>6 DEF TypeOK

LEMMA AbandonStep ==
    ASSUME TypeOK, NEW l \in LmRecord, Abandon(l)
    PROVE  /\ lm' \in LmRecord /\ trace' \in TraceRecord
           /\ lm'.pc = "recv" /\ lm'.calls = <<>> /\ lm'.inbox = l.inbox /\ lm'.convo = l.convo
           /\ lm'.next = l.next
           /\ trace'.uncommitted = trace.uncommitted \cup Lanes!Frames(lm.calls)
           /\ trace'.taken = trace.taken /\ trace'.lost = trace.lost /\ trace'.refused = trace.refused
           /\ trace'.cuts = trace.cuts
  <1>. DEFINE none == <<>>
              a == [l EXCEPT !.pc = "recv"]
              b == [a EXCEPT !.reply = FALSE]
              c == [b EXCEPT !.calls = none]
              u == trace.uncommitted \cup Lanes!Frames(lm.calls)
              r == [trace EXCEPT !.uncommitted = u]
  <1>1. lm' = c /\ trace' = r
    BY DEF Abandon
  <1>2. none \in Seq(CallIds) /\ u \in SUBSET CallIds /\ trace \in TraceRecord
    BY Fields DEF Lanes!Frames, TypeOK
  <1>3. "recv" \in LmStates /\ FALSE \in BOOLEAN
    BY DEF LmStates
  <1>4. none = <<>> /\ u = trace.uncommitted \cup Lanes!Frames(lm.calls)
    OBVIOUS
  <1>. HIDE DEF none, u
  <1>5. a \in LmRecord /\ a.pc = "recv" /\ a.inbox = l.inbox /\ a.convo = l.convo /\ a.next = l.next
    BY <1>3, SetLmPc
  <1>. HIDE DEF a
  <1>6. b \in LmRecord /\ b.pc = "recv" /\ b.inbox = l.inbox /\ b.convo = l.convo /\ b.next = l.next
    BY <1>3, <1>5, SetLmReply
  <1>. HIDE DEF b
  <1>7. c \in LmRecord /\ c.pc = "recv" /\ c.inbox = l.inbox /\ c.convo = l.convo /\ c.next = l.next /\ c.calls = none
    BY <1>2, <1>6, SetLmCalls
  <1>8. /\ r \in TraceRecord /\ r.uncommitted = u /\ r.taken = trace.taken /\ r.lost = trace.lost
        /\ r.refused = trace.refused /\ r.cuts = trace.cuts
    BY <1>2, SetHistoryUncommitted
  <1>. HIDE DEF c, r
  <1>. QED  BY <1>1, <1>4, <1>7, <1>8

LEMMA LmInterruptStep ==
    ASSUME TypeOK, LmInterrupt
    PROVE  /\ TypeOK' /\ UNCHANGED <<ingress, transport>>
           /\ Interrupted(lm.inbox) /\ lm'.inbox = AfterInterrupt(lm.inbox)
           /\ lm'.pc = "recv" /\ lm'.calls = <<>> /\ lm'.convo = lm.convo /\ lm'.next = lm.next
           /\ trace'.uncommitted = trace.uncommitted \cup Lanes!Frames(lm.calls)
           /\ trace'.taken = trace.taken /\ trace'.lost = trace.lost /\ trace'.refused = trace.refused
           /\ trace'.cuts = trace.cuts
           /\ egress'.inbox = Append(egress.inbox, Interrupt)
           /\ egress'.pc = egress.pc /\ egress'.call = egress.call /\ egress'.out = egress.out
  <1>. DEFINE rest == AfterInterrupt(lm.inbox)
              l == [lm EXCEPT !.inbox = rest]
  <1>1. /\ Interrupted(lm.inbox) /\ Abandon(l) /\ ToEgress(Interrupt) /\ UNCHANGED <<ingress, transport>>
    BY DEF LmInterrupt
  <1>2. rest \in Seq(Frame) /\ lm \in LmRecord
    BY <1>1, Fields, AfterFacts DEF TypeOK
  <1>3. rest = AfterInterrupt(lm.inbox)
    OBVIOUS
  <1>. HIDE DEF rest
  <1>4. l \in LmRecord /\ l.inbox = rest /\ l.convo = lm.convo /\ l.next = lm.next
    BY <1>2, SetLmInbox
  <1>. HIDE DEF l
  <1>5. /\ lm' \in LmRecord /\ trace' \in TraceRecord
        /\ lm'.pc = "recv" /\ lm'.calls = <<>> /\ lm'.inbox = l.inbox /\ lm'.convo = l.convo
        /\ lm'.next = l.next
        /\ trace'.uncommitted = trace.uncommitted \cup Lanes!Frames(lm.calls)
        /\ trace'.taken = trace.taken /\ trace'.lost = trace.lost /\ trace'.refused = trace.refused
        /\ trace'.cuts = trace.cuts
    BY <1>1, <1>4, AbandonStep
  <1>6. /\ egress' \in EgressRecord /\ egress'.inbox = Append(egress.inbox, Interrupt)
        /\ egress'.pc = egress.pc /\ egress'.call = egress.call /\ egress'.out = egress.out
    BY <1>1, FrameFacts, EgressHears
  <1>. QED  BY <1>1, <1>3, <1>4, <1>5, <1>6 DEF TypeOK

LEMMA LmFailsStep ==
    ASSUME TypeOK, LmFails
    PROVE  /\ TypeOK' /\ UNCHANGED <<ingress, egress, transport>>
           /\ lm'.inbox = lm.inbox
           /\ lm'.pc = "recv" /\ lm'.calls = <<>> /\ lm'.convo = lm.convo /\ lm'.next = lm.next
           /\ trace'.uncommitted = trace.uncommitted \cup Lanes!Frames(lm.calls)
           /\ trace'.taken = trace.taken /\ trace'.lost = trace.lost /\ trace'.refused = trace.refused
           /\ trace'.cuts = trace.cuts
  <1>1. lm \in LmRecord /\ Abandon(lm) /\ UNCHANGED <<ingress, egress, transport>>
    BY DEF LmFails, TypeOK
  <1>. QED  BY <1>1, AbandonStep DEF TypeOK

\* The frames of a turn that are not calls.
LEMMA LmEmitsStep ==
    ASSUME TypeOK, LmStarts \/ LmText \/ LmFinal \/ LmFinishes
    PROVE  /\ TypeOK' /\ UNCHANGED <<ingress, transport, trace>>
           /\ lm'.inbox = lm.inbox /\ lm'.convo = lm.convo /\ lm'.calls = lm.calls /\ lm'.next = lm.next
           /\ lm'.pc \notin {"recv", "generate"}
           /\ \E frame \in Frame : frame.kind # "call" /\ egress'.inbox = Append(egress.inbox, frame)
           /\ egress'.pc = egress.pc /\ egress'.call = egress.call /\ egress'.out = egress.out
  <1>1. /\ UNCHANGED <<ingress, transport, trace>>
        /\ \E kind \in {"started", "text", "final", "finished"} : ToEgress(Plain(kind))
        /\ \/ \E pc \in {"stream", "final", "finished"} : lm' = [lm EXCEPT !.pc = pc]
           \/ lm.pc = "stream" /\ lm' = [lm EXCEPT !.reply = TRUE]
    BY DEF LmStarts, LmText, LmFinal, LmFinishes, Performing
  <1>2. lm \in LmRecord /\ TRUE \in BOOLEAN
    BY DEF TypeOK
  <1>3. \A pc \in {"stream", "final", "finished"} : pc \in LmStates /\ pc \notin {"recv", "generate"}
    BY DEF LmStates
  <1>4. PICK kind \in {"started", "text", "final", "finished"} : ToEgress(Plain(kind))
    BY <1>1
  <1>5. Plain(kind) \in Frame /\ Plain(kind).kind # "call"
    BY FrameFacts
  <1>6. /\ egress' \in EgressRecord /\ egress'.inbox = Append(egress.inbox, Plain(kind))
        /\ egress'.pc = egress.pc /\ egress'.call = egress.call /\ egress'.out = egress.out
    BY <1>4, <1>5, EgressHears
  <1>7. /\ lm' \in LmRecord /\ lm'.inbox = lm.inbox /\ lm'.convo = lm.convo /\ lm'.calls = lm.calls
        /\ lm'.next = lm.next /\ lm'.pc \notin {"recv", "generate"}
    <2>1. CASE lm.pc = "stream" /\ lm' = [lm EXCEPT !.reply = TRUE]
      BY <1>2, <2>1, SetLmReply
    <2>2. ASSUME NEW pc \in {"stream", "final", "finished"}, lm' = [lm EXCEPT !.pc = pc]
          PROVE  /\ lm' \in LmRecord /\ lm'.inbox = lm.inbox /\ lm'.convo = lm.convo /\ lm'.calls = lm.calls
                 /\ lm'.next = lm.next /\ lm'.pc \notin {"recv", "generate"}
      <3>1. pc \in LmStates /\ pc \notin {"recv", "generate"}
        BY <1>3
      <3>. QED  BY <1>2, <2>2, <3>1, SetLmPc
    <2>. QED  BY <1>1, <2>1, <2>2
  <1>. QED  BY <1>1, <1>5, <1>6, <1>7 DEF TypeOK

LEMMA LmCallsStep ==
    ASSUME TypeOK, LmCalls
    PROVE  /\ TypeOK' /\ UNCHANGED <<ingress, transport, trace>>
           /\ lm.next \in CallIds /\ lm.pc = "stream" /\ lm'.pc = lm.pc
           /\ lm'.inbox = lm.inbox /\ lm'.convo = lm.convo /\ lm'.calls = Append(lm.calls, lm.next)
           /\ lm'.next = lm.next + 1
           /\ egress'.inbox = Append(egress.inbox, Call(lm.next))
           /\ egress'.pc = egress.pc /\ egress'.call = egress.call /\ egress'.out = egress.out
  <1>. DEFINE calls == Append(lm.calls, lm.next)
              next == lm.next + 1
              a == [lm EXCEPT !.calls = calls]
              b == [a EXCEPT !.next = next]
  <1>1. /\ UNCHANGED <<ingress, transport, trace>> /\ ToEgress(Call(lm.next)) /\ lm.pc = "stream"
        /\ lm.next <= MaxCalls
    BY DEF LmCalls, Performing
  <1>2. lm \in LmRecord /\ lm.next \in CallIds /\ next \in 1..MaxCalls + 1
    BY <1>1, Fields DEF TypeOK, CallIds
  <1>3. calls \in Seq(CallIds) /\ calls = Append(lm.calls, lm.next) /\ next = lm.next + 1
    BY <1>2, Fields, AppendProperties
  <1>4. a.next = lm.next
    BY <1>2, <1>3, SetLmCalls
  <1>5. lm' = b
    BY <1>4 DEF LmCalls
  <1>. HIDE DEF calls, next
  <1>6. /\ a \in LmRecord /\ a.calls = calls /\ a.pc = lm.pc /\ a.inbox = lm.inbox /\ a.convo = lm.convo
    BY <1>2, <1>3, SetLmCalls
  <1>. HIDE DEF a
  <1>7. /\ b \in LmRecord /\ b.calls = calls /\ b.pc = lm.pc /\ b.inbox = lm.inbox /\ b.convo = lm.convo
        /\ b.next = next
    BY <1>2, <1>6, SetLmNext
  <1>. HIDE DEF b
  <1>8. /\ egress' \in EgressRecord /\ egress'.inbox = Append(egress.inbox, Call(lm.next))
        /\ egress'.pc = egress.pc /\ egress'.call = egress.call /\ egress'.out = egress.out
    BY <1>1, <1>2, FrameFacts, EgressHears
  <1>. QED  BY <1>1, <1>2, <1>3, <1>5, <1>7, <1>8 DEF TypeOK

LEMMA LmCommitsStep ==
    ASSUME TypeOK, LmCommits
    PROVE  LET turn == [kind |-> "assistant", calls |-> lm.calls]
           IN  /\ TypeOK' /\ UNCHANGED <<ingress, egress, transport, trace>>
               /\ turn \in Message /\ lm'.convo = Append(lm.convo, turn)
               /\ lm'.pc = "recv" /\ lm'.calls = <<>> /\ lm'.inbox = lm.inbox /\ lm'.next = lm.next
  <1>. DEFINE turn == [kind |-> "assistant", calls |-> lm.calls]
              none == <<>>
              more == Append(lm.convo, turn)
              a == [lm EXCEPT !.pc = "recv"]
              b == [a EXCEPT !.reply = FALSE]
              c == [b EXCEPT !.calls = none]
              d == [c EXCEPT !.convo = more]
  <1>1. turn \in Message
    BY Fields DEF Message
  <1>2. none \in Seq(CallIds) /\ more \in Seq(Message) /\ lm \in LmRecord
    BY <1>1, Fields, AppendProperties DEF TypeOK
  <1>3. "recv" \in LmStates /\ FALSE \in BOOLEAN
    BY DEF LmStates
  <1>4. none = <<>> /\ more = Append(lm.convo, turn)
    OBVIOUS
  <1>5. lm' = [lm EXCEPT !.pc = "recv", !.reply = FALSE, !.calls = none, !.convo = Append(@, turn)]
        /\ UNCHANGED <<ingress, egress, transport, trace>>
    BY DEF LmCommits
  <1>. HIDE DEF none, turn
  <1>6. a \in LmRecord /\ a.pc = "recv" /\ a.inbox = lm.inbox /\ a.convo = lm.convo /\ a.next = lm.next
    BY <1>2, <1>3, SetLmPc
  <1>7. b \in LmRecord /\ b.pc = "recv" /\ b.inbox = lm.inbox /\ b.convo = lm.convo /\ b.next = lm.next
    <2>. HIDE DEF a
    <2>. QED  BY <1>3, <1>6, SetLmReply
  <1>8. c \in LmRecord /\ c.pc = "recv" /\ c.inbox = lm.inbox /\ c.convo = lm.convo /\ c.next = lm.next /\ c.calls = none
    <2>. HIDE DEF b
    <2>. QED  BY <1>2, <1>7, SetLmCalls
  <1>9. lm' = d
    BY <1>5, <1>8
  <1>. HIDE DEF more, c
  <1>10. d \in LmRecord /\ d.pc = "recv" /\ d.inbox = lm.inbox /\ d.convo = more /\ d.next = lm.next /\ d.calls = none
    BY <1>2, <1>8, SetLmConvo
  <1>. HIDE DEF d
  <1>. QED  BY <1>1, <1>4, <1>5, <1>9, <1>10 DEF TypeOK, turn

LEMMA EgressTakesStep ==
    ASSUME TypeOK, EgressTakes
    PROVE  LET frame == Head(egress.inbox)
           IN  /\ TypeOK' /\ UNCHANGED <<ingress, lm, transport, trace>>
               /\ egress.pc = "recv" /\ egress.inbox # <<>> /\ frame \in Frame
               /\ egress'.inbox = Tail(egress.inbox)
               /\ \/ /\ frame.kind = "call" /\ frame.id \in WellFormed
                     /\ egress'.pc = "publish" /\ egress'.call = frame.id /\ egress'.out = egress.out
                  \/ /\ frame.kind = "call" /\ frame.id \notin WellFormed
                     /\ egress'.pc = egress.pc /\ egress'.call = egress.call
                     /\ egress'.out = Append(egress.out, frame)
                  \/ /\ frame.kind # "call"
                     /\ egress'.pc = egress.pc /\ egress'.call = egress.call /\ egress'.out = egress.out
  <1>. DEFINE frame == Head(egress.inbox)
              rest == Tail(egress.inbox)
              took == [egress EXCEPT !.inbox = rest]
  <1>1. /\ egress.pc = "recv" /\ egress.inbox # <<>> /\ UNCHANGED <<ingress, lm, transport, trace>>
        /\ \/ /\ frame.kind = "call" /\ frame.id \in WellFormed
              /\ egress' = [took EXCEPT !.pc = "publish", !.call = frame.id]
           \/ /\ frame.kind = "call" /\ frame.id \notin WellFormed
              /\ egress' = [took EXCEPT !.out = Append(@, frame)]
           \/ frame.kind # "call" /\ egress' = took
    BY DEF EgressTakes, HasData
  <1>2. /\ frame \in Frame /\ rest \in Seq(Frame) /\ egress \in EgressRecord
        /\ "publish" \in EgressStates /\ Append(egress.out, frame) \in Seq(Frame)
    BY <1>1, Fields, HeadTailProperties, AppendProperties DEF TypeOK, EgressStates
  <1>3. \A id \in WellFormed : id \in 0..MaxCalls
    BY DEF CallIds
  <1>4. rest = Tail(egress.inbox)
    OBVIOUS
  <1>. HIDE DEF rest, frame
  <1>5. /\ took \in EgressRecord /\ took.inbox = rest /\ took.pc = egress.pc /\ took.call = egress.call
        /\ took.out = egress.out
    BY <1>2, SetEgressInbox
  <1>. HIDE DEF took
  <1>6. CASE frame.kind = "call" /\ frame.id \in WellFormed
    <2>. DEFINE id == frame.id
                a == [took EXCEPT !.pc = "publish"]
                b == [a EXCEPT !.call = id]
    <2>1. egress' = b
      BY <1>1, <1>6
    <2>2. id \in 0..MaxCalls /\ id \in WellFormed
      BY <1>3, <1>6
    <2>. HIDE DEF id
    <2>3. a \in EgressRecord /\ a.inbox = rest /\ a.pc = "publish" /\ a.out = egress.out
      BY <1>2, <1>5, SetEgressPc
    <2>. HIDE DEF a
    <2>4. b \in EgressRecord /\ b.inbox = rest /\ b.pc = "publish" /\ b.out = egress.out /\ b.call = id
      BY <2>2, <2>3, SetEgressCall
    <2>. HIDE DEF b
    <2>. QED  BY <1>1, <1>2, <1>4, <1>6, <2>1, <2>4 DEF TypeOK, frame, id
  <1>7. CASE frame.kind = "call" /\ frame.id \notin WellFormed
    <2>. DEFINE more == Append(egress.out, frame)
                a == [took EXCEPT !.out = more]
    <2>1. egress' = a
      BY <1>1, <1>5, <1>7
    <2>2. more \in Seq(Frame) /\ more = Append(egress.out, frame)
      BY <1>2
    <2>. HIDE DEF more
    <2>3. a \in EgressRecord /\ a.inbox = rest /\ a.pc = egress.pc /\ a.call = egress.call /\ a.out = more
      BY <1>5, <2>2, SetEgressOut
    <2>. HIDE DEF a
    <2>. QED  BY <1>1, <1>2, <1>4, <1>7, <2>1, <2>2, <2>3 DEF TypeOK, frame
  <1>8. CASE frame.kind # "call"
    BY <1>1, <1>2, <1>4, <1>5, <1>8 DEF TypeOK, frame
  <1>. QED  BY <1>6, <1>7, <1>8

LEMMA EgressInterruptStep ==
    ASSUME TypeOK, EgressInterrupt, egress.pc # "recv" => egress.call \in CallIds
    PROVE  /\ TypeOK' /\ UNCHANGED <<ingress, lm, transport>>
           /\ Interrupted(egress.inbox) /\ egress'.inbox = AfterInterrupt(egress.inbox)
           /\ egress'.pc = "recv" /\ egress'.call = 0 /\ egress'.out = egress.out
           /\ trace'.taken = trace.taken /\ trace'.uncommitted = trace.uncommitted
           /\ trace'.refused = trace.refused /\ trace'.cuts = trace.cuts + 1
           /\ trace'.lost = IF egress.pc = "publish" THEN trace.lost \cup {egress.call} ELSE trace.lost
           /\ trace'.lost \subseteq CallIds
  <1>. DEFINE rest == AfterInterrupt(egress.inbox)
              lost == IF egress.pc = "publish" THEN trace.lost \cup {egress.call} ELSE trace.lost
              cuts == trace.cuts + 1
              a == [egress EXCEPT !.pc = "recv"]
              b == [a EXCEPT !.call = 0]
              c == [b EXCEPT !.inbox = rest]
              q == [trace EXCEPT !.cuts = cuts]
              r == [q EXCEPT !.lost = lost]
  <1>1. /\ Interrupted(egress.inbox) /\ UNCHANGED <<ingress, lm, transport>>
        /\ egress' = [egress EXCEPT !.pc = "recv", !.call = 0, !.inbox = rest]
    BY DEF EgressInterrupt
  <1>2. /\ rest \in Seq(Frame) /\ egress \in EgressRecord /\ "recv" \in EgressStates /\ 0 \in 0..MaxCalls
        /\ trace \in TraceRecord /\ cuts \in Nat /\ lost \in SUBSET CallIds
    <2>1. /\ egress.inbox \in Seq(Frame) /\ trace.lost \subseteq CallIds /\ trace.cuts \in Nat
          /\ egress.pc \in EgressStates /\ egress \in EgressRecord /\ trace \in TraceRecord
      BY Fields DEF TypeOK, EgressStates
    <2>2. rest \in Seq(Frame)
      BY <1>1, <2>1, AfterFacts
    <2>3. "recv" \in EgressStates /\ 0 \in 0..MaxCalls /\ cuts \in Nat
      BY <2>1 DEF EgressStates
    <2>4. lost \in SUBSET CallIds
      BY <2>1
    <2>. QED  BY <2>1, <2>2, <2>3, <2>4
  <1>3. /\ q \in TraceRecord /\ q.cuts = cuts /\ q.lost = trace.lost /\ q.taken = trace.taken
        /\ q.uncommitted = trace.uncommitted /\ q.refused = trace.refused
    BY <1>2, SetHistoryCuts
  <1>4. trace' = r
    BY <1>3 DEF EgressInterrupt
  <1>5. /\ rest = AfterInterrupt(egress.inbox) /\ cuts = trace.cuts + 1
        /\ lost = IF egress.pc = "publish" THEN trace.lost \cup {egress.call} ELSE trace.lost
    OBVIOUS
  <1>. HIDE DEF rest, lost, cuts, q
  <1>6. /\ r \in TraceRecord /\ r.cuts = cuts /\ r.lost = lost /\ r.taken = trace.taken
        /\ r.uncommitted = trace.uncommitted /\ r.refused = trace.refused
    BY <1>2, <1>3, SetHistoryLost
  <1>7. egress' = c
    BY <1>1
  <1>. HIDE DEF r
  <1>8. a \in EgressRecord /\ a.pc = "recv" /\ a.inbox = egress.inbox /\ a.out = egress.out
    BY <1>2, SetEgressPc
  <1>. HIDE DEF a
  <1>9. b \in EgressRecord /\ b.pc = "recv" /\ b.call = 0 /\ b.out = egress.out
    BY <1>2, <1>8, SetEgressCall
  <1>. HIDE DEF b
  <1>10. c \in EgressRecord /\ c.pc = "recv" /\ c.call = 0 /\ c.out = egress.out /\ c.inbox = rest
    BY <1>2, <1>9, SetEgressInbox
  <1>. HIDE DEF c
  <1>. QED  BY <1>1, <1>2, <1>4, <1>5, <1>6, <1>7, <1>10 DEF TypeOK

LEMMA EgressClaimsStep ==
    ASSUME TypeOK, EgressClaims, egress.call \in CallIds
    PROVE  /\ TypeOK' /\ UNCHANGED <<ingress, lm, transport, trace>>
           /\ egress.pc = "publish" /\ egress'.pc = "claim" /\ egress'.call = egress.call
           /\ "delivered" \in transport.tasks[egress.call]
           /\ egress'.inbox = egress.inbox /\ egress'.out = Append(egress.out, Call(egress.call))
  <1>. DEFINE more == Append(egress.out, Call(egress.call))
              a == [egress EXCEPT !.pc = "claim"]
              b == [a EXCEPT !.out = more]
  <1>1. /\ egress.pc = "publish" /\ "delivered" \in transport.tasks[egress.call]
        /\ egress' = [egress EXCEPT !.pc = "claim", !.out = Append(@, Call(egress.call))]
        /\ UNCHANGED <<ingress, lm, transport, trace>>
    BY DEF EgressClaims, Publishing
  <1>2. more \in Seq(Frame) /\ egress \in EgressRecord /\ "claim" \in EgressStates
    BY FrameFacts, Fields, AppendProperties DEF TypeOK, EgressStates
  <1>3. /\ a \in EgressRecord /\ a.pc = "claim" /\ a.call = egress.call /\ a.inbox = egress.inbox
        /\ a.out = egress.out
    BY <1>2, SetEgressPc
  <1>4. egress' = b /\ more = Append(egress.out, Call(egress.call))
    BY <1>1, <1>3
  <1>. HIDE DEF a, more
  <1>5. b \in EgressRecord /\ b.pc = "claim" /\ b.call = egress.call /\ b.inbox = egress.inbox /\ b.out = more
    BY <1>2, <1>3, SetEgressOut
  <1>. HIDE DEF b
  <1>. QED  BY <1>1, <1>4, <1>5 DEF TypeOK

LEMMA EgressCommandsStep ==
    ASSUME TypeOK, EgressCommands, egress.call \in CallIds
    PROVE  /\ TypeOK' /\ UNCHANGED <<ingress, lm, transport, trace>>
           /\ egress.pc = "claim" /\ egress'.pc = "command" /\ egress'.call = egress.call
           /\ egress'.inbox = egress.inbox /\ egress'.out = Append(egress.out, Command(egress.call))
  <1>. DEFINE more == Append(egress.out, Command(egress.call))
              a == [egress EXCEPT !.pc = "command"]
              b == [a EXCEPT !.out = more]
  <1>1. /\ egress.pc = "claim"
        /\ egress' = [egress EXCEPT !.pc = "command", !.out = Append(@, Command(egress.call))]
        /\ UNCHANGED <<ingress, lm, transport, trace>>
    BY DEF EgressCommands, Publishing
  <1>2. more \in Seq(Frame) /\ egress \in EgressRecord /\ "command" \in EgressStates
    BY FrameFacts, Fields, AppendProperties DEF TypeOK, EgressStates
  <1>3. /\ a \in EgressRecord /\ a.pc = "command" /\ a.call = egress.call /\ a.inbox = egress.inbox
        /\ a.out = egress.out
    BY <1>2, SetEgressPc
  <1>4. egress' = b /\ more = Append(egress.out, Command(egress.call))
    BY <1>1, <1>3
  <1>. HIDE DEF a, more
  <1>5. b \in EgressRecord /\ b.pc = "command" /\ b.call = egress.call /\ b.inbox = egress.inbox /\ b.out = more
    BY <1>2, <1>3, SetEgressOut
  <1>. HIDE DEF b
  <1>. QED  BY <1>1, <1>4, <1>5 DEF TypeOK

\* perform returns, with the command out or refused.
LEMMA EgressReturnsStep ==
    ASSUME TypeOK, EgressDone \/ SinkFails, egress.pc # "recv" => egress.call \in CallIds
    PROVE  /\ TypeOK' /\ UNCHANGED <<ingress, lm, transport>>
           /\ egress'.pc = "recv" /\ egress'.call = 0
           /\ egress'.inbox = egress.inbox /\ egress'.out = egress.out
           /\ trace'.taken = trace.taken /\ trace'.uncommitted = trace.uncommitted
           /\ trace'.lost = trace.lost /\ trace'.cuts = trace.cuts
           /\ \/ egress.pc = "command" /\ trace'.refused = trace.refused
              \/ egress.pc = "publish" /\ trace'.refused = trace.refused \cup {egress.call}
  <1>. DEFINE a == [egress EXCEPT !.pc = "recv"]
              b == [a EXCEPT !.call = 0]
              more == trace.refused \cup {egress.call}
              r == [trace EXCEPT !.refused = more]
  <1>1. /\ UNCHANGED <<ingress, lm, transport>> /\ egress' = b
        /\ \/ egress.pc = "command" /\ UNCHANGED trace
           \/ egress.pc = "publish" /\ trace' = r
    BY DEF EgressDone, SinkFails, Publishing
  <1>2. /\ egress \in EgressRecord /\ "recv" \in EgressStates /\ 0 \in 0..MaxCalls
        /\ trace \in TraceRecord
    BY DEF TypeOK, EgressStates
  <1>3. /\ a \in EgressRecord /\ a.pc = "recv" /\ a.inbox = egress.inbox /\ a.out = egress.out
    BY <1>2, SetEgressPc
  <1>. HIDE DEF a
  <1>4. b \in EgressRecord /\ b.pc = "recv" /\ b.call = 0 /\ b.out = egress.out /\ b.inbox = egress.inbox
    BY <1>2, <1>3, SetEgressCall
  <1>. HIDE DEF b
  <1>5. CASE egress.pc = "command" /\ UNCHANGED trace
    BY <1>1, <1>2, <1>4, <1>5 DEF TypeOK
  <1>6. CASE egress.pc = "publish" /\ trace' = r
    <2>1. more \in SUBSET CallIds /\ more = trace.refused \cup {egress.call}
      BY <1>6, Fields
    <2>. HIDE DEF more
    <2>2. /\ r \in TraceRecord /\ r.refused = more /\ r.taken = trace.taken
          /\ r.uncommitted = trace.uncommitted /\ r.lost = trace.lost /\ r.cuts = trace.cuts
      BY <1>2, <2>1, SetHistoryRefused
    <2>. HIDE DEF r
    <2>. QED  BY <1>1, <1>4, <1>6, <2>1, <2>2 DEF TypeOK
  <1>. QED  BY <1>1, <1>5, <1>6

LEMMA SinkDeliversStep ==
    ASSUME TypeOK, SinkDelivers, egress.call \in CallIds
    PROVE  /\ TypeOK' /\ UNCHANGED <<ingress, lm, egress, trace>>
           /\ egress.pc = "publish"
           /\ transport'.events = transport.events
           /\ transport'.tasks[egress.call] = {"delivered"} /\ transport.tasks[egress.call] = {}
           /\ \A id \in CallIds : id # egress.call => transport'.tasks[id] = transport.tasks[id]
  <1>. DEFINE t == [transport.tasks EXCEPT ![egress.call] = {"delivered"}]
              n == [transport EXCEPT !.tasks = t]
  <1>1. /\ egress.pc = "publish" /\ transport.tasks[egress.call] = {} /\ UNCHANGED <<ingress, lm, egress, trace>>
        /\ transport' = n
    BY DEF SinkDelivers
  <1>2. transport.tasks \in [CallIds -> SUBSET {"delivered", "accepted", "completion"}] /\ transport \in TransportRecord
    BY Fields DEF TypeOK
  <1>3. /\ t \in [CallIds -> SUBSET {"delivered", "accepted", "completion"}]
        /\ t[egress.call] = {"delivered"}
        /\ \A id \in CallIds : id # egress.call => t[id] = transport.tasks[id]
    BY <1>2
  <1>. HIDE DEF t
  <1>4. n \in TransportRecord /\ n.tasks = t /\ n.events = transport.events
    BY <1>2, <1>3, SetTransportTasks
  <1>. HIDE DEF n
  <1>. QED  BY <1>1, <1>3, <1>4 DEF TypeOK

LEMMA BackendReportsStep ==
    ASSUME TypeOK, BackendReports
    PROVE  /\ TypeOK' /\ UNCHANGED <<ingress, lm, egress, trace>>
           /\ \E event \in DispatchEvent :
                /\ transport.tasks[event.id] # {} /\ transport'.events = Append(transport.events, event)
                /\ \A id \in CallIds :
                     /\ transport.tasks[id] \subseteq transport'.tasks[id]
                     /\ transport.tasks[id] = {} => transport'.tasks[id] = {}
  <1>1. PICK event \in DispatchEvent :
          /\ transport.tasks[event.id] # {}
          /\ transport' = [transport EXCEPT !.tasks[event.id] = @ \cup {event.kind},
                                            !.events = Append(@, event)]
    BY DEF BackendReports
  <1>. DEFINE more == Append(transport.events, event)
              known == transport.tasks[event.id] \cup {event.kind}
              t == [transport.tasks EXCEPT ![event.id] = known]
              m == [transport EXCEPT !.tasks = t]
              n == [m EXCEPT !.events = more]
  <1>2. /\ transport.tasks \in [CallIds -> SUBSET {"delivered", "accepted", "completion"}]
        /\ transport \in TransportRecord /\ more \in Seq(DispatchEvent)
        /\ event.id \in CallIds /\ event.kind \in {"delivered", "accepted", "completion"}
    BY Fields, FrameFacts, AppendProperties DEF TypeOK
  <1>3. /\ t \in [CallIds -> SUBSET {"delivered", "accepted", "completion"}]
        /\ \A id \in CallIds : t[id] = IF id = event.id THEN known ELSE transport.tasks[id]
    BY <1>2
  <1>4. \A id \in CallIds : transport.tasks[id] \subseteq t[id] /\ (transport.tasks[id] = {} => t[id] = {})
    BY <1>1, <1>3
  <1>5. UNCHANGED <<ingress, lm, egress, trace>>
    BY DEF BackendReports
  <1>6. transport' = [transport EXCEPT !.tasks = t, !.events = Append(@, event)]
    BY <1>1
  <1>. HIDE DEF t, known
  <1>7. m \in TransportRecord /\ m.tasks = t /\ m.events = transport.events
    BY <1>2, <1>3, SetTransportTasks
  <1>8. transport' = n /\ more = Append(transport.events, event)
    BY <1>6, <1>7
  <1>. HIDE DEF m, more
  <1>9. n \in TransportRecord /\ n.tasks = t /\ n.events = more
    BY <1>2, <1>7, SetTransportEvents
  <1>. HIDE DEF n
  <1>. QED  BY <1>1, <1>4, <1>5, <1>8, <1>9 DEF TypeOK

-----------------------------------------------------------------------------
(***************************************************************************)
(* The events: what takes one from a lane, and what adds one, as far as    *)
(* EventsReachModel is about.                                              *)
(***************************************************************************)
LEMMA InputLanes ==
    ASSUME TypeOK
    PROVE  /\ ToldModel \in Seq(DispatchEvent) /\ Inputs(lm.inbox) \in Seq(DispatchEvent)
           /\ Inputs(ingress.plan) \in Seq(DispatchEvent) /\ trace.taken \in Seq(DispatchEvent)
  BY Fields, FrameFacts, EventsType DEF ToldModel, Inputs

LEMMA EventsRest ==
    ASSUME EventsReachModel, lm'.convo = lm.convo, Inputs(lm'.inbox) = Inputs(lm.inbox),
           Inputs(ingress'.plan) = Inputs(ingress.plan), trace'.taken = trace.taken
    PROVE  EventsReachModel'
  BY DEF EventsReachModel, ToldModel

LEMMA InputsAppend ==
    ASSUME NEW s \in Seq(Frame), NEW frame \in Frame
    PROVE  Inputs(Append(s, frame))
             = IF frame.kind = "input" THEN Append(Inputs(s), frame.event) ELSE Inputs(s)
  <1>. DEFINE kinds == {"input"}
  <1>. HIDE DEF kinds
  <1>1. Carry(Frame, kinds)
    BY FrameFacts DEF kinds
  <1>2. EventsIn(Append(s, frame), kinds)
          = IF frame.kind \in kinds THEN Append(EventsIn(s, kinds), frame.event) ELSE EventsIn(s, kinds)
    BY <1>1, EventsAppend
  <1>. QED  BY <1>2 DEF kinds, Inputs

LEMMA InputsFirst ==
    ASSUME NEW s \in Seq(Frame), s # <<>>
    PROVE  Inputs(s) = IF Head(s).kind = "input" THEN <<Head(s).event>> \o Inputs(Tail(s)) ELSE Inputs(Tail(s))
  <1>. DEFINE kinds == {"input"}
  <1>. HIDE DEF kinds
  <1>1. Carry(Frame, kinds)
    BY FrameFacts DEF kinds
  <1>2. EventsIn(s, kinds)
          = IF Head(s).kind \in kinds THEN <<Head(s).event>> \o EventsIn(Tail(s), kinds) ELSE EventsIn(Tail(s), kinds)
    BY <1>1, EventsFirst
  <1>. QED  BY <1>2 DEF kinds, Inputs

LEMMA ToldAppend ==
    ASSUME TypeOK, NEW m \in Message, lm'.convo = Append(lm.convo, m)
    PROVE  ToldModel' = IF m.kind \in {"result", "event"} THEN Append(ToldModel, m.event) ELSE ToldModel
  <1>. DEFINE kinds == {"result", "event"}
              c == lm.convo
  <1>. HIDE DEF kinds, c
  <1>1. Carry(Message, kinds) /\ c \in Seq(Message)
    BY FrameFacts, Fields DEF kinds, c
  <1>2. EventsIn(Append(c, m), kinds)
          = IF m.kind \in kinds THEN Append(EventsIn(c, kinds), m.event) ELSE EventsIn(c, kinds)
    BY <1>1, EventsAppend
  <1>. QED  BY <1>2 DEF kinds, c, ToldModel

\* The next input moves from the plan to the lane.
LEMMA EventsSent ==
    ASSUME TypeOK, EventsReachModel, NEW frame \in Frame,
           lm'.convo = lm.convo, lm'.inbox = Append(lm.inbox, frame), trace'.taken = trace.taken,
           Inputs(ingress.plan)
             = IF frame.kind = "input" THEN <<frame.event>> \o Inputs(ingress'.plan) ELSE Inputs(ingress'.plan),
           Inputs(ingress'.plan) \in Seq(DispatchEvent)
    PROVE  EventsReachModel'
  <1>. DEFINE t == ToldModel
              b == Inputs(lm.inbox)
              p == Inputs(ingress'.plan)
              e == frame.event
  <1>1. t \in Seq(DispatchEvent) /\ b \in Seq(DispatchEvent) /\ p \in Seq(DispatchEvent)
    BY InputLanes
  <1>2. Inputs(lm'.inbox) = IF frame.kind = "input" THEN Append(b, e) ELSE b
    BY Fields, InputsAppend
  <1>3. ToldModel' = t
    BY DEF ToldModel
  <1>4. t \o b \o Inputs(ingress.plan) = trace.taken
    BY DEF EventsReachModel
  <1>5. CASE frame.kind # "input"
    BY <1>2, <1>3, <1>4, <1>5 DEF EventsReachModel
  <1>6. CASE frame.kind = "input"
    <2>1. e \in DispatchEvent
      BY <1>6, FrameFacts
    <2>2. Inputs(ingress.plan) = <<e>> \o p /\ Inputs(lm'.inbox) = Append(b, e)
      BY <1>2, <1>6
    <2>. HIDE DEF t, b, p, e
    <2>3. t \o Append(b, e) = Append(t \o b, e) /\ t \o b \in Seq(DispatchEvent)
      BY <1>1, <2>1, ConcatAppend, ConcatProperties
    <2>. DEFINE u == t \o b
    <2>. HIDE DEF u
    <2>4. Append(u, e) = u \o <<e>> /\ <<e>> \in Seq(DispatchEvent) /\ u \in Seq(DispatchEvent)
      BY <2>1, <2>3, AppendIsConcat DEF u
    <2>5. (u \o <<e>>) \o p = u \o (<<e>> \o p)
      BY <1>1, <2>4, ConcatAssociative
    <2>6. t \o Append(b, e) \o p = trace.taken
      BY <1>4, <2>2, <2>3, <2>4, <2>5, Zenon DEF u
    <2>7. ToldModel' \o Inputs(lm'.inbox) \o p = trace.taken
      BY <1>3, <2>2, <2>6, Zenon
    <2>. QED  BY <2>7 DEF EventsReachModel, p
  <1>. QED  BY <1>5, <1>6

\* The next input moves from the lane into the conversation.
LEMMA EventsNoted ==
    ASSUME TypeOK, EventsReachModel, NEW event \in DispatchEvent,
           ToldModel' = Append(ToldModel, event), Inputs(lm.inbox) = <<event>> \o Inputs(lm'.inbox),
           Inputs(lm'.inbox) \in Seq(DispatchEvent),
           ingress'.plan = ingress.plan, trace'.taken = trace.taken
    PROVE  EventsReachModel'
  <1>. DEFINE t == ToldModel
              b == Inputs(lm'.inbox)
              p == Inputs(ingress.plan)
  <1>1. t \in Seq(DispatchEvent) /\ b \in Seq(DispatchEvent) /\ p \in Seq(DispatchEvent)
    BY InputLanes
  <1>2. t \o (<<event>> \o b) \o p = trace.taken
    BY DEF EventsReachModel
  <1>. HIDE DEF t, b, p
  <1>3. Append(t, event) = t \o <<event>> /\ <<event>> \in Seq(DispatchEvent)
    BY <1>1, AppendIsConcat
  <1>4. (t \o <<event>>) \o b = t \o (<<event>> \o b)
    BY <1>1, <1>3, ConcatAssociative
  <1>5. Append(t, event) \o b \o p = trace.taken
    BY <1>2, <1>3, <1>4, Zenon
  <1>6. ToldModel' \o Inputs(lm'.inbox) \o Inputs(ingress'.plan) = trace'.taken
    BY <1>5 DEF t, b, p
  <1>. QED  BY <1>6 DEF EventsReachModel

\* An event is taken from the source, and its input is next to be sent.
LEMMA EventsInjected ==
    ASSUME TypeOK, EventsReachModel, NEW event \in DispatchEvent,
           lm'.convo = lm.convo, Inputs(lm'.inbox) = Inputs(lm.inbox),
           Inputs(ingress.plan) = <<>>, Inputs(ingress'.plan) = <<event>>,
           trace'.taken = Append(trace.taken, event)
    PROVE  EventsReachModel'
  <1>. DEFINE u == ToldModel \o Inputs(lm.inbox)
  <1>1. u \in Seq(DispatchEvent) /\ trace.taken \in Seq(DispatchEvent)
    BY InputLanes, ConcatProperties
  <1>2. u \o <<>> = trace.taken
    BY DEF EventsReachModel
  <1>3. ToldModel' \o Inputs(lm'.inbox) = u
    BY DEF ToldModel
  <1>. HIDE DEF u
  <1>4. u = trace.taken /\ Append(u, event) = u \o <<event>>
    BY <1>1, <1>2, ConcatEmptySeq, AppendIsConcat
  <1>5. u \o <<event>> = Append(trace.taken, event)
    BY <1>4, Zenon
  <1>6. ToldModel' \o Inputs(lm'.inbox) \o Inputs(ingress'.plan) = trace'.taken
    BY <1>3, <1>5, Zenon
  <1>. QED  BY <1>6 DEF EventsReachModel

-----------------------------------------------------------------------------
(***************************************************************************)
(* The model: of every report the call was made, and of every call the     *)
(* conversation tells or will tell.                                        *)
(***************************************************************************)
ModelInv == ReportsFollowCalls /\ ResultsFollowCalls

LEMMA ModelRest ==
    ASSUME TypeOK, TypeOK', ModelInv,
           lm'.convo = lm.convo, lm'.calls = lm.calls, lm'.next = lm.next,
           lm'.pc \in {"recv", "generate"} => lm'.calls = <<>>,
           trace'.uncommitted = trace.uncommitted, transport'.tasks = transport.tasks,
           Lanes!Frames(transport'.events) \subseteq Lanes!Frames(transport.events),
           \A frame \in Lanes!Frames(ingress'.plan) \cup Lanes!Frames(lm'.inbox) :
             frame.kind = "input" =>
               frame \in Lanes!Frames(ingress.plan) \cup Lanes!Frames(lm.inbox) \/ Reported(frame.event)
    PROVE  ModelInv'
  <1>1. \A event : Reported(event) => Reported(event)'
    BY DEF Reported
  <1>2. \A id, k : Answers(id, k)' <=> Answers(id, k)
    BY DEF Answers
  <1>3. ReportsFollowCalls'
    <2>1. (\A id \in CallIds : transport.tasks[id] # {} => id < lm.next)'
      BY DEF ModelInv, ReportsFollowCalls
    <2>2. (\A event \in Lanes!Frames(transport.events) : Reported(event))'
      BY <1>1 DEF ModelInv, ReportsFollowCalls
    <2>3. (\A frame \in Lanes!Frames(ingress.plan) \cup Lanes!Frames(lm.inbox) :
             frame.kind = "input" => Reported(frame.event))'
      BY <1>1 DEF ModelInv, ReportsFollowCalls
    <2>4. (\A id \in 1..lm.next - 1 : \/ id \in trace.uncommitted \cup Lanes!Frames(lm.calls)
                                      \/ Answers(id, Len(lm.convo) + 1))'
      BY <1>2 DEF ModelInv, ReportsFollowCalls
    <2>. QED  BY <2>1, <2>2, <2>3, <2>4 DEF ReportsFollowCalls
  <1>4. ResultsFollowCalls'
    BY <1>2 DEF ModelInv, ResultsFollowCalls
  <1>. QED  BY <1>3, <1>4 DEF ModelInv

LEMMA AnswersGrow ==
    ASSUME TypeOK, NEW m \in Message, lm'.convo = Append(lm.convo, m)
    PROVE  /\ Len(lm'.convo) = Len(lm.convo) + 1 /\ Len(lm.convo) \in Nat
           /\ lm'.convo[Len(lm.convo) + 1] = m
           /\ \A i \in 1..Len(lm.convo) : lm'.convo[i] = lm.convo[i]
           /\ \A id : \A i \in 1..Len(lm.convo) + 1 : Answers(id, i) => Answers(id, i)'
           /\ \A id : Answers(id, Len(lm.convo) + 1) => Answers(id, Len(lm.convo) + 1)'
  <1>1. /\ Len(lm'.convo) = Len(lm.convo) + 1 /\ Len(lm.convo) \in Nat
        /\ lm'.convo[Len(lm.convo) + 1] = m
        /\ \A i \in 1..Len(lm.convo) : lm'.convo[i] = lm.convo[i]
    <2>. DEFINE convo == lm.convo
    <2>1. convo \in Seq(Message) /\ lm'.convo = Append(convo, m)
      BY Fields
    <2>. HIDE DEF convo
    <2>2. /\ Len(Append(convo, m)) = Len(convo) + 1 /\ Len(convo) \in Nat
          /\ Append(convo, m)[Len(convo) + 1] = m
          /\ \A i \in 1..Len(convo) : Append(convo, m)[i] = convo[i]
      BY <2>1, AppendProperties
    <2>. QED  BY <2>1, <2>2 DEF convo
  <1>2. \A id : \A i \in 1..Len(lm.convo) + 1 : Answers(id, i) => Answers(id, i)'
    <2>. SUFFICES ASSUME NEW id, NEW i \in 1..Len(lm.convo) + 1, Answers(id, i)
                  PROVE  Answers(id, i)'
      OBVIOUS
    <2>1. PICK j \in 1..i - 1 : lm.convo[j].kind = "assistant" /\ id \in Lanes!Frames(lm.convo[j].calls)
      BY DEF Answers
    <2>2. lm'.convo[j] = lm.convo[j]
      BY <1>1, <2>1
    <2>. QED  BY <2>1, <2>2 DEF Answers
  <1>3. \A id : Answers(id, Len(lm.convo) + 1) => Answers(id, Len(lm.convo) + 1)'
    <2>. SUFFICES ASSUME NEW id, Answers(id, Len(lm.convo) + 1)
                  PROVE  Answers(id, Len(lm.convo) + 1)'
      OBVIOUS
    <2>1. PICK j \in 1..(Len(lm.convo) + 1) - 1 : lm.convo[j].kind = "assistant" /\ id \in Lanes!Frames(lm.convo[j].calls)
      BY DEF Answers
    <2>2. lm'.convo[j] = lm.convo[j] /\ j \in 1..(Len(lm'.convo) + 1) - 1
      BY <1>1, <2>1
    <2>. QED  BY <2>1, <2>2 DEF Answers
  <1>. QED  BY <1>1, <1>2, <1>3

\* A message that is not an answer: what the user says, or what an event becomes.
LEMMA ModelNotes ==
    ASSUME TypeOK, TypeOK', ModelInv, NEW m \in Message, lm'.convo = Append(lm.convo, m),
           m.kind = "result" => Reported(m.event) /\ m.event.id \in CallIds,
           lm.pc = "recv", lm'.calls = lm.calls, lm'.next = lm.next,
           UNCHANGED <<ingress, transport, trace>>,
           Lanes!Frames(lm'.inbox) \subseteq Lanes!Frames(lm.inbox)
    PROVE  ModelInv'
  <1>1. /\ Len(lm'.convo) = Len(lm.convo) + 1 /\ Len(lm.convo) \in Nat
        /\ lm'.convo[Len(lm.convo) + 1] = m
        /\ \A i \in 1..Len(lm.convo) : lm'.convo[i] = lm.convo[i]
        /\ \A id : \A i \in 1..Len(lm.convo) + 1 : Answers(id, i) => Answers(id, i)'
        /\ \A id : Answers(id, Len(lm.convo) + 1) => Answers(id, Len(lm.convo) + 1)'
    BY AnswersGrow
  <1>2. lm.calls = <<>>
    BY DEF ModelInv, ReportsFollowCalls
  <1>3. ReportsFollowCalls'
    <2>1. (\A id \in CallIds : transport.tasks[id] # {} => id < lm.next)'
      BY DEF ModelInv, ReportsFollowCalls
    <2>2. (\A event \in Lanes!Frames(transport.events) : Reported(event))'
      BY DEF ModelInv, ReportsFollowCalls, Reported
    <2>3. (\A frame \in Lanes!Frames(ingress.plan) \cup Lanes!Frames(lm.inbox) :
             frame.kind = "input" => Reported(frame.event))'
      BY DEF ModelInv, ReportsFollowCalls, Reported
    <2>4. (\A id \in 1..lm.next - 1 : \/ id \in trace.uncommitted \cup Lanes!Frames(lm.calls)
                                      \/ Answers(id, Len(lm.convo) + 1))'
      <3>. SUFFICES ASSUME NEW id \in 1..lm.next - 1
                    PROVE  \/ id \in trace'.uncommitted \cup Lanes!Frames(lm'.calls)
                           \/ Answers(id, Len(lm.convo) + 1)'
        OBVIOUS
      <3>1. id \in trace.uncommitted \cup Lanes!Frames(lm.calls) \/ Answers(id, Len(lm.convo) + 1)
        BY DEF ModelInv, ReportsFollowCalls
      <3>. QED  BY <1>1, <3>1
    <2>. QED  BY <1>2, <2>1, <2>2, <2>3, <2>4 DEF ReportsFollowCalls
  <1>4. m.kind = "result" =>
          m.event.id \in trace.uncommitted \/ Answers(m.event.id, Len(lm.convo) + 1)
    <2>. SUFFICES ASSUME m.kind = "result"
                  PROVE  m.event.id \in trace.uncommitted \/ Answers(m.event.id, Len(lm.convo) + 1)
      OBVIOUS
    <2>. DEFINE id == m.event.id
    <2>1. id \in CallIds /\ transport.tasks[id] # {}
      BY DEF Reported
    <2>2. id < lm.next
      BY <2>1 DEF ModelInv, ReportsFollowCalls
    <2>3. id \in 1..lm.next - 1
      BY <2>1, <2>2, Fields DEF CallIds
    <2>. HIDE DEF id
    <2>4. id \in trace.uncommitted \cup Lanes!Frames(lm.calls) \/ Answers(id, Len(lm.convo) + 1)
      BY <2>3 DEF ModelInv, ReportsFollowCalls
    <2>5. Lanes!Frames(lm.calls) = {}
      BY <1>2 DEF Lanes!Frames
    <2>. QED  BY <2>4, <2>5 DEF id
  <1>5. ResultsFollowCalls'
    <2>. SUFFICES ASSUME NEW i \in 1..Len(lm.convo) + 1, lm'.convo[i].kind = "result",
                         NEW id, id = lm'.convo[i].event.id
                  PROVE  Answers(id, i)' \/ id \in trace'.uncommitted
      BY <1>1 DEF ResultsFollowCalls, Answers
    <2>1. CASE i \in 1..Len(lm.convo)
      <3>1. lm'.convo[i] = lm.convo[i]
        BY <1>1, <2>1
      <3>2. Answers(lm.convo[i].event.id, i) \/ lm.convo[i].event.id \in trace.uncommitted
        BY <2>1, <3>1 DEF ModelInv, ResultsFollowCalls
      <3>. QED  BY <1>1, <2>1, <3>1, <3>2
    <2>2. CASE i = Len(lm.convo) + 1
      <3>1. lm'.convo[i] = m
        BY <1>1, <2>2
      <3>. QED  BY <1>1, <1>4, <2>2, <3>1
    <2>. QED  BY <1>1, <2>1, <2>2
  <1>. QED  BY <1>3, <1>5 DEF ModelInv

LEMMA ModelAbandons ==
    ASSUME TypeOK, TypeOK', ModelInv, lm'.convo = lm.convo, lm'.calls = <<>>, lm'.next = lm.next,
           trace'.uncommitted = trace.uncommitted \cup Lanes!Frames(lm.calls),
           UNCHANGED <<ingress, transport>>,
           Lanes!Frames(lm'.inbox) \subseteq Lanes!Frames(lm.inbox)
    PROVE  ModelInv'
  <1>1. \A id, k : Answers(id, k)' <=> Answers(id, k)
    BY DEF Answers
  <1>2. ReportsFollowCalls'
    <2>1. (\A id \in CallIds : transport.tasks[id] # {} => id < lm.next)'
      BY DEF ModelInv, ReportsFollowCalls
    <2>2. (\A event \in Lanes!Frames(transport.events) : Reported(event))'
      BY DEF ModelInv, ReportsFollowCalls, Reported
    <2>3. (\A frame \in Lanes!Frames(ingress.plan) \cup Lanes!Frames(lm.inbox) :
             frame.kind = "input" => Reported(frame.event))'
      BY DEF ModelInv, ReportsFollowCalls, Reported
    <2>4. (\A id \in 1..lm.next - 1 : \/ id \in trace.uncommitted \cup Lanes!Frames(lm.calls)
                                      \/ Answers(id, Len(lm.convo) + 1))'
      BY <1>1 DEF ModelInv, ReportsFollowCalls
    <2>. QED  BY <2>1, <2>2, <2>3, <2>4 DEF ReportsFollowCalls
  <1>3. ResultsFollowCalls'
    BY <1>1 DEF ModelInv, ResultsFollowCalls
  <1>. QED  BY <1>2, <1>3 DEF ModelInv

LEMMA ModelCalls ==
    ASSUME TypeOK, TypeOK', ModelInv, lm'.convo = lm.convo, lm.next \in CallIds,
           lm'.calls = Append(lm.calls, lm.next), lm'.next = lm.next + 1,
           lm'.pc = "stream", lm'.inbox = lm.inbox, UNCHANGED <<ingress, transport, trace>>
    PROVE  ModelInv'
  <1>1. \A id, k : Answers(id, k)' <=> Answers(id, k)
    BY DEF Answers
  <1>2. Lanes!Frames(lm'.calls) = Lanes!Frames(lm.calls) \cup {lm.next}
    BY Fields, FramesAppend
  <1>3. ReportsFollowCalls'
    <2>1. (\A id \in CallIds : transport.tasks[id] # {} => id < lm.next)'
      <3>1. \A id \in CallIds : id < lm.next => id < lm.next + 1
        BY Fields DEF CallIds
      <3>. QED  BY <3>1 DEF ModelInv, ReportsFollowCalls
    <2>2. (\A event \in Lanes!Frames(transport.events) : Reported(event))'
      BY DEF ModelInv, ReportsFollowCalls, Reported
    <2>3. (\A frame \in Lanes!Frames(ingress.plan) \cup Lanes!Frames(lm.inbox) :
             frame.kind = "input" => Reported(frame.event))'
      BY DEF ModelInv, ReportsFollowCalls, Reported
    <2>4. (\A id \in 1..lm.next - 1 : \/ id \in trace.uncommitted \cup Lanes!Frames(lm.calls)
                                      \/ Answers(id, Len(lm.convo) + 1))'
      <3>. SUFFICES ASSUME NEW id \in 1..(lm.next + 1) - 1
                    PROVE  \/ id \in trace'.uncommitted \cup Lanes!Frames(lm'.calls)
                           \/ Answers(id, Len(lm.convo) + 1)'
        OBVIOUS
      <3>1. id \in 1..lm.next - 1 \/ id = lm.next
        BY Fields
      <3>2. id \in 1..lm.next - 1 =>
              id \in trace.uncommitted \cup Lanes!Frames(lm.calls) \/ Answers(id, Len(lm.convo) + 1)
        BY DEF ModelInv, ReportsFollowCalls
      <3>. QED  BY <1>1, <1>2, <3>1, <3>2
    <2>. QED  BY <2>1, <2>2, <2>3, <2>4 DEF ReportsFollowCalls
  <1>4. ResultsFollowCalls'
    BY <1>1 DEF ModelInv, ResultsFollowCalls
  <1>. QED  BY <1>3, <1>4 DEF ModelInv

LEMMA ModelCommits ==
    ASSUME TypeOK, TypeOK', ModelInv, NEW m \in Message, m = [kind |-> "assistant", calls |-> lm.calls],
           lm'.convo = Append(lm.convo, m), lm'.calls = <<>>, lm'.next = lm.next,
           lm'.inbox = lm.inbox, UNCHANGED <<ingress, transport, trace>>
    PROVE  ModelInv'
  <1>0. m.kind = "assistant" /\ m.calls = lm.calls
    OBVIOUS
  <1>1. /\ Len(lm'.convo) = Len(lm.convo) + 1 /\ Len(lm.convo) \in Nat
        /\ lm'.convo[Len(lm.convo) + 1] = m
        /\ \A i \in 1..Len(lm.convo) : lm'.convo[i] = lm.convo[i]
        /\ \A id : \A i \in 1..Len(lm.convo) + 1 : Answers(id, i) => Answers(id, i)'
        /\ \A id : Answers(id, Len(lm.convo) + 1) => Answers(id, Len(lm.convo) + 1)'
    BY AnswersGrow
  <1>2. \A id \in Lanes!Frames(lm.calls) : Answers(id, Len(lm.convo) + 1)'
    <2>1. Len(lm.convo) + 1 \in 1..(Len(lm'.convo) + 1) - 1
      BY <1>1
    <2>. QED  BY <1>0, <1>1, <2>1 DEF Answers
  <1>3. ReportsFollowCalls'
    <2>1. (\A id \in CallIds : transport.tasks[id] # {} => id < lm.next)'
      BY DEF ModelInv, ReportsFollowCalls
    <2>2. (\A event \in Lanes!Frames(transport.events) : Reported(event))'
      BY DEF ModelInv, ReportsFollowCalls, Reported
    <2>3. (\A frame \in Lanes!Frames(ingress.plan) \cup Lanes!Frames(lm.inbox) :
             frame.kind = "input" => Reported(frame.event))'
      BY DEF ModelInv, ReportsFollowCalls, Reported
    <2>4. (\A id \in 1..lm.next - 1 : \/ id \in trace.uncommitted \cup Lanes!Frames(lm.calls)
                                      \/ Answers(id, Len(lm.convo) + 1))'
      <3>. SUFFICES ASSUME NEW id \in 1..lm.next - 1
                    PROVE  \/ id \in trace'.uncommitted \cup Lanes!Frames(lm'.calls)
                           \/ Answers(id, Len(lm.convo) + 1)'
        OBVIOUS
      <3>1. id \in trace.uncommitted \cup Lanes!Frames(lm.calls) \/ Answers(id, Len(lm.convo) + 1)
        BY DEF ModelInv, ReportsFollowCalls
      <3>. QED  BY <1>1, <1>2, <3>1
    <2>. QED  BY <2>1, <2>2, <2>3, <2>4 DEF ReportsFollowCalls
  <1>4. ResultsFollowCalls'
    <2>. SUFFICES ASSUME NEW i \in 1..Len(lm.convo) + 1, lm'.convo[i].kind = "result",
                         NEW id, id = lm'.convo[i].event.id
                  PROVE  Answers(id, i)' \/ id \in trace'.uncommitted
      BY <1>1 DEF ResultsFollowCalls, Answers
    <2>1. i # Len(lm.convo) + 1
      BY <1>0, <1>1
    <2>2. i \in 1..Len(lm.convo) /\ lm'.convo[i] = lm.convo[i]
      BY <1>1, <2>1
    <2>3. Answers(lm.convo[i].event.id, i) \/ lm.convo[i].event.id \in trace.uncommitted
      BY <2>2 DEF ModelInv, ResultsFollowCalls
    <2>. QED  BY <1>1, <2>2, <2>3
  <1>. QED  BY <1>3, <1>4 DEF ModelInv

\* The backend learns of a call, or reports of it.
LEMMA ModelReported ==
    ASSUME TypeOK, TypeOK', ModelInv, UNCHANGED <<ingress, lm, trace>>,
           \A id \in CallIds : transport.tasks[id] # {} => transport'.tasks[id] # {},
           \A id \in CallIds : transport'.tasks[id] # {} => id < lm.next,
           \A event \in Lanes!Frames(transport'.events) :
             event \in Lanes!Frames(transport.events) \/ Reported(event)
    PROVE  ModelInv'
  <1>0. \A event \in DispatchEvent : Reported(event) => Reported(event)'
    BY FrameFacts DEF Reported
  <1>1. \A id, k : Answers(id, k)' <=> Answers(id, k)
    BY DEF Answers
  <1>2. ReportsFollowCalls'
    <2>1. (\A id \in CallIds : transport.tasks[id] # {} => id < lm.next)'
      OBVIOUS
    <2>2. (\A event \in Lanes!Frames(transport.events) : Reported(event))'
      <3>1. Lanes!Frames(transport'.events) \subseteq DispatchEvent
        <4>1. transport'.events \in Seq(DispatchEvent)
          BY DEF TypeOK, TransportRecord
        <4>. QED  BY <4>1 DEF Lanes!Frames
      <3>. QED  BY <1>0, <3>1 DEF ModelInv, ReportsFollowCalls
    <2>3. (\A frame \in Lanes!Frames(ingress.plan) \cup Lanes!Frames(lm.inbox) :
             frame.kind = "input" => Reported(frame.event))'
      <3>1. \A frame \in Lanes!Frames(ingress.plan) \cup Lanes!Frames(lm.inbox) : frame \in Frame
        BY Fields DEF Lanes!Frames
      <3>. QED  BY <1>0, <3>1, FrameFacts DEF ModelInv, ReportsFollowCalls
    <2>4. (\A id \in 1..lm.next - 1 : \/ id \in trace.uncommitted \cup Lanes!Frames(lm.calls)
                                      \/ Answers(id, Len(lm.convo) + 1))'
      BY <1>1 DEF ModelInv, ReportsFollowCalls
    <2>5. (lm.pc \in {"recv", "generate"} => lm.calls = <<>>)'
      BY DEF ModelInv, ReportsFollowCalls
    <2>. QED  BY <2>1, <2>2, <2>3, <2>4, <2>5 DEF ReportsFollowCalls
  <1>3. ResultsFollowCalls'
    BY <1>1 DEF ModelInv, ResultsFollowCalls
  <1>. QED  BY <1>2, <1>3 DEF ModelInv

-----------------------------------------------------------------------------
(***************************************************************************)
(* Egress: where each call is that the model has made.                     *)
(***************************************************************************)
EgressInv == CallsInOnePlace /\ ClaimsArePublished /\ BargeInLosesOneCall

LEMMA CallFrames ==
    \A a, b \in CallIds : Call(a) # Command(b) /\ (Call(a) = Call(b) => a = b) /\ (Command(a) = Command(b) => a = b)
  BY FrameFacts

\* The frames of the lane that are calls stay the same, and nothing else changes but that
\* the backend learns something.
LEMMA EgressRest ==
    ASSUME TypeOK, TypeOK', EgressInv,
           egress'.pc = egress.pc, egress'.call = egress.call, egress'.out = egress.out,
           lm'.next = lm.next, Distinct(egress'.inbox),
           Lanes!Frames(egress'.inbox) \subseteq Lanes!Frames(egress.inbox) \cup {f \in Frame : f.kind # "call"},
           \A f \in Lanes!Frames(egress.inbox) : f.kind = "call" => f \in Lanes!Frames(egress'.inbox),
           \A id \in CallIds : "delivered" \in transport.tasks[id] => "delivered" \in transport'.tasks[id],
           trace'.lost = trace.lost, trace'.refused = trace.refused, trace'.cuts = trace.cuts
    PROVE  EgressInv'
  <1>1. CallsInOnePlace
    BY DEF EgressInv
  <1>2. \A id : Claimed(id)' <=> Claimed(id)
    BY DEF Claimed
  <1>3. CallsInOnePlace'
    <2>1. \A f \in Lanes!Frames(egress'.inbox) : f.kind = "call" => f \in Lanes!Frames(egress.inbox)
      OBVIOUS
    <2>2. (\A frame \in Lanes!Frames(egress.inbox) :
             frame.kind = "call" => frame.id < lm.next /\ frame.id # egress.call /\ ~Claimed(frame.id))'
      BY <1>1, <1>2, <2>1 DEF CallsInOnePlace
    <2>3. (egress.pc # "recv" => egress.call \in WellFormed /\ egress.call < lm.next)'
      BY <1>1 DEF CallsInOnePlace
    <2>4. (egress.pc = "publish" => ~Claimed(egress.call))'
      BY <1>1, <1>2 DEF CallsInOnePlace
    <2>5. (egress.pc \in {"claim", "command"} =>
             /\ "delivered" \in transport.tasks[egress.call]
             /\ Call(egress.call) \in Lanes!Frames(egress.out))'
      BY <1>1 DEF CallsInOnePlace
    <2>6. (\A claim \in Lanes!Frames(egress.out) : claim.kind \in {"call", "command"} /\ claim.id < lm.next)' /\ (egress.pc = "recv" => egress.call = 0)'
      BY <1>1 DEF CallsInOnePlace
    <2>7. (egress.pc = "claim" =>
             /\ egress.out[Len(egress.out)] = Call(egress.call)
             /\ Command(egress.call) \notin Lanes!Frames(egress.out))'
      BY <1>1 DEF CallsInOnePlace
    <2>. QED  BY <2>2, <2>3, <2>4, <2>5, <2>6, <2>7 DEF CallsInOnePlace
  <1>4. ClaimsArePublished'
    BY DEF EgressInv, ClaimsArePublished
  <1>5. BargeInLosesOneCall'
    <2>1. ASSUME NEW id \in 1..lm.next - 1
          PROVE  \/ Call(id) \in Lanes!Frames(egress'.inbox) \cup Lanes!Frames(egress'.out)
                 \/ egress'.call = id
                 \/ id \in trace'.lost \cup trace'.refused
      <3>1. \/ Call(id) \in Lanes!Frames(egress.inbox) \cup Lanes!Frames(egress.out)
            \/ egress.call = id
            \/ id \in trace.lost \cup trace.refused
        BY DEF EgressInv, BargeInLosesOneCall
      <3>2. Call(id).kind = "call"
        BY DEF Call
      <3>. QED  BY <3>1, <3>2
    <2>2. Cardinality(trace'.lost) <= trace'.cuts
      BY DEF EgressInv, BargeInLosesOneCall
    <2>. QED  BY <2>1, <2>2 DEF BargeInLosesOneCall
  <1>. QED  BY <1>3, <1>4, <1>5 DEF EgressInv

LEMMA EgressHearsOther ==
    ASSUME TypeOK, TypeOK', EgressInv, NEW frame \in Frame, frame.kind # "call",
           egress'.inbox = Append(egress.inbox, frame),
           egress'.pc = egress.pc, egress'.call = egress.call, egress'.out = egress.out,
           lm'.next = lm.next, UNCHANGED transport,
           trace'.lost = trace.lost, trace'.refused = trace.refused, trace'.cuts = trace.cuts
    PROVE  EgressInv'
  <1>1. Lanes!Frames(egress'.inbox) = Lanes!Frames(egress.inbox) \cup {frame}
    BY Fields, FramesAppend
  <1>2. Distinct(egress'.inbox)
    <2>1. Distinct(egress.inbox) /\ \A y \in Lanes!Frames(egress.inbox) : Apart(frame, y)
      BY DEF EgressInv, CallsInOnePlace, Apart
    <2>. DEFINE s == egress.inbox
    <2>. HIDE DEF s
    <2>2. s \in Seq(Frame) /\ Distinct(s) /\ \A y \in Lanes!Frames(s) : Apart(frame, y)
      BY <2>1, Fields DEF s
    <2>3. Distinct(Append(s, frame))
      BY <2>2, DistinctAppend
    <2>. QED  BY <2>3 DEF s
  <1>. QED  BY <1>1, <1>2, EgressRest

\* The model makes the next call.
LEMMA EgressHearsCall ==
    ASSUME TypeOK, TypeOK', EgressInv, lm.next \in CallIds,
           egress'.inbox = Append(egress.inbox, Call(lm.next)),
           egress'.pc = egress.pc, egress'.call = egress.call, egress'.out = egress.out,
           lm'.next = lm.next + 1, UNCHANGED <<transport, trace>>
    PROVE  EgressInv'
  <1>. DEFINE n == lm.next
  <1>1. CallsInOnePlace
    BY DEF EgressInv
  <1>2. \A id : Claimed(id)' <=> Claimed(id)
    BY DEF Claimed
  <1>3. Call(n) \in Frame /\ Call(n).kind = "call" /\ Call(n).id = n /\ Command(n).id = n /\ n \in Nat
    BY FrameFacts DEF CallIds
  <1>4. Lanes!Frames(egress'.inbox) = Lanes!Frames(egress.inbox) \cup {Call(n)}
    BY <1>3, Fields, FramesAppend
  <1>5. ~Claimed(n) /\ egress.call # n
    <2>1. \A claim \in Lanes!Frames(egress.out) : claim.id # n
      BY <1>1, <1>3 DEF CallsInOnePlace
    <2>2. ~Claimed(n)
      BY <1>3, <2>1 DEF Claimed
    <2>3. egress.call # n
      BY <1>1, <1>3 DEF CallsInOnePlace, CallIds
    <2>. QED  BY <2>2, <2>3
  <1>6. Distinct(egress'.inbox)
    <2>. DEFINE s == egress.inbox
                frame == Call(n)
    <2>1. s \in Seq(Frame) /\ Distinct(s)
      BY <1>1, Fields DEF CallsInOnePlace
    <2>2. \A y \in Lanes!Frames(s) : Apart(frame, y)
      BY <1>1, <1>3 DEF CallsInOnePlace, Apart
    <2>3. frame \in Frame
      BY <1>3
    <2>. HIDE DEF s, frame
    <2>4. Distinct(Append(s, frame))
      BY <2>1, <2>2, <2>3, DistinctAppend
    <2>. QED  BY <2>4 DEF s, frame
  <1>7. \A id : id < n /\ id \in CallIds => id < n + 1
    BY <1>3 DEF CallIds
  <1>8. CallsInOnePlace'
    <2>1. (\A frame \in Lanes!Frames(egress.inbox) :
             frame.kind = "call" => frame.id < lm.next /\ frame.id # egress.call /\ ~Claimed(frame.id))'
      <3>1. \A frame \in Lanes!Frames(egress.inbox) : frame.kind = "call" => frame.id \in CallIds
        BY Fields, FrameFacts DEF Lanes!Frames
      <3>2. \A frame \in Lanes!Frames(egress.inbox) :
              frame.kind = "call" => frame.id < n + 1 /\ frame.id # egress.call /\ ~Claimed(frame.id)
        BY <1>1, <1>7, <3>1 DEF CallsInOnePlace
      <3>. QED  BY <1>2, <1>3, <1>4, <1>5, <3>2
    <2>2. (egress.pc # "recv" => egress.call \in WellFormed /\ egress.call < lm.next)'
      BY <1>1, <1>7 DEF CallsInOnePlace
    <2>3. (egress.pc = "publish" => ~Claimed(egress.call))'
      BY <1>1, <1>2 DEF CallsInOnePlace
    <2>4. (egress.pc \in {"claim", "command"} =>
             /\ "delivered" \in transport.tasks[egress.call]
             /\ Call(egress.call) \in Lanes!Frames(egress.out))'
      BY <1>1 DEF CallsInOnePlace
    <2>5. (\A claim \in Lanes!Frames(egress.out) : claim.kind \in {"call", "command"} /\ claim.id < lm.next)' /\ (egress.pc = "recv" => egress.call = 0)'
      <3>1. \A claim \in Lanes!Frames(egress.out) : claim \in Frame
        BY Fields DEF Lanes!Frames
      <3>2. \A claim \in Lanes!Frames(egress.out) :
              claim.kind \in {"call", "command"} /\ claim.id < n /\ claim.id \in CallIds
        BY <1>1, <3>1, FrameFacts DEF CallsInOnePlace
      <3>. QED  BY <1>1, <1>7, <3>2 DEF CallsInOnePlace
    <2>6. (egress.pc = "claim" =>
             /\ egress.out[Len(egress.out)] = Call(egress.call)
             /\ Command(egress.call) \notin Lanes!Frames(egress.out))'
      BY <1>1 DEF CallsInOnePlace
    <2>. QED  BY <1>6, <2>1, <2>2, <2>3, <2>4, <2>5, <2>6 DEF CallsInOnePlace
  <1>9. ClaimsArePublished'
    BY DEF EgressInv, ClaimsArePublished
  <1>10. BargeInLosesOneCall'
    <2>1. ASSUME NEW id \in 1..(n + 1) - 1
          PROVE  \/ Call(id) \in Lanes!Frames(egress'.inbox) \cup Lanes!Frames(egress'.out)
                 \/ egress'.call = id
                 \/ id \in trace'.lost \cup trace'.refused
      <3>1. id \in 1..n - 1 \/ id = n
        BY <1>3
      <3>2. id \in 1..n - 1 => \/ Call(id) \in Lanes!Frames(egress.inbox) \cup Lanes!Frames(egress.out)
                               \/ egress.call = id
                               \/ id \in trace.lost \cup trace.refused
        BY DEF EgressInv, BargeInLosesOneCall
      <3>. QED  BY <1>4, <3>1, <3>2
    <2>. QED  BY <2>1 DEF EgressInv, BargeInLosesOneCall
  <1>. QED  BY <1>8, <1>9, <1>10 DEF EgressInv

\* What is sent on is published, is no repetition, and a command follows its call.
LEMMA ClaimsAppend ==
    ASSUME TypeOK, ClaimsArePublished, NEW claim \in Frame, transport'.tasks = transport.tasks,
           egress'.out = Append(egress.out, claim),
           claim.id \in WellFormed => "delivered" \in transport.tasks[claim.id],
           claim.kind = "command" =>
             egress.out # <<>> /\ egress.out[Len(egress.out)] = Call(claim.id),
           claim \notin Lanes!Frames(egress.out)
    PROVE  ClaimsArePublished'
  <1>. DEFINE s == egress.out
              N == Len(s)
              a == egress'.out
  <1>1. /\ Len(a) = N + 1 /\ a[N + 1] = claim /\ N \in Nat
        /\ \A i \in 1..N : a[i] = s[i]
    BY Fields, AppendProperties
  <1>2. s # <<>> => N > 0
    BY Fields, EmptySeq
  <1>3. \A i \in 1..N : s[i] # claim
    BY DEF Lanes!Frames
  <1>4. \A i \in 1..N : /\ s[i].id \in WellFormed => "delivered" \in transport.tasks[s[i].id]
                        /\ s[i].kind = "command" => i > 1 /\ s[i - 1] = Call(s[i].id)
                        /\ \A j \in 1..i - 1 : s[j] # s[i]
    BY DEF ClaimsArePublished
  <1>5. (claim.id \in WellFormed => "delivered" \in transport.tasks[claim.id])
        /\ (claim.kind = "command" => s # <<>> /\ s[N] = Call(claim.id))
    OBVIOUS
  <1>. SUFFICES ASSUME NEW i \in 1..N + 1
                PROVE  /\ a[i].id \in WellFormed => "delivered" \in transport.tasks[a[i].id]
                       /\ a[i].kind = "command" => i > 1 /\ a[i - 1] = Call(a[i].id)
                       /\ \A j \in 1..i - 1 : a[j] # a[i]
    BY <1>1 DEF ClaimsArePublished
  <1>. HIDE DEF a, s, N
  <1>6. CASE i \in 1..N
    <2>1. a[i] = s[i] /\ (i > 1 => a[i - 1] = s[i - 1]) /\ \A j \in 1..i - 1 : a[j] = s[j]
      BY <1>1, <1>6
    <2>. QED  BY <1>4, <1>6, <2>1
  <1>7. CASE i = N + 1
    <2>1. a[i] = claim /\ i - 1 = N /\ \A j \in 1..i - 1 : a[j] = s[j]
      BY <1>1, <1>7
    <2>2. claim.kind = "command" => i > 1 /\ a[i - 1] = Call(claim.id)
      BY <1>1, <1>2, <1>5, <1>7, <2>1
    <2>3. \A j \in 1..i - 1 : a[j] # claim
      BY <1>3, <2>1
    <2>. QED  BY <1>5, <2>1, <2>2, <2>3
  <1>. QED  BY <1>1, <1>6, <1>7

\* The lane loses its oldest frame, which a stage takes.
LEMMA EgressTaken ==
    ASSUME TypeOK, EgressInv, egress.inbox # <<>>, egress'.inbox = Tail(egress.inbox)
    PROVE  /\ Head(egress.inbox) \in Frame /\ egress'.inbox \in Seq(Frame)
           /\ Lanes!Frames(egress.inbox) = {Head(egress.inbox)} \cup Lanes!Frames(egress'.inbox)
           /\ Distinct(egress'.inbox)
           /\ \A y \in Lanes!Frames(egress'.inbox) : Apart(Head(egress.inbox), y)
  <1>. DEFINE s == egress.inbox
  <1>1. s \in Seq(Frame) /\ s # <<>> /\ Distinct(s) /\ egress'.inbox = Tail(s)
    BY Fields DEF EgressInv, CallsInOnePlace
  <1>. HIDE DEF s
  <1>2. /\ Lanes!Frames(s) = {Head(s)} \cup Lanes!Frames(Tail(s)) /\ Head(s) \in Frame /\ Tail(s) \in Seq(Frame)
        /\ Distinct(Tail(s)) /\ \A y \in Lanes!Frames(Tail(s)) : Apart(Head(s), y)
    BY <1>1, FramesTail, DistinctTail
  <1>. QED  BY <1>1, <1>2 DEF s

LEMMA EgressPublishes ==
    ASSUME TypeOK, TypeOK', EgressInv, egress.inbox # <<>>, egress'.inbox = Tail(egress.inbox),
           egress.pc = "recv", egress'.pc = "publish", egress'.out = egress.out,
           Head(egress.inbox).kind = "call", Head(egress.inbox).id \in WellFormed,
           egress'.call = Head(egress.inbox).id, UNCHANGED <<lm, transport, trace>>
    PROVE  EgressInv'
  <1>. DEFINE frame == Head(egress.inbox)
  <1>1. /\ frame \in Frame /\ Lanes!Frames(egress.inbox) = {frame} \cup Lanes!Frames(egress'.inbox)
        /\ Distinct(egress'.inbox) /\ \A y \in Lanes!Frames(egress'.inbox) : Apart(frame, y)
    BY EgressTaken
  <1>2. \A id : Claimed(id)' <=> Claimed(id)
    BY DEF Claimed
  <1>3. CallsInOnePlace
    BY DEF EgressInv
  <1>4. frame.kind = "call" /\ frame.id \in WellFormed /\ frame.id < lm.next /\ ~Claimed(frame.id) /\ frame = Call(frame.id)
    BY <1>1, <1>3, FrameFacts DEF CallsInOnePlace
  <1>. HIDE DEF frame
  <1>5. egress'.call = frame.id
    BY DEF frame
  <1>6. CallsInOnePlace'
    <2>1. (\A f \in Lanes!Frames(egress.inbox) :
             f.kind = "call" => f.id < lm.next /\ f.id # egress.call /\ ~Claimed(f.id))'
      BY <1>1, <1>2, <1>3, <1>4, <1>5 DEF CallsInOnePlace, Apart
    <2>2. (\A claim \in Lanes!Frames(egress.out) : claim.kind \in {"call", "command"} /\ claim.id < lm.next)'
      BY <1>3 DEF CallsInOnePlace
    <2>3. (egress.call \in WellFormed /\ egress.call < lm.next /\ ~Claimed(egress.call))'
      BY <1>2, <1>4, <1>5
    <2>. QED  BY <1>1, <2>1, <2>2, <2>3 DEF CallsInOnePlace
  <1>7. ClaimsArePublished'
    BY DEF EgressInv, ClaimsArePublished
  <1>8. BargeInLosesOneCall'
    <2>1. ASSUME NEW id \in 1..lm.next - 1
          PROVE  \/ Call(id) \in Lanes!Frames(egress'.inbox) \cup Lanes!Frames(egress'.out)
                 \/ egress'.call = id
                 \/ id \in trace'.lost \cup trace'.refused
      <3>1. \/ Call(id) \in Lanes!Frames(egress.inbox) \cup Lanes!Frames(egress.out)
            \/ egress.call = id
            \/ id \in trace.lost \cup trace.refused
        BY DEF EgressInv, BargeInLosesOneCall
      <3>2. egress.call # id
        BY <1>3, Fields DEF CallsInOnePlace
      <3>3. Call(id) = frame => frame.id = id
        BY DEF Call
      <3>. QED  BY <1>1, <1>5, <3>1, <3>2, <3>3
    <2>. QED  BY <2>1 DEF EgressInv, BargeInLosesOneCall
  <1>. QED  BY <1>6, <1>7, <1>8 DEF EgressInv

\* A call whose arguments do not parse is sent on as it is.
LEMMA EgressForwards ==
    ASSUME TypeOK, TypeOK', EgressInv, egress.inbox # <<>>, egress'.inbox = Tail(egress.inbox),
           egress.pc = "recv", egress'.pc = egress.pc, egress'.call = egress.call,
           egress'.out = Append(egress.out, Head(egress.inbox)),
           Head(egress.inbox).kind = "call", Head(egress.inbox).id \notin WellFormed,
           UNCHANGED <<lm, transport, trace>>
    PROVE  EgressInv'
  <1>. DEFINE frame == Head(egress.inbox)
  <1>1. /\ frame \in Frame /\ Lanes!Frames(egress.inbox) = {frame} \cup Lanes!Frames(egress'.inbox)
        /\ Distinct(egress'.inbox) /\ \A y \in Lanes!Frames(egress'.inbox) : Apart(frame, y)
    BY EgressTaken
  <1>2. CallsInOnePlace
    BY DEF EgressInv
  <1>3. frame.kind = "call" /\ frame.id \notin WellFormed /\ frame.id < lm.next /\ ~Claimed(frame.id)
        /\ frame.id \in CallIds /\ frame = Call(frame.id)
    BY <1>1, <1>2, FrameFacts DEF CallsInOnePlace
  <1>4. egress'.out = Append(egress.out, frame)
    OBVIOUS
  <1>. HIDE DEF frame
  <1>5. Lanes!Frames(egress'.out) = Lanes!Frames(egress.out) \cup {frame}
    BY <1>1, <1>4, Fields, FramesAppend
  <1>6. \A id \in CallIds : Claimed(id)' => Claimed(id) \/ id = frame.id
    BY <1>3, <1>5, CallFrames DEF Claimed
  <1>7. CallsInOnePlace'
    <2>1. (\A f \in Lanes!Frames(egress.inbox) :
             f.kind = "call" => f.id < lm.next /\ f.id # egress.call /\ ~Claimed(f.id))'
      <3>1. \A f \in Lanes!Frames(egress'.inbox) : f.kind = "call" => f.id \in CallIds /\ f.id # frame.id
        <4>1. \A f \in Lanes!Frames(egress.inbox) : f \in Frame
          BY Fields DEF Lanes!Frames
        <4>. QED  BY <1>1, <1>3, <4>1, FrameFacts DEF Apart
      <3>. QED  BY <1>1, <1>2, <1>6, <3>1 DEF CallsInOnePlace
    <2>2. (\A claim \in Lanes!Frames(egress.out) : claim.kind \in {"call", "command"} /\ claim.id < lm.next)'
      BY <1>2, <1>3, <1>5 DEF CallsInOnePlace
    <2>. QED  BY <1>1, <1>2, <2>1, <2>2 DEF CallsInOnePlace
  <1>8. ClaimsArePublished'
    <2>1. frame \notin Lanes!Frames(egress.out)
      BY <1>3 DEF Claimed
    <2>. QED  BY <1>1, <1>3, <1>4, <2>1, ClaimsAppend DEF EgressInv
  <1>9. BargeInLosesOneCall'
    <2>1. ASSUME NEW id \in 1..lm.next - 1
          PROVE  \/ Call(id) \in Lanes!Frames(egress'.inbox) \cup Lanes!Frames(egress'.out)
                 \/ egress'.call = id
                 \/ id \in trace'.lost \cup trace'.refused
      BY <1>1, <1>5 DEF EgressInv, BargeInLosesOneCall
    <2>. QED  BY <2>1 DEF EgressInv, BargeInLosesOneCall
  <1>. QED  BY <1>7, <1>8, <1>9 DEF EgressInv

LEMMA EgressPasses ==
    ASSUME TypeOK, TypeOK', EgressInv, egress.inbox # <<>>, egress'.inbox = Tail(egress.inbox),
           egress'.pc = egress.pc, egress'.call = egress.call, egress'.out = egress.out,
           Head(egress.inbox).kind # "call", UNCHANGED <<lm, transport, trace>>
    PROVE  EgressInv'
  <1>1. /\ Lanes!Frames(egress.inbox) = {Head(egress.inbox)} \cup Lanes!Frames(egress'.inbox)
        /\ Distinct(egress'.inbox)
    BY EgressTaken
  <1>. QED  BY <1>1, EgressRest

\* While a call is published it is one of those the model has made.
LEMMA PublishedCall ==
    ASSUME TypeOK, EgressInv
    PROVE  /\ egress.pc # "recv" => egress.call \in WellFormed /\ egress.call \in CallIds /\ egress.call < lm.next
           /\ egress.pc = "recv" => egress.call = 0
  BY DEF EgressInv, CallsInOnePlace

LEMMA EgressIsInterrupted ==
    ASSUME TypeOK, TypeOK', EgressInv, Interrupted(egress.inbox),
           egress'.inbox = AfterInterrupt(egress.inbox),
           egress'.pc = "recv", egress'.call = 0, egress'.out = egress.out, UNCHANGED <<lm, transport>>,
           trace'.refused = trace.refused, trace'.cuts = trace.cuts + 1,
           trace'.lost = IF egress.pc = "publish" THEN trace.lost \cup {egress.call} ELSE trace.lost
    PROVE  EgressInv'
  <1>1. CallsInOnePlace
    BY DEF EgressInv
  <1>2. \A id : Claimed(id)' <=> Claimed(id)
    BY DEF Claimed
  <1>3. /\ Lanes!Frames(egress'.inbox) \subseteq Lanes!Frames(egress.inbox) /\ Distinct(egress'.inbox)
        /\ \A f \in Lanes!Frames(egress.inbox) : f.kind = "call" => f \in Lanes!Frames(egress'.inbox)
    <2>. DEFINE box == egress.inbox
    <2>1. box \in Seq(Frame) /\ Interrupted(box) /\ Distinct(box) /\ egress'.inbox = AfterInterrupt(box)
      BY <1>1, Fields DEF CallsInOnePlace
    <2>. HIDE DEF box
    <2>2. /\ Lanes!Frames(AfterInterrupt(box)) \subseteq Lanes!Frames(box) /\ Distinct(AfterInterrupt(box))
          /\ \A x \in Lanes!Frames(box) : Durable(x) => x \in Lanes!Frames(AfterInterrupt(box))
      BY <2>1, AfterFacts
    <2>. QED  BY <2>1, <2>2 DEF Durable, box
  <1>4. CallsInOnePlace'
    <2>1. (\A f \in Lanes!Frames(egress.inbox) :
             f.kind = "call" => f.id < lm.next /\ f.id # egress.call /\ ~Claimed(f.id))'
      <3>1. \A f \in Lanes!Frames(egress.inbox) : f.kind = "call" => f.id # 0
        <4>1. \A f \in Lanes!Frames(egress.inbox) : f \in Frame
          BY Fields DEF Lanes!Frames
        <4>. QED  BY <4>1, FrameFacts DEF CallIds
      <3>2. \A f \in Lanes!Frames(egress.inbox) : f.kind = "call" => f.id < lm.next /\ ~Claimed(f.id)
        BY <1>1 DEF CallsInOnePlace
      <3>3. \A f \in Lanes!Frames(egress'.inbox) :
              f.kind = "call" => f.id < lm.next /\ f.id # 0 /\ ~Claimed(f.id)
        BY <1>3, <3>1, <3>2
      <3>. QED  BY <1>2, <3>3
    <2>2. (\A claim \in Lanes!Frames(egress.out) : claim.kind \in {"call", "command"} /\ claim.id < lm.next)'
      BY <1>1 DEF CallsInOnePlace
    <2>. QED  BY <1>3, <2>1, <2>2 DEF CallsInOnePlace
  <1>5. ClaimsArePublished'
    BY DEF EgressInv, ClaimsArePublished
  <1>6. ASSUME NEW id \in 1..lm.next - 1
        PROVE  \/ Call(id) \in Lanes!Frames(egress'.inbox) \cup Lanes!Frames(egress'.out)
               \/ egress'.call = id
               \/ id \in trace'.lost \cup trace'.refused
    <2>1. \/ Call(id) \in Lanes!Frames(egress.inbox) \cup Lanes!Frames(egress.out)
          \/ egress.call = id
          \/ id \in trace.lost \cup trace.refused
      BY DEF EgressInv, BargeInLosesOneCall
    <2>2. Call(id).kind = "call"
      BY DEF Call
    <2>3. egress.call = id =>
            \/ egress.pc = "publish"
            \/ Call(id) \in Lanes!Frames(egress.out)
      BY <1>1, Fields DEF CallsInOnePlace
    <2>. QED  BY <1>3, <2>1, <2>2, <2>3
  <1>7. Cardinality(trace'.lost) <= trace'.cuts
    <2>. DEFINE lost == trace.lost
                one == egress.call
    <2>1. IsFiniteSet(lost)
      <3>1. IsFiniteSet(CallIds)
        BY FS_Interval DEF CallIds
      <3>. QED  BY <3>1, Fields, FS_Subset
    <2>2. Cardinality(lost) <= trace.cuts /\ trace.cuts \in Nat
      BY Fields DEF EgressInv, BargeInLosesOneCall
    <2>3. trace'.lost = lost \cup {one} \/ trace'.lost = lost
      OBVIOUS
    <2>. HIDE DEF lost, one
    <2>4. Cardinality(lost) \in Nat
      BY <2>1, FS_CardinalityType
    <2>5. Cardinality(lost \cup {one}) = IF one \in lost THEN Cardinality(lost) ELSE Cardinality(lost) + 1
      BY <2>1, FS_AddElement
    <2>6. Cardinality(lost \cup {one}) <= Cardinality(lost) + 1
      BY <2>4, <2>5
    <2>7. Cardinality(trace'.lost) <= Cardinality(lost) + 1
      <3>1. CASE trace'.lost = lost
        BY <2>4, <3>1
      <3>2. CASE trace'.lost = lost \cup {one}
        BY <2>6, <3>2, Zenon
      <3>. QED  BY <2>3, <3>1, <3>2
    <2>8. Cardinality(trace'.lost) \in Nat
      <3>1. CASE trace'.lost = lost
        BY <2>4, <3>1
      <3>2. CASE trace'.lost = lost \cup {one}
        <4>1. IsFiniteSet(lost \cup {one})
          BY <2>1, FS_AddElement
        <4>2. Cardinality(lost \cup {one}) \in Nat
          BY <4>1, FS_CardinalityType
        <4>. QED  BY <3>2, <4>2, Zenon
      <3>. QED  BY <2>3, <3>1, <3>2
    <2>9. trace'.cuts = trace.cuts + 1
      OBVIOUS
    <2>. QED  BY ONLY <2>2, <2>4, <2>7, <2>8, <2>9
  <1>. QED  BY <1>4, <1>5, <1>6, <1>7 DEF EgressInv, BargeInLosesOneCall

LEMMA EgressClaimsIt ==
    ASSUME TypeOK, TypeOK', EgressInv, egress.pc = "publish", egress'.pc = "claim",
           egress'.call = egress.call, "delivered" \in transport.tasks[egress.call],
           egress'.inbox = egress.inbox, egress'.out = Append(egress.out, Call(egress.call)),
           UNCHANGED <<lm, transport, trace>>
    PROVE  EgressInv'
  <1>. DEFINE id == egress.call
              claim == Call(id)
  <1>1. CallsInOnePlace
    BY DEF EgressInv
  <1>2. id \in WellFormed /\ id \in CallIds /\ id < lm.next /\ ~Claimed(id)
    BY <1>1 DEF CallsInOnePlace
  <1>3. claim \in Frame /\ claim.kind = "call" /\ claim.id = id
    BY <1>2, FrameFacts
  <1>4. Lanes!Frames(egress'.out) = Lanes!Frames(egress.out) \cup {claim}
    BY <1>3, Fields, FramesAppend
  <1>5. claim \notin Lanes!Frames(egress.out) /\ Command(id) \notin Lanes!Frames(egress.out)
    BY <1>2 DEF Claimed
  <1>6. Command(id) \notin Lanes!Frames(egress'.out)
    BY <1>2, <1>4, <1>5, CallFrames
  <1>7. egress'.out[Len(egress'.out)] = claim
    BY <1>3, Fields, AppendProperties
  <1>8. \A other \in CallIds : Claimed(other)' => Claimed(other) \/ other = id
    BY <1>2, <1>4, CallFrames DEF Claimed
  <1>9. CallsInOnePlace'
    <2>1. (\A f \in Lanes!Frames(egress.inbox) :
             f.kind = "call" => f.id < lm.next /\ f.id # egress.call /\ ~Claimed(f.id))'
      <3>1. \A f \in Lanes!Frames(egress.inbox) : f.kind = "call" => f.id \in CallIds
        <4>1. \A f \in Lanes!Frames(egress.inbox) : f \in Frame
          BY Fields DEF Lanes!Frames
        <4>. QED  BY <4>1, FrameFacts
      <3>. QED  BY <1>1, <1>8, <3>1 DEF CallsInOnePlace
    <2>2. (\A c \in Lanes!Frames(egress.out) : c.kind \in {"call", "command"} /\ c.id < lm.next)'
      BY <1>1, <1>2, <1>3, <1>4 DEF CallsInOnePlace
    <2>. QED  BY <1>1, <1>2, <1>4, <1>6, <1>7, <2>1, <2>2 DEF CallsInOnePlace
  <1>10. ClaimsArePublished'
    BY <1>3, <1>5, ClaimsAppend DEF EgressInv
  <1>11. BargeInLosesOneCall'
    <2>1. ASSUME NEW other \in 1..lm.next - 1
          PROVE  \/ Call(other) \in Lanes!Frames(egress'.inbox) \cup Lanes!Frames(egress'.out)
                 \/ egress'.call = other
                 \/ other \in trace'.lost \cup trace'.refused
      BY <1>4 DEF EgressInv, BargeInLosesOneCall
    <2>. QED  BY <2>1 DEF EgressInv, BargeInLosesOneCall
  <1>. QED  BY <1>9, <1>10, <1>11 DEF EgressInv

LEMMA EgressCommandsIt ==
    ASSUME TypeOK, TypeOK', EgressInv, egress.pc = "claim", egress'.pc = "command",
           egress'.call = egress.call, egress'.inbox = egress.inbox,
           egress'.out = Append(egress.out, Command(egress.call)),
           UNCHANGED <<lm, transport, trace>>
    PROVE  EgressInv'
  <1>. DEFINE id == egress.call
              claim == Command(id)
  <1>1. CallsInOnePlace
    BY DEF EgressInv
  <1>2. /\ id \in WellFormed /\ id \in CallIds /\ id < lm.next /\ "delivered" \in transport.tasks[id]
        /\ Call(id) \in Lanes!Frames(egress.out) /\ egress.out[Len(egress.out)] = Call(id)
        /\ claim \notin Lanes!Frames(egress.out)
    BY <1>1 DEF CallsInOnePlace
  <1>3. claim \in Frame /\ claim.kind = "command" /\ claim.id = id
    BY <1>2, FrameFacts
  <1>4. Lanes!Frames(egress'.out) = Lanes!Frames(egress.out) \cup {claim}
    BY <1>3, Fields, FramesAppend
  <1>5. egress.out # <<>>
    BY <1>2 DEF Lanes!Frames
  <1>6. \A other \in CallIds : Claimed(other)' => Claimed(other) \/ other = id
    BY <1>2, <1>4, CallFrames DEF Claimed
  <1>7. CallsInOnePlace'
    <2>1. (\A f \in Lanes!Frames(egress.inbox) :
             f.kind = "call" => f.id < lm.next /\ f.id # egress.call /\ ~Claimed(f.id))'
      <3>1. \A f \in Lanes!Frames(egress.inbox) : f.kind = "call" => f.id \in CallIds
        <4>1. \A f \in Lanes!Frames(egress.inbox) : f \in Frame
          BY Fields DEF Lanes!Frames
        <4>. QED  BY <4>1, FrameFacts
      <3>. QED  BY <1>1, <1>6, <3>1 DEF CallsInOnePlace
    <2>2. (\A c \in Lanes!Frames(egress.out) : c.kind \in {"call", "command"} /\ c.id < lm.next)'
      BY <1>1, <1>2, <1>3, <1>4 DEF CallsInOnePlace
    <2>. QED  BY <1>1, <1>2, <1>4, <2>1, <2>2 DEF CallsInOnePlace
  <1>8. ClaimsArePublished'
    BY <1>2, <1>3, <1>5, ClaimsAppend DEF EgressInv
  <1>9. BargeInLosesOneCall'
    <2>1. ASSUME NEW other \in 1..lm.next - 1
          PROVE  \/ Call(other) \in Lanes!Frames(egress'.inbox) \cup Lanes!Frames(egress'.out)
                 \/ egress'.call = other
                 \/ other \in trace'.lost \cup trace'.refused
      BY <1>4 DEF EgressInv, BargeInLosesOneCall
    <2>. QED  BY <2>1 DEF EgressInv, BargeInLosesOneCall
  <1>. QED  BY <1>7, <1>8, <1>9 DEF EgressInv

LEMMA EgressReturns ==
    ASSUME TypeOK, TypeOK', EgressInv, egress'.pc = "recv", egress'.call = 0,
           egress'.inbox = egress.inbox, egress'.out = egress.out, UNCHANGED <<lm, transport>>,
           trace'.lost = trace.lost, trace'.cuts = trace.cuts,
           \/ egress.pc = "command" /\ trace'.refused = trace.refused
           \/ egress.pc = "publish" /\ trace'.refused = trace.refused \cup {egress.call}
    PROVE  EgressInv'
  <1>1. CallsInOnePlace
    BY DEF EgressInv
  <1>2. \A id : Claimed(id)' <=> Claimed(id)
    BY DEF Claimed
  <1>3. CallsInOnePlace'
    <2>1. (\A f \in Lanes!Frames(egress.inbox) :
             f.kind = "call" => f.id < lm.next /\ f.id # egress.call /\ ~Claimed(f.id))'
      <3>1. \A f \in Lanes!Frames(egress.inbox) : f.kind = "call" => f.id # 0
        <4>1. \A f \in Lanes!Frames(egress.inbox) : f \in Frame
          BY Fields DEF Lanes!Frames
        <4>. QED  BY <4>1, FrameFacts DEF CallIds
      <3>. QED  BY <1>1, <1>2, <3>1 DEF CallsInOnePlace
    <2>2. (\A c \in Lanes!Frames(egress.out) : c.kind \in {"call", "command"} /\ c.id < lm.next)'
      BY <1>1 DEF CallsInOnePlace
    <2>. QED  BY <1>1, <2>1, <2>2 DEF CallsInOnePlace
  <1>4. ClaimsArePublished'
    BY DEF EgressInv, ClaimsArePublished
  <1>5. BargeInLosesOneCall'
    <2>1. ASSUME NEW other \in 1..lm.next - 1
          PROVE  \/ Call(other) \in Lanes!Frames(egress'.inbox) \cup Lanes!Frames(egress'.out)
                 \/ egress'.call = other
                 \/ other \in trace'.lost \cup trace'.refused
      <3>1. egress.pc = "command" => Call(egress.call) \in Lanes!Frames(egress.out)
        BY <1>1 DEF CallsInOnePlace
      <3>. QED  BY <3>1 DEF EgressInv, BargeInLosesOneCall
    <2>. QED  BY <2>1 DEF EgressInv, BargeInLosesOneCall
  <1>. QED  BY <1>3, <1>4, <1>5 DEF EgressInv

-----------------------------------------------------------------------------
(***************************************************************************)
(* Every action keeps all of it.                                           *)
(***************************************************************************)
\* DispatchInv by what the actions touch: types, the path of the events, the model's side,
\* egress's side.
CoreInv == TypeOK /\ FlushKeepsNoInput /\ EventsReachModel /\ ModelInv /\ EgressInv

LEMMA CoreInvIsDispatchInv == CoreInv <=> DispatchInv
  BY DEF CoreInv, DispatchInv, ModelInv, EgressInv, ConclusionsFollow, BargeInLosesOneCallOnly

\* Egress is left alone.
LEMMA EgressKeeps ==
    ASSUME TypeOK, TypeOK', EgressInv, UNCHANGED egress, lm'.next = lm.next,
           \A id \in CallIds : "delivered" \in transport.tasks[id] => "delivered" \in transport'.tasks[id],
           trace'.lost = trace.lost, trace'.refused = trace.refused, trace'.cuts = trace.cuts
    PROVE  EgressInv'
  <1>1. Distinct(egress'.inbox)
    BY DEF EgressInv, CallsInOnePlace
  <1>. QED  BY <1>1, EgressRest

\* What ingress sends on to lm, of what it has taken off its lanes.
LEMMA FlushRest ==
    ASSUME FlushKeepsNoInput, ingress'.pc = "flush" => ingress'.plan = <<>>,
           Lanes!Frames(ingress'.inbox)
             \subseteq Lanes!Frames(ingress.inbox) \cup {f \in Frame : f.kind \in {"interrupt", "user"}}
    PROVE  FlushKeepsNoInput'
  BY DEF FlushKeepsNoInput

\* Upstream's frames hold no event.
LEMMA NothingFlushed ==
    ASSUME TypeOK, NEW s \in Seq(Frame), \A f \in Lanes!Frames(s) : f.kind \in {"interrupt", "user"}
    PROVE  Inputs(s) = <<>>
  <1>1. \A i \in 1..Len(s) : s[i].kind \notin {"input"}
    BY DEF Lanes!Frames
  <1>. QED  BY <1>1, EventsAbsent DEF Inputs

LEMMA UpstreamKeeps ==
    ASSUME CoreInv, UserSpeaks \/ BargeIn
    PROVE  CoreInv'
  <1>1. TypeOK /\ FlushKeepsNoInput /\ EventsReachModel /\ ModelInv /\ EgressInv
    BY DEF CoreInv
  <1>2. /\ TypeOK' /\ UNCHANGED <<lm, egress, transport, trace>>
        /\ ingress'.pc = ingress.pc /\ ingress'.plan = ingress.plan
    BY <1>1, UpstreamSends
  <1>3. PICK frame \in Frame : /\ frame.kind \in {"interrupt", "user"}
                               /\ ingress'.inbox = Append(ingress.inbox, frame)
    BY <1>1, UpstreamSends
  <1>4. Lanes!Frames(ingress'.inbox) = Lanes!Frames(ingress.inbox) \cup {frame}
    BY <1>1, <1>3, Fields, FramesAppend
  <1>5. FlushKeepsNoInput'
    BY <1>1, <1>2, <1>3, <1>4, FlushRest DEF FlushKeepsNoInput
  <1>6. EventsReachModel'
    BY <1>1, <1>2, EventsRest
  <1>7. ModelInv'
    <2>1. lm'.pc \in {"recv", "generate"} => lm'.calls = <<>>
      BY <1>1, <1>2 DEF ModelInv, ReportsFollowCalls
    <2>. QED  BY <1>1, <1>2, <2>1, ModelRest
  <1>8. EgressInv'
    BY <1>1, <1>2, EgressKeeps
  <1>. QED  BY <1>2, <1>5, <1>6, <1>7, <1>8 DEF CoreInv

\* ingress sends a frame to lm that upstream sent, or an Interrupt.
LEMMA LmIsSent ==
    ASSUME TypeOK, TypeOK', ModelInv, EgressInv, NEW frame \in Frame,
           lm'.inbox = Append(lm.inbox, frame), lm'.pc = lm.pc, lm'.convo = lm.convo,
           lm'.calls = lm.calls, lm'.next = lm.next,
           Lanes!Frames(ingress'.plan) \subseteq Lanes!Frames(ingress.plan),
           frame.kind = "input" => frame \in Lanes!Frames(ingress.plan),
           UNCHANGED <<egress, transport, trace>>
    PROVE  ModelInv' /\ EgressInv'
  <1>1. Lanes!Frames(lm'.inbox) = Lanes!Frames(lm.inbox) \cup {frame}
    BY Fields, FramesAppend
  <1>2. lm'.pc \in {"recv", "generate"} => lm'.calls = <<>>
    BY DEF ModelInv, ReportsFollowCalls
  <1>3. ModelInv'
    BY <1>1, <1>2, ModelRest
  <1>4. EgressInv'
    BY EgressKeeps
  <1>. QED  BY <1>3, <1>4

LEMMA IngressForwardsKeeps ==
    ASSUME CoreInv, IngressForwards
    PROVE  CoreInv'
  <1>. DEFINE frame == Head(ingress.inbox)
  <1>1. TypeOK /\ FlushKeepsNoInput /\ EventsReachModel /\ ModelInv /\ EgressInv
    BY DEF CoreInv
  <1>2. /\ TypeOK' /\ UNCHANGED <<egress, transport, trace>>
        /\ ingress.inbox # <<>> /\ ingress'.inbox = Tail(ingress.inbox)
        /\ ingress'.pc = ingress.pc /\ ingress'.plan = ingress.plan
        /\ frame \in Frame /\ lm'.inbox = Append(lm.inbox, frame)
        /\ lm'.pc = lm.pc /\ lm'.convo = lm.convo /\ lm'.calls = lm.calls /\ lm'.next = lm.next
    BY <1>1, IngressForwardsStep
  <1>3. Lanes!Frames(ingress.inbox) = {frame} \cup Lanes!Frames(ingress'.inbox)
    BY <1>1, <1>2, Fields, FramesTail
  <1>. HIDE DEF frame
  <1>4. frame.kind # "input"
    BY <1>1, <1>3 DEF FlushKeepsNoInput
  <1>5. FlushKeepsNoInput'
    BY <1>1, <1>2, <1>3, FlushRest DEF FlushKeepsNoInput
  <1>6. EventsReachModel'
    <2>1. Inputs(ingress'.plan) \in Seq(DispatchEvent)
      BY <1>1, <1>2, InputLanes
    <2>. QED  BY <1>1, <1>2, <1>4, <2>1, EventsSent
  <1>7. ModelInv' /\ EgressInv'
    BY <1>1, <1>2, <1>4, LmIsSent
  <1>. QED  BY <1>2, <1>5, <1>6, <1>7 DEF CoreInv

LEMMA IngressInterruptKeeps ==
    ASSUME CoreInv, IngressInterrupt
    PROVE  CoreInv'
  <1>1. TypeOK /\ FlushKeepsNoInput /\ EventsReachModel /\ ModelInv /\ EgressInv
    BY DEF CoreInv
  <1>2. /\ TypeOK' /\ UNCHANGED <<egress, transport, trace>>
        /\ Interrupted(ingress.inbox) /\ ingress'.inbox = AfterInterrupt(ingress.inbox)
        /\ ingress.plan = <<>> /\ ingress'.plan = ingress.plan
        /\ lm'.inbox = Append(lm.inbox, Interrupt)
        /\ lm'.pc = lm.pc /\ lm'.convo = lm.convo /\ lm'.calls = lm.calls /\ lm'.next = lm.next
    BY <1>1, IngressInterruptStep
  <1>3. Interrupt \in Frame /\ Interrupt.kind # "input"
    BY FrameFacts
  <1>4. Lanes!Frames(ingress'.inbox) \subseteq Lanes!Frames(ingress.inbox)
    BY <1>1, <1>2, Fields, AfterFacts
  <1>5. FlushKeepsNoInput'
    BY <1>1, <1>2, <1>4, FlushRest
  <1>6. EventsReachModel'
    <2>1. Inputs(ingress'.plan) \in Seq(DispatchEvent)
      BY <1>1, <1>2, InputLanes
    <2>. QED  BY <1>1, <1>2, <1>3, <2>1, EventsSent
  <1>7. ModelInv' /\ EgressInv'
    BY <1>1, <1>2, <1>3, LmIsSent
  <1>. QED  BY <1>2, <1>5, <1>6, <1>7 DEF CoreInv

LEMMA IngressFlushKeeps ==
    ASSUME CoreInv, IngressFlush
    PROVE  CoreInv'
  <1>1. TypeOK /\ FlushKeepsNoInput /\ EventsReachModel /\ ModelInv /\ EgressInv
    BY DEF CoreInv
  <1>2. /\ TypeOK' /\ UNCHANGED <<lm, egress, transport, trace>>
        /\ ingress.pc = "flush" /\ ingress'.pc = "recv"
        /\ Lanes!Frames(ingress'.plan) \subseteq Lanes!Frames(ingress.inbox)
        /\ Lanes!Frames(ingress'.inbox) \subseteq Lanes!Frames(ingress.inbox)
    BY <1>1, IngressFlushStep
  <1>3. \A f \in Lanes!Frames(ingress'.plan) : f.kind \in {"interrupt", "user"}
    BY <1>1, <1>2 DEF FlushKeepsNoInput
  <1>4. FlushKeepsNoInput'
    BY <1>1, <1>2, FlushRest
  <1>5. EventsReachModel'
    <2>1. ingress.plan = <<>> /\ ingress'.plan \in Seq(Frame)
      BY <1>1, <1>2 DEF FlushKeepsNoInput, TypeOK, IngressRecord
    <2>2. Inputs(ingress'.plan) = <<>>
      <3>. DEFINE plan == ingress'.plan
      <3>. HIDE DEF plan
      <3>1. plan \in Seq(Frame) /\ \A f \in Lanes!Frames(plan) : f.kind \in {"interrupt", "user"}
        BY <1>3, <2>1 DEF plan
      <3>2. Inputs(plan) = <<>>
        BY <1>1, <3>1, NothingFlushed
      <3>. QED  BY <3>2 DEF plan
    <2>3. Inputs(ingress.plan) = <<>>
      BY <2>1, EventsNone DEF Inputs
    <2>. QED  BY <1>1, <1>2, <2>2, <2>3, EventsRest
  <1>6. ModelInv'
    <2>1. lm'.pc \in {"recv", "generate"} => lm'.calls = <<>>
      BY <1>1, <1>2 DEF ModelInv, ReportsFollowCalls
    <2>. QED  BY <1>1, <1>2, <1>3, <2>1, ModelRest
  <1>7. EgressInv'
    BY <1>1, <1>2, EgressKeeps
  <1>. QED  BY <1>2, <1>4, <1>5, <1>6, <1>7 DEF CoreInv

LEMMA IngressSendsKeeps ==
    ASSUME CoreInv, IngressSends
    PROVE  CoreInv'
  <1>. DEFINE frame == Head(ingress.plan)
  <1>1. TypeOK /\ FlushKeepsNoInput /\ EventsReachModel /\ ModelInv /\ EgressInv
    BY DEF CoreInv
  <1>2. /\ TypeOK' /\ UNCHANGED <<egress, transport, trace>>
        /\ ingress.plan # <<>> /\ ingress'.plan = Tail(ingress.plan)
        /\ ingress'.pc = "recv" /\ ingress'.inbox = ingress.inbox
        /\ frame \in Frame /\ lm'.inbox = Append(lm.inbox, frame)
        /\ lm'.pc = lm.pc /\ lm'.convo = lm.convo /\ lm'.calls = lm.calls /\ lm'.next = lm.next
    BY <1>1, IngressSendsStep
  <1>3. Lanes!Frames(ingress.plan) = {frame} \cup Lanes!Frames(ingress'.plan)
    BY <1>1, <1>2, Fields, FramesTail
  <1>4. FlushKeepsNoInput'
    BY <1>1, <1>2, FlushRest
  <1>5. Inputs(ingress.plan)
          = IF frame.kind = "input" THEN <<frame.event>> \o Inputs(ingress'.plan) ELSE Inputs(ingress'.plan)
    <2>. DEFINE plan == ingress.plan
    <2>. HIDE DEF plan
    <2>1. plan \in Seq(Frame) /\ plan # <<>>
      BY <1>1, <1>2, Fields DEF plan
    <2>2. Inputs(plan) = IF Head(plan).kind = "input" THEN <<Head(plan).event>> \o Inputs(Tail(plan)) ELSE Inputs(Tail(plan))
      BY <2>1, InputsFirst
    <2>. QED  BY <1>2, <2>2 DEF plan
  <1>. HIDE DEF frame
  <1>6. EventsReachModel'
    <2>. DEFINE plan == ingress'.plan
    <2>1. plan \in Seq(Frame) /\ Carry(Frame, {"input"})
      BY <1>2, FrameFacts DEF TypeOK, IngressRecord
    <2>. HIDE DEF plan
    <2>2. Inputs(plan) \in Seq(DispatchEvent)
      BY <2>1, EventsType DEF Inputs
    <2>. QED  BY <1>1, <1>2, <1>5, <2>2, EventsSent DEF plan
  <1>7. ModelInv' /\ EgressInv'
    BY <1>1, <1>2, <1>3, LmIsSent
  <1>. QED  BY <1>2, <1>4, <1>6, <1>7 DEF CoreInv

LEMMA IngressInjectsKeeps ==
    ASSUME CoreInv, IngressInjects
    PROVE  CoreInv'
  <1>. DEFINE event == Head(transport.events)
              raw == Raw(event)
              input == Input(event)
  <1>1. TypeOK /\ FlushKeepsNoInput /\ EventsReachModel /\ ModelInv /\ EgressInv
    BY DEF CoreInv
  <1>2. /\ TypeOK' /\ UNCHANGED egress /\ event \in DispatchEvent
        /\ transport.events # <<>> /\ transport'.events = Tail(transport.events)
        /\ transport'.tasks = transport.tasks
        /\ ingress.plan = <<>> /\ ingress'.plan = <<input>>
        /\ ingress'.pc = "recv" /\ ingress'.inbox = ingress.inbox
        /\ lm'.inbox = Append(lm.inbox, raw)
        /\ lm'.pc = lm.pc /\ lm'.convo = lm.convo /\ lm'.calls = lm.calls /\ lm'.next = lm.next
        /\ trace'.taken = Append(trace.taken, event) /\ trace'.uncommitted = trace.uncommitted
        /\ trace'.lost = trace.lost /\ trace'.refused = trace.refused /\ trace'.cuts = trace.cuts
    BY <1>1, IngressInjectsStep
  <1>3. Lanes!Frames(transport.events) = {event} \cup Lanes!Frames(transport'.events)
    BY <1>1, <1>2, Fields, FramesTail
  <1>. HIDE DEF event
  <1>4. /\ raw \in Frame /\ raw.kind # "input"
        /\ input \in Frame /\ input.kind = "input" /\ input.event = event
    BY <1>2, FrameFacts
  <1>. HIDE DEF raw, input
  <1>5. Lanes!Frames(lm'.inbox) = Lanes!Frames(lm.inbox) \cup {raw}
    BY <1>1, <1>2, <1>4, Fields, FramesAppend
  <1>6. FlushKeepsNoInput'
    BY <1>1, <1>2, FlushRest
  <1>7. EventsReachModel'
    <2>1. Inputs(lm'.inbox) = Inputs(lm.inbox)
      <3>1. Inputs(Append(lm.inbox, raw)) = Inputs(lm.inbox)
        <4>. DEFINE box == lm.inbox
        <4>. HIDE DEF box
        <4>1. box \in Seq(Frame)
          BY <1>1, Fields DEF box
        <4>2. Inputs(Append(box, raw)) = Inputs(box)
          BY <1>4, <4>1, InputsAppend
        <4>. QED  BY <4>2 DEF box
      <3>. QED  BY <1>2, <3>1
    <2>2. Inputs(ingress.plan) = <<>>
      BY <1>2, EventsNone DEF Inputs
    <2>3. Inputs(ingress'.plan) = <<event>>
      <3>1. <<>> \in Seq(Frame) /\ Inputs(<<>>) = <<>> /\ Append(<<>>, input) = <<input>>
        BY EventsNone DEF Inputs
      <3>2. Inputs(Append(<<>>, input)) = Append(Inputs(<<>>), input.event)
        BY <1>4, <3>1, InputsAppend
      <3>3. Inputs(<<input>>) = <<event>>
        BY <1>4, <3>1, <3>2
      <3>. QED  BY <1>2, <3>3
    <2>. QED  BY <1>1, <1>2, <2>1, <2>2, <2>3, EventsInjected
  <1>8. ModelInv'
    <2>1. lm'.pc \in {"recv", "generate"} => lm'.calls = <<>>
      BY <1>1, <1>2 DEF ModelInv, ReportsFollowCalls
    <2>2. Reported(event)
      BY <1>1, <1>3 DEF ModelInv, ReportsFollowCalls
    <2>3. Lanes!Frames(ingress'.plan) = {input}
      BY <1>2 DEF Lanes!Frames
    <2>. QED  BY <1>1, <1>2, <1>3, <1>4, <1>5, <2>1, <2>2, <2>3, ModelRest
  <1>9. EgressInv'
    BY <1>1, <1>2, EgressKeeps
  <1>. QED  BY <1>2, <1>6, <1>7, <1>8, <1>9 DEF CoreInv

LEMMA SourceEndsKeeps ==
    ASSUME CoreInv, SourceEnds
    PROVE  CoreInv'
  <1>1. TypeOK /\ FlushKeepsNoInput /\ EventsReachModel /\ ModelInv /\ EgressInv
    BY DEF CoreInv
  <1>2. /\ TypeOK' /\ UNCHANGED <<lm, egress, transport, trace>>
        /\ ingress'.pc # "flush" /\ ingress'.inbox = ingress.inbox /\ ingress'.plan = ingress.plan
    BY <1>1, SourceEndsStep
  <1>3. FlushKeepsNoInput'
    BY <1>1, <1>2, FlushRest
  <1>4. EventsReachModel'
    BY <1>1, <1>2, EventsRest
  <1>5. ModelInv'
    <2>1. lm'.pc \in {"recv", "generate"} => lm'.calls = <<>>
      BY <1>1, <1>2 DEF ModelInv, ReportsFollowCalls
    <2>. QED  BY <1>1, <1>2, <2>1, ModelRest
  <1>6. EgressInv'
    BY <1>1, <1>2, EgressKeeps
  <1>. QED  BY <1>2, <1>3, <1>4, <1>5, <1>6 DEF CoreInv

\* What lm does leaves what ingress holds as it is.
LEMMA IngressKeeps ==
    ASSUME FlushKeepsNoInput, UNCHANGED ingress
    PROVE  FlushKeepsNoInput'
  BY DEF FlushKeepsNoInput

LEMMA LmTakesKeeps ==
    ASSUME CoreInv, LmTakes
    PROVE  CoreInv'
  <1>. DEFINE frame == Head(lm.inbox)
              noted == Noted(frame.event)
              user == Plain("user")
  <1>1. TypeOK /\ FlushKeepsNoInput /\ EventsReachModel /\ ModelInv /\ EgressInv
    BY DEF CoreInv
  <1>2. /\ TypeOK' /\ UNCHANGED <<ingress, transport, trace>>
        /\ lm.pc = "recv" /\ lm.inbox # <<>> /\ lm'.inbox = Tail(lm.inbox)
        /\ lm'.calls = lm.calls /\ lm'.next = lm.next /\ lm'.pc \in {"recv", "generate"}
        /\ \/ /\ frame.kind = "user" /\ lm'.convo = Append(lm.convo, user) /\ UNCHANGED egress
           \/ /\ frame.kind = "input" /\ lm'.convo = Append(lm.convo, noted) /\ UNCHANGED egress
           \/ /\ frame.kind = "event" /\ lm'.convo = lm.convo
              /\ egress'.inbox = Append(egress.inbox, frame)
              /\ egress'.pc = egress.pc /\ egress'.call = egress.call /\ egress'.out = egress.out
    BY <1>1, LmTakesStep
  <1>3. /\ Lanes!Frames(lm.inbox) = {frame} \cup Lanes!Frames(lm'.inbox)
        /\ frame \in Frame /\ lm'.inbox \in Seq(Frame)
    BY <1>1, <1>2, Fields, FramesTail
  <1>4. Inputs(lm.inbox)
          = IF frame.kind = "input" THEN <<frame.event>> \o Inputs(lm'.inbox) ELSE Inputs(lm'.inbox)
    <2>. DEFINE box == lm.inbox
    <2>. HIDE DEF box
    <2>1. box \in Seq(Frame) /\ box # <<>>
      BY <1>1, <1>2, Fields DEF box
    <2>2. Inputs(box) = IF Head(box).kind = "input" THEN <<Head(box).event>> \o Inputs(Tail(box)) ELSE Inputs(Tail(box))
      BY <2>1, InputsFirst
    <2>. QED  BY <1>2, <2>2 DEF box
  <1>5. /\ frame.kind = "input" => /\ frame.event \in DispatchEvent /\ noted \in Message
                                   /\ noted.kind \in {"result", "event"} /\ noted.event = frame.event
        /\ user \in Message /\ user.kind = "user"
    BY <1>3, FrameFacts
  <1>. HIDE DEF frame, noted, user
  <1>6. FlushKeepsNoInput'
    BY <1>1, <1>2, IngressKeeps
  <1>7. CASE frame.kind = "user"
    <2>1. lm'.convo = Append(lm.convo, user) /\ UNCHANGED egress
      BY <1>2, <1>7
    <2>2. EventsReachModel'
      <3>1. ToldModel' = ToldModel
        BY <1>1, <1>5, <2>1, ToldAppend
      <3>2. Inputs(lm.inbox) = Inputs(lm'.inbox)
        BY <1>4, <1>7
      <3>. QED  BY <1>1, <1>2, <3>1, <3>2 DEF EventsReachModel
    <2>3. ModelInv'
      BY <1>1, <1>2, <1>3, <1>5, <2>1, ModelNotes
    <2>4. EgressInv'
      BY <1>1, <1>2, <2>1, EgressKeeps
    <2>. QED  BY <1>2, <1>6, <2>2, <2>3, <2>4 DEF CoreInv
  <1>8. CASE frame.kind = "input"
    <2>1. lm'.convo = Append(lm.convo, noted) /\ UNCHANGED egress
      BY <1>2, <1>8
    <2>. DEFINE event == frame.event
    <2>2. /\ event \in DispatchEvent /\ noted \in Message /\ noted.kind \in {"result", "event"}
          /\ noted.event = event /\ Inputs(lm.inbox) = <<event>> \o Inputs(lm'.inbox)
      BY <1>4, <1>5, <1>8
    <2>3. Reported(event) /\ event.id \in CallIds
      BY <1>1, <1>3, <1>8, <2>2, FrameFacts DEF ModelInv, ReportsFollowCalls
    <2>. HIDE DEF event
    <2>4. EventsReachModel'
      <3>1. ToldModel' = Append(ToldModel, event)
        BY <1>1, <2>1, <2>2, ToldAppend
      <3>2. Inputs(lm'.inbox) \in Seq(DispatchEvent)
        <4>. DEFINE box == lm'.inbox
        <4>1. box \in Seq(Frame) /\ Carry(Frame, {"input"})
          BY <1>3, FrameFacts
        <4>. HIDE DEF box
        <4>2. Inputs(box) \in Seq(DispatchEvent)
          BY <4>1, EventsType DEF Inputs
        <4>. QED  BY <4>2 DEF box
      <3>. QED  BY <1>1, <1>2, <2>2, <3>1, <3>2, EventsNoted
    <2>5. ModelInv'
      BY <1>1, <1>2, <1>3, <2>1, <2>2, <2>3, ModelNotes
    <2>6. EgressInv'
      BY <1>1, <1>2, <2>1, EgressKeeps
    <2>. QED  BY <1>2, <1>6, <2>4, <2>5, <2>6 DEF CoreInv
  <1>9. CASE frame.kind = "event"
    <2>1. /\ lm'.convo = lm.convo /\ egress'.inbox = Append(egress.inbox, frame)
          /\ egress'.pc = egress.pc /\ egress'.call = egress.call /\ egress'.out = egress.out
      BY <1>2, <1>9
    <2>2. EventsReachModel'
      <3>1. Inputs(lm'.inbox) = Inputs(lm.inbox)
        BY <1>4, <1>9
      <3>. QED  BY <1>1, <1>2, <2>1, <3>1, EventsRest
    <2>3. ModelInv'
      <3>1. lm'.pc \in {"recv", "generate"} => lm'.calls = <<>>
        BY <1>1, <1>2 DEF ModelInv, ReportsFollowCalls
      <3>. QED  BY <1>1, <1>2, <1>3, <2>1, <3>1, ModelRest
    <2>4. EgressInv'
      BY <1>1, <1>2, <1>3, <1>9, <2>1, EgressHearsOther
    <2>. QED  BY <1>2, <1>6, <2>2, <2>3, <2>4 DEF CoreInv
  <1>. QED  BY <1>2, <1>7, <1>8, <1>9

LEMMA LmInterruptKeeps ==
    ASSUME CoreInv, LmInterrupt
    PROVE  CoreInv'
  <1>1. TypeOK /\ FlushKeepsNoInput /\ EventsReachModel /\ ModelInv /\ EgressInv
    BY DEF CoreInv
  <1>2. /\ TypeOK' /\ UNCHANGED <<ingress, transport>>
        /\ Interrupted(lm.inbox) /\ lm'.inbox = AfterInterrupt(lm.inbox)
        /\ lm'.pc = "recv" /\ lm'.calls = <<>> /\ lm'.convo = lm.convo /\ lm'.next = lm.next
        /\ trace'.uncommitted = trace.uncommitted \cup Lanes!Frames(lm.calls)
        /\ trace'.taken = trace.taken /\ trace'.lost = trace.lost /\ trace'.refused = trace.refused
        /\ trace'.cuts = trace.cuts
        /\ egress'.inbox = Append(egress.inbox, Interrupt)
        /\ egress'.pc = egress.pc /\ egress'.call = egress.call /\ egress'.out = egress.out
    BY <1>1, LmInterruptStep
  <1>3. FlushKeepsNoInput'
    BY <1>1, <1>2, IngressKeeps
  <1>4. /\ Lanes!Frames(lm'.inbox) \subseteq Lanes!Frames(lm.inbox)
        /\ Inputs(lm'.inbox) = Inputs(lm.inbox)
    <2>. DEFINE box == lm.inbox
    <2>. HIDE DEF box
    <2>1. box \in Seq(Frame) /\ Interrupted(box) /\ Carry(Frame, {"input"})
      BY <1>1, <1>2, Fields, FrameFacts DEF box
    <2>2. /\ Lanes!Frames(AfterInterrupt(box)) \subseteq Lanes!Frames(box)
          /\ Inputs(AfterInterrupt(box)) = Inputs(box)
      BY <2>1, AfterFacts
    <2>. QED  BY <1>2, <2>2 DEF box
  <1>5. EventsReachModel'
    BY <1>1, <1>2, <1>4, EventsRest
  <1>6. ModelInv'
    BY <1>1, <1>2, <1>4, ModelAbandons
  <1>7. EgressInv'
    BY <1>1, <1>2, FrameFacts, EgressHearsOther
  <1>. QED  BY <1>2, <1>3, <1>5, <1>6, <1>7 DEF CoreInv

LEMMA LmFailsKeeps ==
    ASSUME CoreInv, LmFails
    PROVE  CoreInv'
  <1>1. TypeOK /\ FlushKeepsNoInput /\ EventsReachModel /\ ModelInv /\ EgressInv
    BY DEF CoreInv
  <1>2. /\ TypeOK' /\ UNCHANGED <<ingress, egress, transport>>
        /\ lm'.inbox = lm.inbox
        /\ lm'.pc = "recv" /\ lm'.calls = <<>> /\ lm'.convo = lm.convo /\ lm'.next = lm.next
        /\ trace'.uncommitted = trace.uncommitted \cup Lanes!Frames(lm.calls)
        /\ trace'.taken = trace.taken /\ trace'.lost = trace.lost /\ trace'.refused = trace.refused
        /\ trace'.cuts = trace.cuts
    BY <1>1, LmFailsStep
  <1>3. FlushKeepsNoInput'
    BY <1>1, <1>2, IngressKeeps
  <1>4. EventsReachModel'
    BY <1>1, <1>2, EventsRest
  <1>5. ModelInv'
    BY <1>1, <1>2, ModelAbandons
  <1>6. EgressInv'
    BY <1>1, <1>2, EgressKeeps
  <1>. QED  BY <1>2, <1>3, <1>4, <1>5, <1>6 DEF CoreInv

LEMMA LmEmitsKeeps ==
    ASSUME CoreInv, LmStarts \/ LmText \/ LmFinal \/ LmFinishes
    PROVE  CoreInv'
  <1>1. TypeOK /\ FlushKeepsNoInput /\ EventsReachModel /\ ModelInv /\ EgressInv
    BY DEF CoreInv
  <1>2. /\ TypeOK' /\ UNCHANGED <<ingress, transport, trace>>
        /\ lm'.inbox = lm.inbox /\ lm'.convo = lm.convo /\ lm'.calls = lm.calls /\ lm'.next = lm.next
        /\ lm'.pc \notin {"recv", "generate"}
        /\ \E frame \in Frame : frame.kind # "call" /\ egress'.inbox = Append(egress.inbox, frame)
        /\ egress'.pc = egress.pc /\ egress'.call = egress.call /\ egress'.out = egress.out
    BY <1>1, LmEmitsStep
  <1>3. FlushKeepsNoInput'
    BY <1>1, <1>2, IngressKeeps
  <1>4. EventsReachModel'
    BY <1>1, <1>2, EventsRest
  <1>5. ModelInv'
    BY <1>1, <1>2, ModelRest
  <1>6. EgressInv'
    <2>1. PICK frame \in Frame : frame.kind # "call" /\ egress'.inbox = Append(egress.inbox, frame)
      BY <1>2
    <2>. QED  BY <1>1, <1>2, <2>1, EgressHearsOther
  <1>. QED  BY <1>2, <1>3, <1>4, <1>5, <1>6 DEF CoreInv

LEMMA LmCallsKeeps ==
    ASSUME CoreInv, LmCalls
    PROVE  CoreInv'
  <1>1. TypeOK /\ FlushKeepsNoInput /\ EventsReachModel /\ ModelInv /\ EgressInv
    BY DEF CoreInv
  <1>2. /\ TypeOK' /\ UNCHANGED <<ingress, transport, trace>>
        /\ lm.next \in CallIds /\ lm.pc = "stream" /\ lm'.pc = lm.pc
        /\ lm'.inbox = lm.inbox /\ lm'.convo = lm.convo /\ lm'.calls = Append(lm.calls, lm.next)
        /\ lm'.next = lm.next + 1
        /\ egress'.inbox = Append(egress.inbox, Call(lm.next))
        /\ egress'.pc = egress.pc /\ egress'.call = egress.call /\ egress'.out = egress.out
    BY <1>1, LmCallsStep
  <1>3. FlushKeepsNoInput'
    BY <1>1, <1>2, IngressKeeps
  <1>4. EventsReachModel'
    BY <1>1, <1>2, EventsRest
  <1>5. ModelInv'
    BY <1>1, <1>2, ModelCalls
  <1>6. EgressInv'
    BY <1>1, <1>2, EgressHearsCall
  <1>. QED  BY <1>2, <1>3, <1>4, <1>5, <1>6 DEF CoreInv

LEMMA LmCommitsKeeps ==
    ASSUME CoreInv, LmCommits
    PROVE  CoreInv'
  <1>. DEFINE turn == [kind |-> "assistant", calls |-> lm.calls]
  <1>1. TypeOK /\ FlushKeepsNoInput /\ EventsReachModel /\ ModelInv /\ EgressInv
    BY DEF CoreInv
  <1>2. /\ TypeOK' /\ UNCHANGED <<ingress, egress, transport, trace>>
        /\ turn \in Message /\ lm'.convo = Append(lm.convo, turn)
        /\ lm'.pc = "recv" /\ lm'.calls = <<>> /\ lm'.inbox = lm.inbox /\ lm'.next = lm.next
    BY <1>1, LmCommitsStep
  <1>3. turn = [kind |-> "assistant", calls |-> lm.calls] /\ turn.kind = "assistant"
    OBVIOUS
  <1>. HIDE DEF turn
  <1>4. FlushKeepsNoInput'
    BY <1>1, <1>2, IngressKeeps
  <1>5. EventsReachModel'
    <2>1. ToldModel' = ToldModel
      BY <1>1, <1>2, <1>3, ToldAppend
    <2>. QED  BY <1>1, <1>2, <2>1 DEF EventsReachModel
  <1>6. ModelInv'
    BY <1>1, <1>2, <1>3, ModelCommits
  <1>7. EgressInv'
    BY <1>1, <1>2, EgressKeeps
  <1>. QED  BY <1>2, <1>4, <1>5, <1>6, <1>7 DEF CoreInv

\* What egress and the transport do leaves what lm holds as it is.
LEMMA LmKeeps ==
    ASSUME CoreInv, TypeOK', UNCHANGED <<ingress, lm>>, transport'.events = transport.events,
           transport'.tasks = transport.tasks, trace'.taken = trace.taken,
           trace'.uncommitted = trace.uncommitted
    PROVE  FlushKeepsNoInput' /\ EventsReachModel' /\ ModelInv'
  <1>1. TypeOK /\ FlushKeepsNoInput /\ EventsReachModel /\ ModelInv
    BY DEF CoreInv
  <1>2. FlushKeepsNoInput'
    BY <1>1, IngressKeeps
  <1>3. EventsReachModel'
    BY <1>1, EventsRest
  <1>4. lm'.pc \in {"recv", "generate"} => lm'.calls = <<>>
    BY <1>1 DEF ModelInv, ReportsFollowCalls
  <1>. QED  BY <1>1, <1>2, <1>3, <1>4, ModelRest

LEMMA EgressTakesKeeps ==
    ASSUME CoreInv, EgressTakes
    PROVE  CoreInv'
  <1>. DEFINE frame == Head(egress.inbox)
  <1>1. TypeOK /\ EgressInv
    BY DEF CoreInv
  <1>2. /\ TypeOK' /\ UNCHANGED <<ingress, lm, transport, trace>>
        /\ egress.pc = "recv" /\ egress.inbox # <<>> /\ frame \in Frame
        /\ egress'.inbox = Tail(egress.inbox)
        /\ \/ /\ frame.kind = "call" /\ frame.id \in WellFormed
              /\ egress'.pc = "publish" /\ egress'.call = frame.id /\ egress'.out = egress.out
           \/ /\ frame.kind = "call" /\ frame.id \notin WellFormed
              /\ egress'.pc = egress.pc /\ egress'.call = egress.call
              /\ egress'.out = Append(egress.out, frame)
           \/ /\ frame.kind # "call"
              /\ egress'.pc = egress.pc /\ egress'.call = egress.call /\ egress'.out = egress.out
    BY <1>1, EgressTakesStep
  <1>3. FlushKeepsNoInput' /\ EventsReachModel' /\ ModelInv'
    BY <1>2, LmKeeps
  <1>4. CASE frame.kind = "call" /\ frame.id \in WellFormed
    <2>1. EgressInv'
      BY <1>1, <1>2, <1>4, EgressPublishes
    <2>. QED  BY <1>2, <1>3, <2>1 DEF CoreInv
  <1>5. CASE frame.kind = "call" /\ frame.id \notin WellFormed
    <2>1. EgressInv'
      BY <1>1, <1>2, <1>5, EgressForwards
    <2>. QED  BY <1>2, <1>3, <2>1 DEF CoreInv
  <1>6. CASE frame.kind # "call"
    <2>1. EgressInv'
      BY <1>1, <1>2, <1>6, EgressPasses
    <2>. QED  BY <1>2, <1>3, <2>1 DEF CoreInv
  <1>. QED  BY <1>4, <1>5, <1>6

LEMMA EgressInterruptKeeps ==
    ASSUME CoreInv, EgressInterrupt
    PROVE  CoreInv'
  <1>1. TypeOK /\ EgressInv
    BY DEF CoreInv
  <1>2. egress.pc # "recv" => egress.call \in CallIds
    BY <1>1, PublishedCall
  <1>3. /\ TypeOK' /\ UNCHANGED <<ingress, lm, transport>>
        /\ Interrupted(egress.inbox) /\ egress'.inbox = AfterInterrupt(egress.inbox)
        /\ egress'.pc = "recv" /\ egress'.call = 0 /\ egress'.out = egress.out
        /\ trace'.taken = trace.taken /\ trace'.uncommitted = trace.uncommitted
        /\ trace'.refused = trace.refused /\ trace'.cuts = trace.cuts + 1
        /\ trace'.lost = IF egress.pc = "publish" THEN trace.lost \cup {egress.call} ELSE trace.lost
    BY <1>1, <1>2, EgressInterruptStep
  <1>4. FlushKeepsNoInput' /\ EventsReachModel' /\ ModelInv'
    BY <1>3, LmKeeps
  <1>5. EgressInv'
    BY <1>1, <1>3, EgressIsInterrupted
  <1>. QED  BY <1>3, <1>4, <1>5 DEF CoreInv

LEMMA EgressClaimsKeeps ==
    ASSUME CoreInv, EgressClaims
    PROVE  CoreInv'
  <1>1. TypeOK /\ EgressInv
    BY DEF CoreInv
  <1>2. egress.call \in CallIds
    BY <1>1, PublishedCall DEF EgressClaims, Publishing
  <1>3. /\ TypeOK' /\ UNCHANGED <<ingress, lm, transport, trace>>
        /\ egress.pc = "publish" /\ egress'.pc = "claim" /\ egress'.call = egress.call
        /\ "delivered" \in transport.tasks[egress.call]
        /\ egress'.inbox = egress.inbox /\ egress'.out = Append(egress.out, Call(egress.call))
    BY <1>1, <1>2, EgressClaimsStep
  <1>4. FlushKeepsNoInput' /\ EventsReachModel' /\ ModelInv'
    BY <1>3, LmKeeps
  <1>5. EgressInv'
    BY <1>1, <1>3, EgressClaimsIt
  <1>. QED  BY <1>3, <1>4, <1>5 DEF CoreInv

LEMMA EgressCommandsKeeps ==
    ASSUME CoreInv, EgressCommands
    PROVE  CoreInv'
  <1>1. TypeOK /\ EgressInv
    BY DEF CoreInv
  <1>2. egress.call \in CallIds
    BY <1>1, PublishedCall DEF EgressCommands, Publishing
  <1>3. /\ TypeOK' /\ UNCHANGED <<ingress, lm, transport, trace>>
        /\ egress.pc = "claim" /\ egress'.pc = "command" /\ egress'.call = egress.call
        /\ egress'.inbox = egress.inbox /\ egress'.out = Append(egress.out, Command(egress.call))
    BY <1>1, <1>2, EgressCommandsStep
  <1>4. FlushKeepsNoInput' /\ EventsReachModel' /\ ModelInv'
    BY <1>3, LmKeeps
  <1>5. EgressInv'
    BY <1>1, <1>3, EgressCommandsIt
  <1>. QED  BY <1>3, <1>4, <1>5 DEF CoreInv

LEMMA EgressReturnsKeeps ==
    ASSUME CoreInv, EgressDone \/ SinkFails
    PROVE  CoreInv'
  <1>1. TypeOK /\ EgressInv
    BY DEF CoreInv
  <1>2. egress.pc # "recv" => egress.call \in CallIds
    BY <1>1, PublishedCall
  <1>3. /\ TypeOK' /\ UNCHANGED <<ingress, lm, transport>>
        /\ egress'.pc = "recv" /\ egress'.call = 0
        /\ egress'.inbox = egress.inbox /\ egress'.out = egress.out
        /\ trace'.taken = trace.taken /\ trace'.uncommitted = trace.uncommitted
        /\ trace'.lost = trace.lost /\ trace'.cuts = trace.cuts
        /\ \/ egress.pc = "command" /\ trace'.refused = trace.refused
           \/ egress.pc = "publish" /\ trace'.refused = trace.refused \cup {egress.call}
    BY <1>1, <1>2, EgressReturnsStep
  <1>4. FlushKeepsNoInput' /\ EventsReachModel' /\ ModelInv'
    BY <1>3, LmKeeps
  <1>5. EgressInv'
    BY <1>1, <1>3, EgressReturns
  <1>. QED  BY <1>3, <1>4, <1>5 DEF CoreInv

LEMMA SinkDeliversKeeps ==
    ASSUME CoreInv, SinkDelivers
    PROVE  CoreInv'
  <1>1. TypeOK /\ FlushKeepsNoInput /\ EventsReachModel /\ ModelInv /\ EgressInv
    BY DEF CoreInv
  <1>2. egress.call \in CallIds /\ egress.call < lm.next
    BY <1>1, PublishedCall DEF SinkDelivers
  <1>3. /\ TypeOK' /\ UNCHANGED <<ingress, lm, egress, trace>>
        /\ transport'.events = transport.events
        /\ transport'.tasks[egress.call] = {"delivered"} /\ transport.tasks[egress.call] = {}
        /\ \A id \in CallIds : id # egress.call => transport'.tasks[id] = transport.tasks[id]
    BY <1>1, <1>2, SinkDeliversStep
  <1>4. \A id \in CallIds : transport.tasks[id] # {} => transport'.tasks[id] # {}
    BY <1>3
  <1>5. \A id \in CallIds : transport'.tasks[id] # {} => id < lm.next
    BY <1>1, <1>2, <1>3 DEF ModelInv, ReportsFollowCalls
  <1>6. \A id \in CallIds : "delivered" \in transport.tasks[id] => "delivered" \in transport'.tasks[id]
    BY <1>3
  <1>7. FlushKeepsNoInput' /\ EventsReachModel'
    BY <1>1, <1>3, IngressKeeps, EventsRest
  <1>8. ModelInv'
    BY <1>1, <1>3, <1>4, <1>5, ModelReported
  <1>9. EgressInv'
    BY <1>1, <1>3, <1>6, EgressKeeps
  <1>. QED  BY <1>3, <1>7, <1>8, <1>9 DEF CoreInv

LEMMA BackendReportsKeeps ==
    ASSUME CoreInv, BackendReports
    PROVE  CoreInv'
  <1>1. TypeOK /\ FlushKeepsNoInput /\ EventsReachModel /\ ModelInv /\ EgressInv
    BY DEF CoreInv
  <1>2. TypeOK' /\ UNCHANGED <<ingress, lm, egress, trace>>
    BY <1>1, BackendReportsStep
  <1>3. PICK event \in DispatchEvent :
          /\ transport.tasks[event.id] # {} /\ transport'.events = Append(transport.events, event)
          /\ \A id \in CallIds :
               /\ transport.tasks[id] \subseteq transport'.tasks[id]
               /\ transport.tasks[id] = {} => transport'.tasks[id] = {}
    BY <1>1, BackendReportsStep
  <1>4. Lanes!Frames(transport'.events) = Lanes!Frames(transport.events) \cup {event}
    BY <1>1, <1>3, Fields, FramesAppend
  <1>5. \A id \in CallIds : transport.tasks[id] # {} => transport'.tasks[id] # {}
    BY <1>3
  <1>6. \A id \in CallIds : transport'.tasks[id] # {} => id < lm.next
    BY <1>1, <1>3 DEF ModelInv, ReportsFollowCalls
  <1>7. \A id \in CallIds : "delivered" \in transport.tasks[id] => "delivered" \in transport'.tasks[id]
    BY <1>3
  <1>8. FlushKeepsNoInput' /\ EventsReachModel'
    BY <1>1, <1>2, IngressKeeps, EventsRest
  <1>9. ModelInv'
    <2>1. Reported(event)
      BY <1>3 DEF Reported
    <2>. QED  BY <1>1, <1>2, <1>4, <1>5, <1>6, <2>1, ModelReported
  <1>10. EgressInv'
    BY <1>1, <1>2, <1>7, EgressKeeps
  <1>. QED  BY <1>2, <1>8, <1>9, <1>10 DEF CoreInv

\* Nothing is under way at first.
LEMMA DispatchStarts ==
    ASSUME Init
    PROVE  CoreInv
  <1>1. /\ ingress = [pc |-> "recv", inbox |-> <<>>, plan |-> <<>>, open |-> TRUE]
        /\ lm = [pc |-> "recv", inbox |-> <<>>, convo |-> <<Plain("system")>>,
                 reply |-> FALSE, calls |-> <<>>, next |-> 1]
        /\ egress = [pc |-> "recv", inbox |-> <<>>, call |-> 0, out |-> <<>>]
        /\ transport = [tasks |-> [id \in CallIds |-> {}], events |-> <<>>]
        /\ trace = [taken |-> <<>>, uncommitted |-> {}, lost |-> {}, refused |-> {}, cuts |-> 0]
    BY DEF Init
  <1>2. Plain("system") \in Message /\ Plain("system").kind = "system"
    BY FrameFacts DEF Plain
  <1>4. TypeOK
    <2>1. ingress \in IngressRecord
      BY <1>1 DEF IngressRecord, IngressStates
    <2>2. lm \in LmRecord
      <3>1. <<Plain("system")>> \in Seq(Message)
        BY <1>2
      <3>2. 1 \in 1..MaxCalls + 1
        BY DispatchAssumption
      <3>. QED  BY <1>1, <3>1, <3>2 DEF LmRecord, LmStates
    <2>3. egress \in EgressRecord
      BY <1>1, DispatchAssumption DEF EgressRecord, EgressStates
    <2>4. transport \in TransportRecord
      BY <1>1 DEF TransportRecord
    <2>5. trace \in TraceRecord
      BY <1>1 DEF TraceRecord
    <2>. QED  BY <2>1, <2>2, <2>3, <2>4, <2>5 DEF TypeOK
  <1>5. Lanes!Frames(<<>>) = {}
    BY DEF Lanes!Frames
  <1>6. FlushKeepsNoInput
    BY <1>1, <1>5 DEF FlushKeepsNoInput
  <1>7. EventsReachModel
    <2>1. Inputs(<<>>) = <<>>
      BY EventsNone DEF Inputs
    <2>2. ToldModel = <<>>
      <3>. DEFINE convo == lm.convo
      <3>1. /\ convo \in Seq(Message) /\ Len(convo) = 1
            /\ \A i \in 1..Len(convo) : convo[i].kind \notin {"result", "event"}
        BY <1>1, <1>2
      <3>. HIDE DEF convo
      <3>2. EventsIn(convo, {"result", "event"}) = <<>>
        BY <3>1, EventsAbsent
      <3>. QED  BY <3>2 DEF ToldModel, convo
    <2>. QED  BY <1>1, <2>1, <2>2 DEF EventsReachModel
  <1>8. ModelInv
    <2>1. 1..lm.next - 1 = {}
      BY <1>1
    <2>2. ReportsFollowCalls
      BY <1>1, <1>5, <2>1 DEF ReportsFollowCalls
    <2>3. ResultsFollowCalls
      BY <1>1, <1>2 DEF ResultsFollowCalls
    <2>. QED  BY <2>2, <2>3 DEF ModelInv
  <1>9. EgressInv
    <2>1. 1..lm.next - 1 = {}
      BY <1>1
    <2>2. CallsInOnePlace
      BY <1>1, <1>5 DEF CallsInOnePlace, Distinct
    <2>3. ClaimsArePublished
      BY <1>1 DEF ClaimsArePublished
    <2>4. BargeInLosesOneCall
      <3>1. Cardinality({}) = 0
        BY FS_EmptySet
      <3>. QED  BY <1>1, <2>1, <3>1 DEF BargeInLosesOneCall
    <2>. QED  BY <2>2, <2>3, <2>4 DEF EgressInv
  <1>. QED  BY <1>4, <1>6, <1>7, <1>8, <1>9 DEF CoreInv

LEMMA NothingMoves ==
    ASSUME CoreInv, UNCHANGED vars
    PROVE  CoreInv'
  <1>1. TypeOK /\ FlushKeepsNoInput /\ EventsReachModel /\ ModelInv /\ EgressInv
    BY DEF CoreInv
  <1>2. UNCHANGED <<ingress, lm, egress, transport, trace>>
    BY DEF vars
  <1>3. TypeOK'
    BY <1>1, <1>2 DEF TypeOK
  <1>4. FlushKeepsNoInput' /\ EventsReachModel' /\ ModelInv'
    BY <1>2, <1>3, LmKeeps
  <1>5. EgressInv'
    BY <1>1, <1>2, <1>3, EgressKeeps
  <1>. QED  BY <1>3, <1>4, <1>5 DEF CoreInv

\* However many utterances, Interrupts and calls, and whichever calls parse: all that
\* follows is kept by every step of upstream, ingress, lm, egress and the transport.
THEOREM DispatchInvariant == Spec => []DispatchInv
  <1>1. Init => CoreInv
    BY DispatchStarts
  <1>2. CoreInv /\ [Next]_vars => CoreInv'
    <2>. SUFFICES ASSUME CoreInv, [Next]_vars PROVE CoreInv'
      OBVIOUS
    <2>1. CASE UserSpeaks \/ BargeIn
      BY <2>1, UpstreamKeeps
    <2>2. CASE IngressNext
      BY <2>2, IngressForwardsKeeps, IngressInterruptKeeps, IngressFlushKeeps, IngressSendsKeeps,
         IngressInjectsKeeps, SourceEndsKeeps DEF IngressNext
    <2>3. CASE LmLoop
      BY <2>3, LmTakesKeeps, LmInterruptKeeps, LmCommitsKeeps DEF LmLoop
    <2>4. CASE Model
      BY <2>4, LmEmitsKeeps, LmFailsKeeps, LmCallsKeeps DEF Model
    <2>5. CASE EgressLoop
      BY <2>5, EgressTakesKeeps, EgressInterruptKeeps, EgressCommandsKeeps, EgressReturnsKeeps DEF EgressLoop
    <2>6. CASE SinkReturns
      BY <2>6, EgressClaimsKeeps, EgressReturnsKeeps DEF SinkReturns
    <2>7. CASE SinkDelivers
      BY <2>7, SinkDeliversKeeps
    <2>8. CASE BackendReports
      BY <2>8, BackendReportsKeeps
    <2>9. CASE UNCHANGED vars
      BY <2>9, NothingMoves
    <2>. QED  BY <2>1, <2>2, <2>3, <2>4, <2>5, <2>6, <2>7, <2>8, <2>9 DEF Next
  <1>3. CoreInv => DispatchInv
    BY CoreInvIsDispatchInv
  <1>. QED  BY <1>1, <1>2, <1>3, PTL DEF Spec

\* A claim downstream follows a dispatch that was accepted by the transport, a command its
\* call, and a result in the conversation the turn that made the call, unless that turn was
\* abandoned (DispatchEgress::perform, LmStage::append).
THEOREM ConclusionsHold == Spec => []ConclusionsFollow
  <1>1. DispatchInv => ConclusionsFollow
    BY DEF DispatchInv
  <1>. QED  BY <1>1, DispatchInvariant, PTL

\* Whatever Interrupts cut through: every event taken from the source is told to the model,
\* once and in order, and an Interrupt loses at most the call that egress was publishing.
THEOREM BargeInCostsOneCall == Spec => []BargeInLosesOneCallOnly
  <1>1. DispatchInv => BargeInLosesOneCallOnly
    BY DEF DispatchInv
  <1>. QED  BY <1>1, DispatchInvariant, PTL

HIDE DispatchAssumption

USE HermesAssumption, WebhookAssumption, CapAssumption

-----------------------------------------------------------------------------
(***************************************************************************)
(* Hermes: the records of the sink and the poller.                         *)
(***************************************************************************)
LEMMA Idle ==
    /\ NoEvent \in EventRecord /\ NoEvent.type = "none"
    /\ IdleSink \in SinkRecord /\ IdleSink.pc = "idle" /\ IdleSink.event = NoEvent
    /\ IdleSink.history = <<>> /\ IdleSink.run = 0
    /\ Resting \in PollerRecord /\ Resting.pc = "idle" /\ Resting.todo = {} /\ Resting.event = NoEvent
  <1>1. NoEvent \in EventRecord /\ NoEvent.type = "none"
    BY DEF NoEvent, Event, EventRecord, EventTypes
  <1>2. <<>> \in TurnsOfHistory
    BY DEF TurnsOfHistory
  <1>3. IdleSink \in SinkRecord /\ IdleSink.pc = "idle" /\ IdleSink.event = NoEvent
        /\ IdleSink.history = <<>> /\ IdleSink.run = 0
    BY <1>1, <1>2 DEF IdleSink, SinkRecord
  <1>4. Resting \in PollerRecord /\ Resting.pc = "idle" /\ Resting.todo = {} /\ Resting.event = NoEvent
    BY <1>1 DEF Resting, PollerRecord
  <1>. QED  BY <1>1, <1>3, <1>4

LEMMA SinkMoves ==
    \A s \in SinkRecord, pc \in {"idle", "posting", "posted", "emit", "sending"} :
        LET t == [s EXCEPT !.pc = pc] IN
        t \in SinkRecord /\ t.pc = pc /\ t.kind = s.kind /\ t.task = s.task /\ t.event = s.event
  BY DEF SinkRecord

LEMMA SinkSays ==
    \A event \in EventRecord :
        LET t == [IdleSink EXCEPT !.pc = "emit", !.event = event] IN
        t \in SinkRecord /\ t.pc = "emit" /\ t.event = event
  <1>. TAKE event \in EventRecord
  <1>. DEFINE a == [IdleSink EXCEPT !.pc = "emit"]
  <1>1. a \in SinkRecord /\ a.pc = "emit"
    BY Idle, SinkMoves
  <1>. HIDE DEF a
  <1>2. [a EXCEPT !.event = event] \in SinkRecord /\ [a EXCEPT !.event = event].pc = "emit"
        /\ [a EXCEPT !.event = event].event = event
    BY ONLY <1>1, event \in EventRecord DEF SinkRecord
  <1>. QED  BY <1>2 DEF a

LEMMA SinkHasRun ==
    \A s \in SinkRecord, run \in 0..MaxRuns :
        LET t == [s EXCEPT !.pc = "posted", !.run = run] IN
        t \in SinkRecord /\ t.pc = "posted" /\ t.kind = s.kind /\ t.task = s.task /\ t.run = run
  <1>. TAKE s \in SinkRecord, run \in 0..MaxRuns
  <1>. DEFINE a == [s EXCEPT !.pc = "posted"]
  <1>1. a \in SinkRecord /\ a.pc = "posted" /\ a.kind = s.kind /\ a.task = s.task
    BY SinkMoves
  <1>. HIDE DEF a
  <1>2. [a EXCEPT !.run = run] \in SinkRecord /\ [a EXCEPT !.run = run].pc = "posted"
        /\ [a EXCEPT !.run = run].kind = s.kind /\ [a EXCEPT !.run = run].task = s.task
        /\ [a EXCEPT !.run = run].run = run
    BY ONLY <1>1, run \in 0..MaxRuns DEF SinkRecord
  <1>. QED  BY <1>2 DEF a

LEMMA SinkCreates ==
    \A task \in 0..MaxTasks :
        LET t == [IdleSink EXCEPT !.pc = "posting", !.kind = "create", !.task = task] IN
        t \in SinkRecord /\ t.pc = "posting" /\ t.kind = "create" /\ t.task = task
  <1>. TAKE task \in 0..MaxTasks
  <1>. DEFINE a == [IdleSink EXCEPT !.pc = "posting"]
              b == [a EXCEPT !.kind = "create"]
  <1>1. a \in SinkRecord /\ a.pc = "posting"
    BY Idle, SinkMoves
  <1>. HIDE DEF a
  <1>2. b \in SinkRecord /\ b.pc = "posting" /\ b.kind = "create"
    BY ONLY <1>1 DEF SinkRecord
  <1>. HIDE DEF b
  <1>3. [b EXCEPT !.task = task] \in SinkRecord /\ [b EXCEPT !.task = task].pc = "posting"
        /\ [b EXCEPT !.task = task].kind = "create" /\ [b EXCEPT !.task = task].task = task
    BY ONLY <1>2, task \in 0..MaxTasks DEF SinkRecord
  <1>. QED  BY <1>3 DEF a, b

LEMMA PollerMovesOn ==
    \A s \in PollerRecord, pc \in {"idle", "next", "asking", "answered", "emit", "sending", "stopped"} :
        LET t == [s EXCEPT !.pc = pc] IN
        t \in PollerRecord /\ t.pc = pc /\ t.todo = s.todo /\ t.task = s.task /\ t.run = s.run
  BY DEF PollerRecord

LEMMA PollerTodo ==
    \A s \in PollerRecord, pc \in {"idle", "next", "asking", "answered", "emit", "sending", "stopped"},
       todo \in SUBSET (Tasks \X (1..MaxRuns)) :
        LET t == [s EXCEPT !.pc = pc, !.todo = todo] IN t \in PollerRecord /\ t.pc = pc /\ t.todo = todo
  <1>. TAKE s \in PollerRecord, pc \in {"idle", "next", "asking", "answered", "emit", "sending", "stopped"},
            todo \in SUBSET (Tasks \X (1..MaxRuns))
  <1>. DEFINE a == [s EXCEPT !.pc = pc]
  <1>1. a \in PollerRecord /\ a.pc = pc
    BY PollerMovesOn
  <1>. HIDE DEF a
  <1>2. [a EXCEPT !.todo = todo] \in PollerRecord /\ [a EXCEPT !.todo = todo].pc = pc
        /\ [a EXCEPT !.todo = todo].todo = todo
    BY ONLY <1>1, todo \in SUBSET (Tasks \X (1..MaxRuns)) DEF PollerRecord
  <1>. QED  BY <1>2 DEF a

-----------------------------------------------------------------------------
(***************************************************************************)
(* Hermes: the ring of a task.                                             *)
(***************************************************************************)
LEMMA EventRuns == \A e \in EventRecord : e.run \in Nat /\ e.task \in Nat
  BY DEF EventRecord

LEMMA PushOrder ==
    ASSUME NEW ring \in Seq(EventRecord), NEW e \in EventRecord
    PROVE  /\ Push(ring, e) \in Seq(EventRecord)
           /\ Len(ring) \in Nat /\ DOMAIN ring = 1..Len(ring)
           /\ \A i \in DOMAIN ring : ring[i] \in EventRecord /\ ring[i].run \in Nat
           /\ \E d \in {0, 1} :
                /\ Len(ring) - d \in Nat /\ DOMAIN Push(ring, e) = 1..(Len(ring) - d + 1)
                /\ Push(ring, e)[Len(ring) - d + 1] = e
                /\ \A j \in 1..(Len(ring) - d) : j + d \in DOMAIN ring /\ Push(ring, e)[j] = ring[j + d]
  <1>1. /\ Len(ring) \in Nat /\ DOMAIN ring = 1..Len(ring)
        /\ \A i \in DOMAIN ring : ring[i] \in EventRecord /\ ring[i].run \in Nat
    BY EventRuns
  <1>. DEFINE rest == IF Len(ring) = RingCapacity THEN Tail(ring) ELSE ring
  <1>2. PICK d \in {0, 1} : /\ rest \in Seq(EventRecord) /\ Len(rest) = Len(ring) - d /\ Len(rest) \in Nat
                            /\ \A j \in 1..Len(rest) : j + d \in 1..Len(ring) /\ rest[j] = ring[j + d]
    <2>1. CASE Len(ring) = RingCapacity
      <3>1. ring # <<>> /\ Len(ring) >= 1
        BY <1>1, <2>1
      <3>2. /\ Tail(ring) \in Seq(EventRecord) /\ Len(Tail(ring)) = Len(ring) - 1 /\ Len(ring) - 1 \in Nat
            /\ \A j \in 1..(Len(ring) - 1) : j + 1 \in 1..Len(ring) /\ Tail(ring)[j] = ring[j + 1]
        BY <1>1, <3>1
      <3>. QED  BY <2>1, <3>2
    <2>2. CASE Len(ring) # RingCapacity
      <3>1. rest = ring
        BY <2>2
      <3>2. Len(ring) = Len(ring) - 0 /\ \A j \in 1..Len(ring) : j + 0 = j
        BY ONLY Len(ring) \in Nat, <1>1
      <3>. HIDE DEF rest
      <3>. QED  BY <1>1, <3>1, <3>2
    <2>. QED  BY <2>1, <2>2
  <1>. HIDE DEF rest
  <1>3. /\ Append(rest, e) \in Seq(EventRecord) /\ DOMAIN Append(rest, e) = 1..(Len(rest) + 1)
        /\ Append(rest, e)[Len(rest) + 1] = e
        /\ \A j \in 1..Len(rest) : Append(rest, e)[j] = rest[j]
    BY <1>2
  <1>4. Push(ring, e) = Append(rest, e)
    BY DEF Push, rest
  <1>. QED  BY <1>1, <1>2, <1>3, <1>4

\* Accepted is told of no run, and changes nothing of what is told of runs.
LEMMA AcceptedPushed ==
    ASSUME NEW ring \in Seq(EventRecord), NEW e \in EventRecord, e.type = "accepted"
    PROVE  /\ Ordered(ring) => Ordered(Push(ring, e))
           /\ \A run \in Nat : Before(ring, run) => Before(Push(ring, e), run)
           /\ \A run \in Nat : UpTo(ring, run) => UpTo(Push(ring, e), run)
  <1>. DEFINE longer == Push(ring, e)
  <1>1. PICK d \in {0, 1} :
                /\ Len(ring) - d \in Nat /\ DOMAIN longer = 1..(Len(ring) - d + 1)
                /\ longer[Len(ring) - d + 1] = e
                /\ \A j \in 1..(Len(ring) - d) : j + d \in DOMAIN ring /\ longer[j] = ring[j + d]
    BY PushOrder
  <1>. HIDE DEF longer
  <1>2. \A i \in DOMAIN longer : longer[i].type # "accepted" =>
          i \in 1..(Len(ring) - d) /\ i + d \in DOMAIN ring /\ longer[i] = ring[i + d]
    <2>1. \A i \in 1..(Len(ring) - d + 1) : i \in 1..(Len(ring) - d) \/ i = Len(ring) - d + 1
      BY <1>1
    <2>. QED  BY <1>1, <2>1
  <1>3. \A i, j \in 1..(Len(ring) - d) : i < j => i + d < j + d
    BY <1>1
  <1>4. Ordered(ring) => Ordered(longer)
    BY <1>2, <1>3 DEF Ordered
  <1>5. \A run \in Nat : (Before(ring, run) => Before(longer, run)) /\ (UpTo(ring, run) => UpTo(longer, run))
    BY <1>2 DEF Before, UpTo
  <1>. QED  BY <1>4, <1>5 DEF longer

\* What the poller tells next of a task follows what it has told.
LEMMA ReportPushed ==
    ASSUME NEW ring \in Seq(EventRecord), NEW e \in EventRecord, e.type # "accepted",
           Ordered(ring), UpTo(ring, e.run)
    PROVE  /\ Ordered(Push(ring, e))
           /\ \A run \in Nat : e.run < run => Before(Push(ring, e), run) /\ UpTo(Push(ring, e), run)
           /\ ~Terminal(e) => UpTo(Push(ring, e), e.run)
           /\ \A i \in DOMAIN Push(ring, e) : Push(ring, e)[i].type # "accepted" => Push(ring, e)[i].run <= e.run
  <1>. DEFINE longer == Push(ring, e)
  <1>1. PICK d \in {0, 1} :
                /\ Len(ring) - d \in Nat /\ DOMAIN longer = 1..(Len(ring) - d + 1)
                /\ longer[Len(ring) - d + 1] = e
                /\ \A j \in 1..(Len(ring) - d) : j + d \in DOMAIN ring /\ longer[j] = ring[j + d]
    BY PushOrder
  <1>2. e.run \in Nat /\ \A i \in DOMAIN ring : ring[i].run \in Nat
    BY PushOrder, EventRuns
  <1>. HIDE DEF longer
  <1>3. \A i \in DOMAIN longer : \/ i \in 1..(Len(ring) - d) /\ i + d \in DOMAIN ring /\ longer[i] = ring[i + d]
                                 \/ i = Len(ring) - d + 1 /\ longer[i] = e
    <2>1. \A i \in 1..(Len(ring) - d + 1) : i \in 1..(Len(ring) - d) \/ i = Len(ring) - d + 1
      BY <1>1
    <2>. QED  BY <1>1, <2>1
  <1>4. \A i \in DOMAIN longer : longer[i].run \in Nat /\ (longer[i].type # "accepted" => longer[i].run <= e.run)
    BY <1>2, <1>3 DEF UpTo
  <1>5. Ordered(longer)
    <2>. SUFFICES ASSUME NEW i \in DOMAIN longer, NEW j \in DOMAIN longer, i < j,
                         longer[i].type # "accepted", longer[j].type # "accepted"
                  PROVE  longer[i].run <= longer[j].run /\ (Terminal(longer[i]) => longer[i].run # longer[j].run)
      BY DEF Ordered
    <2>1. i \in 1..(Len(ring) - d) /\ i + d \in DOMAIN ring /\ longer[i] = ring[i + d]
      BY <1>1, <1>3
    <2>2. CASE j \in 1..(Len(ring) - d) /\ j + d \in DOMAIN ring /\ longer[j] = ring[j + d]
      <3>1. i + d < j + d
        BY <1>1, <2>1, <2>2
      <3>. QED  BY <2>1, <2>2, <3>1 DEF Ordered
    <2>3. CASE longer[j] = e
      BY <2>1, <2>3 DEF UpTo
    <2>. QED  BY <1>3, <2>2, <2>3
  <1>6. \A run \in Nat : e.run < run => Before(longer, run) /\ UpTo(longer, run)
    <2>1. \A run \in Nat : \A i \in DOMAIN longer : e.run < run /\ longer[i].type # "accepted" =>
            longer[i].run < run /\ longer[i].run <= run /\ longer[i].run # run
      BY <1>2, <1>4
    <2>. QED  BY <2>1 DEF Before, UpTo
  <1>7. ~Terminal(e) => UpTo(longer, e.run)
    BY <1>3, <1>4 DEF UpTo
  <1>. QED  BY <1>4, <1>5, <1>6, <1>7 DEF longer

-----------------------------------------------------------------------------
(***************************************************************************)
(* The event channel.                                                      *)
(***************************************************************************)
LEMMA LineGrows ==
    ASSUME NEW S, NEW l \in Seq(S), NEW from, NEW event, [from |-> from, event |-> event] \in S
    PROVE  /\ Enqueued(l, from, event) \in Seq(S)
           /\ \A i \in DOMAIN Enqueued(l, from, event) :
                \/ Enqueued(l, from, event)[i].event = event
                \/ i \in DOMAIN l /\ Enqueued(l, from, event)[i] = l[i]
  <1>. DEFINE entry == [from |-> from, event |-> event]
  <1>1. entry \in S /\ entry.event = event
    OBVIOUS
  <1>. HIDE DEF entry
  <1>2. /\ Append(l, entry) \in Seq(S) /\ DOMAIN l = 1..Len(l) /\ Len(l) \in Nat
        /\ DOMAIN Append(l, entry) = 1..(Len(l) + 1)
        /\ Append(l, entry)[Len(l) + 1] = entry /\ \A i \in 1..Len(l) : Append(l, entry)[i] = l[i]
    BY <1>1
  <1>3. \A i \in 1..(Len(l) + 1) : i \in 1..Len(l) \/ i = Len(l) + 1
    BY <1>2
  <1>4. Enqueued(l, from, event) = Append(l, entry)
    BY DEF Enqueued, entry
  <1>. QED  BY <1>1, <1>2, <1>3, <1>4

\* The source takes the first.
LEMMA LineTaken ==
    ASSUME NEW S, NEW l \in Seq(S), l # <<>>
    PROVE  /\ Tail(l) \in Seq(S) /\ 1 \in DOMAIN l /\ l[1] \in S
           /\ \A i \in DOMAIN Tail(l) : i + 1 \in DOMAIN l /\ Tail(l)[i] = l[i + 1]
  OBVIOUS

\* A sender leaves the line, and nobody joins it.
LEMMA LineWithdrawn ==
    ASSUME NEW S, NEW l \in Seq(S), NEW from
    PROVE  /\ Withdrawn(l, from) \in Seq(S)
           /\ \A i \in DOMAIN Withdrawn(l, from) : \E j \in DOMAIN l : Withdrawn(l, from)[i] = l[j]
  <1>1. CASE ~Waits(l, from)
    BY <1>1 DEF Withdrawn
  <1>2. CASE Waits(l, from)
    <2>. DEFINE k == CHOOSE i \in DOMAIN l : i > Cap /\ l[i].from = from
    <2>1. k \in DOMAIN l
      BY <1>2 DEF Waits
    <2>2. Withdrawn(l, from) = SubSeq(l, 1, k - 1) \o SubSeq(l, k + 1, Len(l))
      BY <1>2 DEF Withdrawn, RemoveAt
    <2>. HIDE DEF k
    <2>3. k \in 1..Len(l) /\ Len(l) \in Nat /\ DOMAIN l = 1..Len(l)
      BY <2>1
    <2>4. /\ SubSeq(l, 1, k - 1) \in Seq(S) /\ Len(SubSeq(l, 1, k - 1)) = k - 1
          /\ \A i \in 1..(k - 1) : i \in 1..Len(l) /\ SubSeq(l, 1, k - 1)[i] = l[i]
      BY <2>3
    <2>5. /\ SubSeq(l, k + 1, Len(l)) \in Seq(S) /\ Len(SubSeq(l, k + 1, Len(l))) = Len(l) - k
          /\ \A i \in 1..(Len(l) - k) : i + k \in 1..Len(l) /\ SubSeq(l, k + 1, Len(l))[i] = l[i + k]
      <3>1. /\ SubSeq(l, k + 1, Len(l)) \in Seq(S) /\ Len(SubSeq(l, k + 1, Len(l))) = Len(l) - k
            /\ \A i \in 1..(Len(l) - k) : SubSeq(l, k + 1, Len(l))[i] = l[(k + 1) + i - 1]
        <4>. DEFINE m == k + 1
                    n == Len(l)
        <4>1. /\ m \in Int /\ n \in Int /\ n - m + 1 = Len(l) - k /\ m <= n + 1
              /\ (m <= n => n - m + 1 = Len(l) - k) /\ (~(m <= n) => Len(l) - k = 0)
          <5>1. \A a, b \in Nat : a <= b => b - (a + 1) + 1 = b - a /\ a + 1 <= b + 1
                                            /\ (~(a + 1 <= b) => b - a = 0)
            OBVIOUS
          <5>2. k \in Nat /\ Len(l) \in Nat /\ k <= Len(l)
            BY <2>3
          <5>. QED  BY <5>1, <5>2
        <4>2. \A i \in m..n : l[i] \in S
          BY <2>3
        <4>. HIDE DEF m, n
        <4>3. /\ SubSeq(l, m, n) \in Seq(S) /\ Len(SubSeq(l, m, n)) = IF m <= n THEN n - m + 1 ELSE 0
              /\ \A i \in 1..(n - m + 1) : SubSeq(l, m, n)[i] = l[m + i - 1]
          BY <4>1, <4>2, SubSeqProperties
        <4>4. /\ SubSeq(l, m, n) \in Seq(S) /\ Len(SubSeq(l, m, n)) = Len(l) - k
              /\ \A i \in 1..(Len(l) - k) : SubSeq(l, m, n)[i] = l[m + i - 1]
          BY <4>1, <4>3
        <4>. QED  BY <4>4 DEF m, n
      <3>2. \A i \in 1..(Len(l) - k) : (k + 1) + i - 1 = i + k /\ i + k \in 1..Len(l)
        BY <2>3
      <3>. QED  BY <3>1, <3>2
    <2>. DEFINE a == SubSeq(l, 1, k - 1)
                b == SubSeq(l, k + 1, Len(l))
    <2>6. /\ a \o b \in Seq(S)
          /\ \A i \in DOMAIN (a \o b) :
               \/ i \in 1..(k - 1) /\ (a \o b)[i] = a[i]
               \/ i - (k - 1) \in 1..(Len(l) - k) /\ (a \o b)[i] = b[i - (k - 1)]
      <3>1. a \in Seq(S) /\ b \in Seq(S) /\ Len(a) = k - 1 /\ Len(b) = Len(l) - k
        BY <2>4, <2>5
      <3>. HIDE DEF a, b
      <3>. QED  BY <2>3, <3>1
    <2>. QED  BY <2>2, <2>3, <2>4, <2>5, <2>6
  <1>. QED  BY <1>1, <1>2

-----------------------------------------------------------------------------
(***************************************************************************)
(* Hermes: the steps of the sink.                                          *)
(***************************************************************************)
Entries == [from : {"sink", "poller"}, event : EventRecord]
RunRecord == [task : 0..MaxTasks, status : Statuses]

LEMMA RunsFacts ==
    ASSUME RunsInv
    PROVE  /\ registry \in [Tasks -> EntryRecord] /\ trail \in [Tasks -> Seq(EventRecord)]
           /\ minted \in 0..MaxTasks /\ cancelled \in BOOLEAN
           /\ runs \in Seq(RunRecord) /\ Len(runs) \in Nat /\ Len(runs) <= MaxRuns
           /\ sink \in SinkRecord /\ poller \in PollerRecord
           /\ line \in Seq(Entries) /\ received \subseteq EventRecord
           /\ SinkHoldsTask /\ PollerFollows /\ RunsAreLast /\ PollsCurrentRun /\ OneReportPerRun
           /\ HistoriesAreWhole
  <1>1. runs \in Seq(RunRecord) /\ Len(runs) <= MaxRuns
    BY DEF RunsInv, HermesType, RunRecord
  <1>2. Len(runs) \in Nat
    BY <1>1
  <1>. QED  BY <1>1, <1>2 DEF RunsInv, HermesType, RunsAreKeptApart, Entries

LEMMA EntryFacts ==
    ASSUME RunsInv, NEW t \in Tasks
    PROVE  /\ registry[t] \in EntryRecord /\ registry[t].active \in 0..MaxRuns /\ registry[t].active \in Nat
           /\ registry[t].history \in TurnsOfHistory /\ trail[t] \in Seq(EventRecord)
  BY RunsFacts DEF EntryRecord

\* What is left to show when the command side moves, or the server.
LEMMA CommandSideMoves ==
    ASSUME RunsInv, UNCHANGED <<registry, trail, poller, received>>, cancelled' \in BOOLEAN,
           minted' \in 0..MaxTasks, minted <= minted',
           runs' \in Seq(RunRecord), Len(runs) <= Len(runs'), Len(runs') <= MaxRuns,
           sink' \in SinkRecord, SinkHoldsTask',
           sink'.pc \in {"posting", "posted"} => (registry[sink'.task].known <=> sink'.kind = "update"),
           line' \in Seq(Entries),
           \A i \in DOMAIN line' : InLine(line, line'[i].event)
    PROVE  RunsInv'
  <1>0. /\ registry \in [Tasks -> EntryRecord] /\ trail \in [Tasks -> Seq(EventRecord)]
        /\ minted \in Nat /\ minted' \in Nat /\ Len(runs) \in Nat /\ Len(runs') \in Nat
        /\ poller \in PollerRecord /\ received \subseteq EventRecord
        /\ PollerFollows /\ RunsAreLast /\ PollsCurrentRun /\ OneReportPerRun /\ HistoriesAreWhole
    BY RunsFacts
  <1>1. HermesType'
    BY <1>0 DEF HermesType, Entries, RunRecord
  <1>2. \A r \in Nat : (r \in 1..Len(runs) => r \in 1..Len(runs')) /\ (r <= Len(runs) => r <= Len(runs'))
    BY <1>0
  <1>3. PollerFollows'
    <2>1. poller.run \in Nat /\ poller.event.run \in Nat
      BY <1>0, EventRuns DEF PollerRecord
    <2>. QED  BY <1>0, <1>2, <2>1 DEF PollerFollows
  <1>4. RunsAreLast'
    <2>. SUFFICES ASSUME NEW t \in Tasks
                  PROVE  /\ registry[t].active # 0 =>
                              registry[t].active <= Len(runs') /\ UpTo(trail[t], registry[t].active)
                         /\ t > minted' => registry[t].active = 0
                         /\ \A i \in DOMAIN trail[t] : trail[t][i].type # "accepted" => trail[t][i].run <= Len(runs')
      BY DEF RunsAreLast
    <2>1. t > minted' => t > minted
      BY <1>0 DEF Tasks
    <2>2. registry[t].active \in Nat /\ \A i \in DOMAIN trail[t] : trail[t][i].run \in Nat
      <3>1. registry[t].active \in Nat /\ trail[t] \in Seq(EventRecord)
        BY EntryFacts
      <3>. QED  BY <3>1, EventRuns
    <2>. QED  BY <1>0, <1>2, <2>1, <2>2 DEF RunsAreLast
  <1>5. RunsAreKeptApart'
    BY <1>0 DEF RunsAreKeptApart, PollsCurrentRun, OneReportPerRun
  <1>6. HistoriesAreWhole'
    <2>1. \A t \in Tasks : t <= minted => t <= minted'
      BY <1>0 DEF Tasks
    <2>2. \A i \in DOMAIN line' : \E j \in DOMAIN line : line[j].event = line'[i].event
      BY DEF InLine
    <2>3. \A e : Told(e)' => Told(e)
      BY <2>2 DEF Told, InLine
    <2>. QED  BY <1>0, <2>1, <2>2, <2>3 DEF HistoriesAreWhole
  <1>. QED  BY <1>1, <1>3, <1>4, <1>5, <1>6 DEF RunsInv

LEMMA CreateKeeps ==
    ASSUME RunsInv, Create
    PROVE  RunsInv'
  <1>0. /\ RunsAreLast /\ HistoriesAreWhole /\ minted \in 0..MaxTasks /\ sink \in SinkRecord
        /\ line \in Seq(Entries) /\ cancelled \in BOOLEAN /\ runs \in Seq(RunRecord) /\ Len(runs) <= MaxRuns
        /\ Len(runs) \in Nat
    BY RunsFacts
  <1>1. /\ minted < MaxTasks /\ minted' = minted + 1
        /\ sink' = [IdleSink EXCEPT !.pc = "posting", !.kind = "create", !.task = minted + 1]
        /\ UNCHANGED <<registry, trail, runs, line, cancelled, poller, received, closed>>
    BY DEF Create
  <1>2. /\ minted + 1 \in 0..MaxTasks /\ minted + 1 \in Tasks /\ minted + 1 > minted /\ minted <= minted + 1
        /\ ~(minted + 1 <= minted) /\ Len(runs) <= Len(runs)
    BY <1>0, <1>1 DEF Tasks
  <1>3. /\ sink' \in SinkRecord /\ sink'.pc = "posting" /\ sink'.kind = "create" /\ sink'.task = minted + 1
    BY <1>1, <1>2, SinkCreates
  <1>4. registry[minted + 1].active = 0 /\ ~registry[minted + 1].known
    BY <1>0, <1>2 DEF RunsAreLast, HistoriesAreWhole
  <1>5. SinkHoldsTask'
    BY <1>1, <1>2, <1>3, <1>4 DEF SinkHoldsTask
  <1>6. \A i \in DOMAIN line' : InLine(line, line'[i].event)
    BY <1>1 DEF InLine
  <1>. QED  BY <1>0, <1>1, <1>2, <1>3, <1>4, <1>5, <1>6, CommandSideMoves

LEMMA Rejected ==
    Event("rejected", 0, 0) \in EventRecord /\ Event("rejected", 0, 0).type = "rejected"
  BY DEF Event, EventRecord, EventTypes

LEMMA UpdateKeeps ==
    ASSUME RunsInv, NEW t \in Tasks, Update(t)
    PROVE  RunsInv'
  <1>0. /\ minted \in 0..MaxTasks /\ sink \in SinkRecord
        /\ line \in Seq(Entries) /\ cancelled \in BOOLEAN /\ runs \in Seq(RunRecord) /\ Len(runs) <= MaxRuns
        /\ Len(runs) \in Nat /\ minted <= minted /\ Len(runs) <= Len(runs)
    BY RunsFacts
  <1>1. /\ t <= minted /\ t \in 0..MaxTasks
        /\ sink' = IF Readiness(t) = "idle"
                     THEN [IdleSink EXCEPT !.pc = "posting", !.kind = "update", !.task = t,
                                           !.history = registry[t].history]
                     ELSE [IdleSink EXCEPT !.pc = "emit", !.event = Event("rejected", 0, 0)]
        /\ UNCHANGED <<registry, trail, minted, runs, line, cancelled, poller, received, closed>>
    BY DEF Update, Tasks
  <1>2. registry[t].history \in TurnsOfHistory
    BY EntryFacts
  <1>3. /\ sink' \in SinkRecord /\ SinkHoldsTask'
        /\ sink'.pc \in {"posting", "posted"} => (registry[sink'.task].known <=> sink'.kind = "update")
    <2>1. CASE Readiness(t) = "idle"
      <3>1. registry[t].known /\ registry[t].active = 0
        BY <2>1 DEF Readiness
      <3>2. /\ sink' \in SinkRecord /\ sink'.pc = "posting" /\ sink'.kind = "update" /\ sink'.task = t
        <4>. DEFINE a == [IdleSink EXCEPT !.pc = "posting"]
                    b == [a EXCEPT !.kind = "update"]
                    c == [b EXCEPT !.task = t]
        <4>1. sink' = [c EXCEPT !.history = registry[t].history]
          BY <1>1, <2>1
        <4>2. a \in SinkRecord /\ a.pc = "posting"
          BY Idle, SinkMoves
        <4>. HIDE DEF a
        <4>3. b \in SinkRecord /\ b.pc = "posting" /\ b.kind = "update"
          BY ONLY <4>2 DEF SinkRecord
        <4>. HIDE DEF b
        <4>4. c \in SinkRecord /\ c.pc = "posting" /\ c.kind = "update" /\ c.task = t
          <5>1. t \in 0..MaxTasks
            BY <1>1
          <5>. QED  BY ONLY <4>3, <5>1 DEF SinkRecord
        <4>. HIDE DEF c
        <4>. QED  BY ONLY <4>1, <4>4, <1>2 DEF SinkRecord
      <3>. QED  BY <1>1, <3>1, <3>2 DEF SinkHoldsTask
    <2>2. CASE Readiness(t) # "idle"
      <3>1. sink' \in SinkRecord /\ sink'.pc = "emit" /\ sink'.event.type = "rejected"
        BY <1>1, <2>2, Rejected, SinkSays
      <3>. QED  BY <3>1 DEF SinkHoldsTask
    <2>. QED  BY <2>1, <2>2
  <1>4. \A i \in DOMAIN line' : InLine(line, line'[i].event)
    BY <1>1 DEF InLine
  <1>. QED  BY <1>0, <1>1, <1>3, <1>4, CommandSideMoves

LEMMA RunStartsKeeps ==
    ASSUME RunsInv, RunStarts
    PROVE  RunsInv'
  <1>0. /\ RunsAreLast /\ HistoriesAreWhole /\ SinkHoldsTask /\ PollerFollows
        /\ minted \in 0..MaxTasks /\ sink \in SinkRecord
        /\ line \in Seq(Entries) /\ cancelled \in BOOLEAN /\ runs \in Seq(RunRecord) /\ Len(runs) <= MaxRuns
        /\ Len(runs) \in Nat /\ minted <= minted
    BY RunsFacts
  <1>1. /\ sink.pc = "posting" /\ Len(runs) < MaxRuns
        /\ runs' = Append(runs, [task |-> sink.task, status |-> "running"])
        /\ sink' = [sink EXCEPT !.pc = "posted", !.run = Len(runs) + 1]
        /\ UNCHANGED <<registry, trail, minted, commands, line, cancelled, poller, received, closed>>
    BY DEF RunStarts
  <1>2. [task |-> sink.task, status |-> "running"] \in RunRecord
    BY <1>0 DEF SinkRecord, RunRecord, Statuses, InFlight
  <1>3. runs' \in Seq(RunRecord) /\ Len(runs') = Len(runs) + 1
    BY <1>0, <1>1, <1>2
  <1>4. Len(runs) + 1 \in 0..MaxRuns /\ Len(runs) <= Len(runs') /\ Len(runs') <= MaxRuns
    BY <1>0, <1>1, <1>3
  <1>5. /\ sink' \in SinkRecord /\ sink'.pc = "posted" /\ sink'.kind = sink.kind
        /\ sink'.task = sink.task /\ sink'.run = Len(runs) + 1
    BY <1>0, <1>1, <1>4, SinkHasRun
  <1>6. /\ sink.task \in Tasks /\ sink.task <= minted /\ registry[sink.task].active = 0
        /\ sink.kind \in {"create", "update"}
        /\ (registry[sink.task].known <=> sink.kind = "update")
    BY <1>0, <1>1 DEF SinkHoldsTask, HistoriesAreWhole
  <1>7. Before(trail[sink.task], Len(runs) + 1)
    <2>1. \A i \in DOMAIN trail[sink.task] : trail[sink.task][i].type # "accepted" =>
            trail[sink.task][i].run <= Len(runs)
      BY <1>0, <1>6 DEF RunsAreLast
    <2>2. \A i \in DOMAIN trail[sink.task] : trail[sink.task][i].run \in Nat
      <3>1. trail[sink.task] \in Seq(EventRecord)
        BY <1>6, EntryFacts
      <3>. QED  BY <3>1, EventRuns
    <2>. QED  BY <1>0, <2>1, <2>2 DEF Before
  <1>8. poller.pc = "emit" => poller.event.run < Len(runs) + 1
    BY <1>0 DEF PollerFollows
  <1>9. Len(runs) + 1 \in 1..Len(runs')
    BY <1>0, <1>3
  <1>10. SinkHoldsTask'
    BY <1>1, <1>5, <1>6, <1>7, <1>8, <1>9 DEF SinkHoldsTask
  <1>11. \A i \in DOMAIN line' : InLine(line, line'[i].event)
    BY <1>1 DEF InLine
  <1>. QED  BY <1>0, <1>1, <1>3, <1>4, <1>5, <1>6, <1>10, <1>11, CommandSideMoves

LEMMA PostFailsKeeps ==
    ASSUME RunsInv, PostFails
    PROVE  RunsInv'
  <1>0. /\ minted \in 0..MaxTasks /\ line \in Seq(Entries) /\ cancelled \in BOOLEAN
        /\ runs \in Seq(RunRecord) /\ Len(runs) <= MaxRuns
        /\ Len(runs) \in Nat /\ minted <= minted /\ Len(runs) <= Len(runs)
    BY RunsFacts
  <1>1. /\ sink' = [IdleSink EXCEPT !.pc = "emit", !.event = Event("rejected", 0, 0)]
        /\ UNCHANGED <<registry, trail, minted, commands, runs, line, cancelled, poller, received, closed>>
    BY DEF PostFails
  <1>2. sink' \in SinkRecord /\ sink'.pc = "emit" /\ sink'.event.type = "rejected"
    BY <1>1, Rejected, SinkSays
  <1>3. SinkHoldsTask'
    BY <1>2 DEF SinkHoldsTask
  <1>4. \A i \in DOMAIN line' : InLine(line, line'[i].event)
    BY <1>1 DEF InLine
  <1>. QED  BY <1>0, <1>1, <1>2, <1>3, <1>4, CommandSideMoves

\* What leaves the sink at rest.
LEMMA SinkRests ==
    ASSUME RunsInv, SinkSent \/ SinkDropped
    PROVE  RunsInv'
  <1>0. /\ minted \in 0..MaxTasks /\ line \in Seq(Entries) /\ cancelled \in BOOLEAN
        /\ runs \in Seq(RunRecord) /\ Len(runs) <= MaxRuns
        /\ Len(runs) \in Nat /\ minted <= minted /\ Len(runs) <= Len(runs)
    BY RunsFacts
  <1>1. /\ sink' = IdleSink /\ (line' = line \/ line' = Withdrawn(line, "sink"))
        /\ UNCHANGED <<registry, trail, minted, commands, runs, cancelled, poller, received, closed>>
    BY DEF SinkSent, SinkDropped
  <1>2. sink' \in SinkRecord /\ sink'.pc = "idle"
    BY <1>1, Idle
  <1>3. SinkHoldsTask'
    BY <1>2 DEF SinkHoldsTask
  <1>4. line' \in Seq(Entries) /\ \A i \in DOMAIN line' : InLine(line, line'[i].event)
    <2>1. CASE line' = line
      BY <1>0, <2>1 DEF InLine
    <2>2. CASE line' = Withdrawn(line, "sink")
      <3>1. /\ Withdrawn(line, "sink") \in Seq(Entries)
            /\ \A i \in DOMAIN Withdrawn(line, "sink") : \E j \in DOMAIN line : Withdrawn(line, "sink")[i] = line[j]
        BY <1>0, LineWithdrawn
      <3>. QED  BY <2>2, <3>1 DEF InLine
    <2>. QED  BY <1>1, <2>1, <2>2
  <1>. QED  BY <1>0, <1>1, <1>2, <1>3, <1>4, CommandSideMoves

\* The server moves a run on, the transport is cancelled, or the source sees the end.
LEMMA OthersMove ==
    ASSUME RunsInv, (\E r \in DOMAIN runs : RunMoves(r)) \/ SourceCloses \/ Cancel
    PROVE  RunsInv'
  <1>0. /\ minted \in 0..MaxTasks /\ line \in Seq(Entries) /\ cancelled \in BOOLEAN
        /\ runs \in Seq(RunRecord) /\ Len(runs) <= MaxRuns /\ sink \in SinkRecord
        /\ Len(runs) \in Nat /\ minted <= minted /\ Len(runs) <= Len(runs)
        /\ SinkHoldsTask /\ HistoriesAreWhole
    BY RunsFacts
  <1>1. UNCHANGED <<registry, trail, minted, line, sink, poller, received>> /\ cancelled' \in BOOLEAN
    BY <1>0 DEF RunMoves, SourceCloses, Cancel
  <1>2. runs' \in Seq(RunRecord) /\ Len(runs') = Len(runs)
    <2>1. CASE runs' = runs
      BY <1>0, <2>1
    <2>2. ASSUME NEW r \in DOMAIN runs, RunMoves(r)
          PROVE  runs' \in Seq(RunRecord) /\ Len(runs') = Len(runs)
      <3>1. PICK s \in Finished \cup {"gone"} : runs' = [runs EXCEPT ![r].status = s]
        BY <2>2 DEF RunMoves
      <3>2. runs[r] \in RunRecord
        BY <1>0
      <3>3. [runs[r] EXCEPT !.status = s] \in RunRecord
        BY <3>2 DEF RunRecord, Statuses
      <3>4. runs' = [runs EXCEPT ![r] = [runs[r] EXCEPT !.status = s]]
        BY <3>1
      <3>. QED  BY <1>0, <3>3, <3>4
    <2>. QED  BY <2>1, <2>2 DEF SourceCloses, Cancel
  <1>3. SinkHoldsTask'
    BY <1>0, <1>1, <1>2 DEF SinkHoldsTask
  <1>4. \A i \in DOMAIN line' : InLine(line, line'[i].event)
    BY <1>1 DEF InLine
  <1>5. sink'.pc \in {"posting", "posted"} => (registry[sink'.task].known <=> sink'.kind = "update")
    BY <1>0, <1>1 DEF HistoriesAreWhole
  <1>. QED  BY <1>0, <1>1, <1>2, <1>3, <1>4, <1>5, CommandSideMoves

-----------------------------------------------------------------------------
(***************************************************************************)
(* Hermes: the source, and the steps of the poller that tell nothing.      *)
(***************************************************************************)
LEMMA NextEventKeeps ==
    ASSUME RunsInv, NextEvent
    PROVE  RunsInv'
  <1>0. /\ registry \in [Tasks -> EntryRecord] /\ line \in Seq(Entries) /\ received \subseteq EventRecord
        /\ HermesType /\ SinkHoldsTask /\ PollerFollows /\ RunsAreLast /\ PollsCurrentRun /\ OneReportPerRun
        /\ HistoriesAreWhole
    BY RunsFacts DEF RunsInv
  <1>1. /\ line # <<>> /\ received' = received \cup {e \in {line[1].event} : Terminal(e)}
        /\ line' = Tail(line)
        /\ UNCHANGED <<registry, trail, minted, commands, runs, cancelled, sink, poller, closed>>
    BY DEF NextEvent
  <1>2. /\ Tail(line) \in Seq(Entries) /\ 1 \in DOMAIN line /\ line[1] \in Entries
        /\ \A i \in DOMAIN Tail(line) : i + 1 \in DOMAIN line /\ Tail(line)[i] = line[i + 1]
    BY <1>0, <1>1, LineTaken
  <1>3. line[1].event \in EventRecord
    BY <1>2 DEF Entries
  <1>4. HermesType'
    BY <1>0, <1>1, <1>2, <1>3 DEF HermesType, Entries
  <1>5. SinkHoldsTask' /\ PollerFollows' /\ RunsAreLast' /\ RunsAreKeptApart'
    BY <1>0, <1>1 DEF SinkHoldsTask, PollerFollows, RunsAreLast, RunsAreKeptApart, PollsCurrentRun, OneReportPerRun
  <1>6. \A e : Told(e)' => Told(e)
    BY <1>1, <1>2 DEF Told, InLine
  <1>7. HistoriesAreWhole'
    BY <1>0, <1>1, <1>6 DEF HistoriesAreWhole
  <1>. QED  BY <1>4, <1>5, <1>7 DEF RunsInv

LEMMA PollerMoves ==
    ASSUME RunsInv, UNCHANGED <<registry, trail, minted, runs, line, cancelled, sink, received>>,
           poller' \in PollerRecord, poller'.pc # "emit",
           \A p \in poller'.todo : registry[p[1]].active = p[2],
           poller'.pc \in {"asking", "answered"} =>
             /\ poller'.task \in Tasks /\ poller'.run \in 1..Len(runs)
             /\ \A p \in poller'.todo : p[1] # poller'.task
             /\ registry[poller'.task].active = poller'.run
    PROVE  RunsInv'
  <1>0. /\ HermesType /\ SinkHoldsTask /\ RunsAreLast /\ OneReportPerRun /\ HistoriesAreWhole
    BY RunsFacts DEF RunsInv
  <1>1. HermesType'
    BY <1>0 DEF HermesType
  <1>2. SinkHoldsTask' /\ PollerFollows' /\ RunsAreLast' /\ RunsAreKeptApart'
    BY <1>0 DEF SinkHoldsTask, PollerFollows, RunsAreLast, RunsAreKeptApart, PollsCurrentRun, OneReportPerRun
  <1>3. \A e : Told(e)' => Told(e)
    BY DEF Told, InLine
  <1>4. HistoriesAreWhole'
    BY <1>0, <1>3 DEF HistoriesAreWhole
  <1>. QED  BY <1>1, <1>2, <1>4 DEF RunsInv

LEMMA PollerGoesOn ==
    ASSUME RunsInv, Moves("next"), UNCHANGED <<registry, trail, minted, runs, line, cancelled, sink, received>>
    PROVE  RunsInv'
  <1>0. poller \in PollerRecord /\ PollerFollows /\ Resting \in PollerRecord
    BY RunsFacts, Idle
  <1>1. poller.todo \in SUBSET (Tasks \X (1..MaxRuns))
    BY <1>0 DEF PollerRecord
  <1>2. poller' \in PollerRecord /\ poller'.pc = "next" /\ poller'.todo = poller.todo
    <2>. DEFINE a == [Resting EXCEPT !.pc = "next"]
    <2>1. poller' = [a EXCEPT !.todo = poller.todo]
      BY DEF Moves
    <2>2. a \in PollerRecord /\ a.pc = "next"
      BY <1>0, PollerMovesOn
    <2>. HIDE DEF a
    <2>. QED  BY ONLY <1>1, <2>1, <2>2 DEF PollerRecord
  <1>. QED  BY <1>0, <1>2, PollerMoves DEF PollerFollows

LEMMA SweepKeeps ==
    ASSUME RunsInv, Sweep
    PROVE  RunsInv'
  <1>. DEFINE found == {<<t, registry[t].active>> : t \in {u \in Tasks : registry[u].active # 0}}
  <1>0. Resting \in PollerRecord /\ Resting.todo = {}
    BY Idle
  <1>1. /\ poller' = IF cancelled THEN [Resting EXCEPT !.pc = "stopped"]
                                  ELSE [Resting EXCEPT !.pc = "next", !.todo = found]
        /\ UNCHANGED <<registry, trail, minted, runs, line, cancelled, sink, received>>
    BY DEF Sweep
  <1>2. found \in SUBSET (Tasks \X (1..MaxRuns)) /\ \A p \in found : registry[p[1]].active = p[2]
    <2>1. \A t \in Tasks : registry[t].active \in 0..MaxRuns
      BY EntryFacts
    <2>. QED  BY <2>1
  <1>. HIDE DEF found
  <1>3. CASE cancelled
    <2>1. poller' \in PollerRecord /\ poller'.pc = "stopped" /\ poller'.todo = {}
      BY <1>0, <1>1, <1>3, PollerMovesOn
    <2>. QED  BY <1>1, <2>1, PollerMoves
  <1>4. CASE ~cancelled
    <2>1. poller' \in PollerRecord /\ poller'.pc = "next" /\ poller'.todo = found
      <3>. DEFINE a == [Resting EXCEPT !.pc = "next"]
      <3>1. poller' = [a EXCEPT !.todo = found]
        BY <1>1, <1>4
      <3>2. a \in PollerRecord /\ a.pc = "next"
        BY <1>0, PollerMovesOn
      <3>. HIDE DEF a
      <3>. QED  BY ONLY <1>2, <3>1, <3>2 DEF PollerRecord
    <2>. QED  BY <1>1, <1>2, <2>1, PollerMoves
  <1>. QED  BY <1>3, <1>4

LEMMA AskNextKeeps ==
    ASSUME RunsInv, AskNext
    PROVE  RunsInv'
  <1>0. /\ poller \in PollerRecord /\ PollerFollows /\ RunsAreLast /\ Len(runs) \in Nat
        /\ Resting \in PollerRecord /\ Resting.todo = {} /\ Resting.pc = "idle"
    BY RunsFacts, Idle
  <1>1. /\ UNCHANGED <<registry, trail, minted, runs, line, cancelled, sink, received>>
        /\ \/ poller' = Resting
           \/ \E p \in poller.todo :
                poller' = [poller EXCEPT !.pc = "asking", !.todo = @ \ {p}, !.task = p[1], !.run = p[2]]
    BY DEF AskNext
  <1>2. CASE poller' = Resting
    BY <1>0, <1>1, <1>2, PollerMoves
  <1>3. ASSUME NEW p \in poller.todo,
               poller' = [poller EXCEPT !.pc = "asking", !.todo = @ \ {p}, !.task = p[1], !.run = p[2]]
        PROVE  RunsInv'
    <2>1. /\ poller.todo \in SUBSET (Tasks \X (1..MaxRuns)) /\ poller.todo \ {p} \in SUBSET (Tasks \X (1..MaxRuns))
          /\ p \in Tasks \X (1..MaxRuns)
      BY <1>0, <1>3 DEF PollerRecord
    <2>2. p[1] \in Tasks /\ p[1] \in 0..MaxTasks /\ p[2] \in 1..MaxRuns /\ p[2] \in 0..MaxRuns
      BY <2>1 DEF Tasks
    <2>. DEFINE rest == poller.todo \ {p}
    <2>3. poller' = [poller EXCEPT !.pc = "asking", !.todo = rest, !.task = p[1], !.run = p[2]]
      BY <1>0, <1>3 DEF PollerRecord
    <2>4. rest \in SUBSET (Tasks \X (1..MaxRuns))
      BY <2>1
    <2>5. \A q \in rest : q \in poller.todo /\ q # p
      OBVIOUS
    <2>. HIDE DEF rest
    <2>6. poller' \in PollerRecord /\ poller'.pc = "asking" /\ poller'.todo = rest
          /\ poller'.task = p[1] /\ poller'.run = p[2]
      <3>. DEFINE a == [poller EXCEPT !.pc = "asking"]
                  b == [a EXCEPT !.todo = rest]
                  c == [b EXCEPT !.task = p[1]]
      <3>1. poller' = [c EXCEPT !.run = p[2]]
        BY <2>3
      <3>2. a \in PollerRecord /\ a.pc = "asking"
        BY <1>0, PollerMovesOn
      <3>. HIDE DEF a
      <3>3. b \in PollerRecord /\ b.pc = "asking" /\ b.todo = rest
        BY ONLY <3>2, <2>4 DEF PollerRecord
      <3>. HIDE DEF b
      <3>4. c \in PollerRecord /\ c.pc = "asking" /\ c.todo = rest /\ c.task = p[1]
        BY ONLY <3>3, <2>2 DEF PollerRecord
      <3>. HIDE DEF c
      <3>. QED  BY ONLY <3>1, <3>4, <2>2 DEF PollerRecord
    <2>7. registry[p[1]].active = p[2] /\ \A q \in rest : registry[q[1]].active = q[2]
      BY <1>0, <1>3, <2>5 DEF PollerFollows
    <2>8. p[2] \in 1..Len(runs)
      BY <1>0, <2>2, <2>7 DEF RunsAreLast
    <2>9. \A q \in rest : q[1] # p[1]
      <3>1. \A q \in rest : q \in Tasks \X (1..MaxRuns) /\ q # p
        BY <2>4, <2>5
      <3>2. \A q \in Tasks \X (1..MaxRuns) : q[1] = p[1] /\ q[2] = p[2] => q = p
        BY <2>1
      <3>. QED  BY <2>7, <3>1, <3>2
    <2>. QED  BY <1>1, <2>2, <2>6, <2>7, <2>8, <2>9, PollerMoves
  <1>. QED  BY <1>1, <1>2, <1>3

LEMMA ServerAnswersKeeps ==
    ASSUME RunsInv, ServerAnswers
    PROVE  RunsInv'
  <1>0. /\ poller \in PollerRecord /\ PollerFollows /\ PollsCurrentRun /\ runs \in Seq(RunRecord)
    BY RunsFacts
  <1>1. /\ UNCHANGED <<registry, trail, minted, runs, line, cancelled, sink, received>>
        /\ poller.pc = "asking"
        /\ poller' = [poller EXCEPT !.pc = "answered", !.status = runs[poller.run].status]
    BY DEF ServerAnswers
  <1>2. /\ poller.task \in Tasks /\ poller.run \in 1..Len(runs)
        /\ \A p \in poller.todo : p[1] # poller.task /\ registry[p[1]].active = p[2]
        /\ registry[poller.task].active = poller.run
    BY <1>0, <1>1 DEF PollerFollows, PollsCurrentRun
  <1>3. runs[poller.run].status \in Statuses
    <2>1. runs[poller.run] \in RunRecord
      BY <1>0, <1>2
    <2>. QED  BY <2>1 DEF RunRecord
  <1>4. /\ poller' \in PollerRecord /\ poller'.pc = "answered" /\ poller'.todo = poller.todo
        /\ poller'.task = poller.task /\ poller'.run = poller.run
    <2>. DEFINE a == [poller EXCEPT !.pc = "answered"]
    <2>1. poller' = [a EXCEPT !.status = runs[poller.run].status]
      BY <1>1
    <2>2. a \in PollerRecord /\ a.pc = "answered" /\ a.todo = poller.todo /\ a.task = poller.task /\ a.run = poller.run
      BY <1>0, PollerMovesOn
    <2>. HIDE DEF a
    <2>. QED  BY ONLY <1>3, <2>1, <2>2 DEF PollerRecord
  <1>. QED  BY <1>1, <1>2, <1>4, PollerMoves

-----------------------------------------------------------------------------
(***************************************************************************)
(* Hermes: a task's history, and the steps that change the registry.       *)
(***************************************************************************)
LEMMA HistoryGrows ==
    ASSUME NEW history \in TurnsOfHistory, NEW role \in {"user", "assistant"}, NEW run \in 1..MaxRuns
    PROVE  LET turn == HistoryTurn(role, run)
               longer == Append(history, turn) IN
           /\ longer \in TurnsOfHistory /\ longer # <<>> /\ longer[Len(longer)] = turn
           /\ Range(history) \subseteq Range(longer) /\ turn \in Range(longer)
           /\ Paired(history) /\ role = "user" => Paired(longer)
           /\ (/\ Paired(history) /\ role = "assistant" /\ history # <<>>
               /\ history[Len(history)] = HistoryTurn("user", run)) => Paired(longer)
  <1>. DEFINE turn == HistoryTurn(role, run)
              longer == Append(history, turn)
              R == [role : {"user", "assistant"}, run : 1..MaxRuns]
  <1>1. turn \in R /\ turn.role = role /\ turn.run = run
    BY DEF HistoryTurn
  <1>2. history \in Seq(R)
    BY DEF TurnsOfHistory
  <1>. HIDE DEF turn, R
  <1>3. /\ longer \in Seq(R) /\ DOMAIN history = 1..Len(history) /\ Len(history) \in Nat
        /\ DOMAIN longer = 1..(Len(history) + 1) /\ Len(longer) = Len(history) + 1
        /\ longer[Len(history) + 1] = turn /\ \A i \in 1..Len(history) : longer[i] = history[i]
    BY ONLY <1>1, <1>2
  <1>. HIDE DEF longer
  <1>4. \A i \in 1..(Len(history) + 1) : i \in 1..Len(history) \/ i = Len(history) + 1
    BY <1>3
  <1>5. longer # <<>> /\ longer[Len(longer)] = turn
    BY <1>3
  <1>6. Range(history) \subseteq Range(longer) /\ turn \in Range(longer)
    <2>1. 1..Len(history) \subseteq DOMAIN longer /\ Len(history) + 1 \in DOMAIN longer
      BY <1>3
    <2>. QED  BY <1>3, <2>1 DEF Range
  <1>7. ASSUME Paired(history),
               role = "assistant" => history # <<>> /\ history[Len(history)] = HistoryTurn("user", run)
        PROVE  Paired(longer)
    <2>. SUFFICES ASSUME NEW i \in DOMAIN longer, longer[i].role = "assistant"
                  PROVE  i > 1 /\ longer[i - 1] = HistoryTurn("user", longer[i].run)
      BY DEF Paired
    <2>1. CASE i \in 1..Len(history)
      <3>1. i > 1 /\ history[i - 1] = HistoryTurn("user", history[i].run)
        BY <1>3, <1>7, <2>1 DEF Paired
      <3>2. i - 1 \in 1..Len(history)
        BY <1>3, <2>1, <3>1
      <3>. QED  BY <1>3, <2>1, <3>1, <3>2
    <2>2. CASE i = Len(history) + 1
      <3>1. role = "assistant" /\ longer[i] = turn
        BY <1>1, <1>3, <2>2
      <3>2. history # <<>> /\ history[Len(history)] = HistoryTurn("user", run)
        BY <1>7, <3>1
      <3>3. Len(history) \in 1..Len(history)
        BY <1>2, <1>3, <3>2
      <3>4. i - 1 = Len(history) /\ i > 1
        BY <1>3, <2>2, <3>3
      <3>. QED  BY <1>1, <1>3, <3>1, <3>2, <3>3, <3>4
    <2>. QED  BY <1>3, <1>4, <2>1, <2>2
  <1>8. longer \in TurnsOfHistory
    BY <1>3 DEF TurnsOfHistory, R
  <1>. QED  BY <1>5, <1>6, <1>7, <1>8 DEF turn, longer

\* The poller has applied an answer: the task's entry is changed, and its run is told of.
LEMMA ReportIsDue ==
    ASSUME RunsInv, NEW t \in Tasks, NEW r \in 1..Len(runs), registry[t].active = r,
           NEW type \in {"progress", "completion", "failure"}, NEW entry \in EntryRecord,
           registry' = [registry EXCEPT ![t] = entry],
           poller.pc # "emit", poller.task = t, poller.run = r,
           \A p \in poller.todo : p[1] # t /\ registry[p[1]].active = p[2],
           Says(type), UNCHANGED <<trail, minted, runs, line, cancelled, sink, received>>,
           entry.active = IF type = "progress" THEN r ELSE 0, entry.known = registry[t].known,
           Paired(entry.history), Range(registry[t].history) \subseteq Range(entry.history),
           type = "progress" => entry.history = registry[t].history,
           type = "completion" => HistoryTurn("assistant", r) \in Range(entry.history)
    PROVE  RunsInv'
  <1>0. /\ registry \in [Tasks -> EntryRecord] /\ poller \in PollerRecord /\ Resting \in PollerRecord
        /\ HermesType /\ SinkHoldsTask /\ RunsAreLast /\ OneReportPerRun /\ HistoriesAreWhole
        /\ Len(runs) \in Nat /\ Len(runs) <= MaxRuns
    BY RunsFacts, Idle DEF RunsInv
  <1>1. Event(type, t, r) \in EventRecord
    <2>1. t \in 0..MaxTasks /\ r \in 0..MaxRuns
      BY <1>0 DEF Tasks
    <2>. QED  BY <2>1 DEF Event, EventRecord, EventTypes
  <1>2. poller' \in PollerRecord /\ poller'.pc = "emit" /\ poller'.todo = poller.todo
        /\ poller'.event = Event(type, t, r)
    <2>. DEFINE a == [Resting EXCEPT !.pc = "emit"]
                b == [a EXCEPT !.todo = poller.todo]
    <2>1. poller' = [b EXCEPT !.event = Event(type, t, r)]
      BY DEF Says
    <2>2. a \in PollerRecord /\ a.pc = "emit"
      BY <1>0, PollerMovesOn
    <2>. HIDE DEF a
    <2>3. poller.todo \in SUBSET (Tasks \X (1..MaxRuns))
      BY <1>0 DEF PollerRecord
    <2>4. b \in PollerRecord /\ b.pc = "emit" /\ b.todo = poller.todo
      BY ONLY <2>2, <2>3 DEF PollerRecord
    <2>. HIDE DEF b
    <2>. QED  BY ONLY <1>1, <2>1, <2>4 DEF PollerRecord
  <1>3. /\ registry' \in [Tasks -> EntryRecord] /\ registry'[t] = entry
        /\ \A u \in Tasks : u # t => registry'[u] = registry[u]
    BY <1>0
  <1>4. HermesType'
    BY <1>0, <1>2, <1>3 DEF HermesType
  <1>5. Event(type, t, r).type = type /\ Event(type, t, r).task = t /\ Event(type, t, r).run = r
    BY DEF Event
  <1>6. r # 0 /\ r <= Len(runs) /\ UpTo(trail[t], r) /\ t <= minted /\ registry[t].known
    BY <1>0 DEF RunsAreLast, HistoriesAreWhole, Tasks, HermesType
  <1>7. SinkHoldsTask'
    BY <1>0, <1>2, <1>3, <1>5, <1>6 DEF SinkHoldsTask
  <1>8. PollerFollows'
    <2>1. \A p \in poller.todo : p[1] \in Tasks
      BY <1>0 DEF PollerRecord
    <2>. QED  BY <1>2, <1>3, <1>5, <1>6, <2>1 DEF PollerFollows, Terminal
  <1>9. RunsAreLast'
    BY <1>0, <1>3, <1>6 DEF RunsAreLast
  <1>10. RunsAreKeptApart'
    BY <1>0, <1>2 DEF RunsAreKeptApart, PollsCurrentRun, OneReportPerRun
  <1>11. HistoriesAreWhole'
    <2>1. \A e : Told(e)' => Told(e) \/ e = Event(type, t, r)
      BY <1>2 DEF Told, InLine
    <2>2. \A u \in Tasks : LET history == registry'[u].history IN
            /\ Paired(history)
            /\ registry'[u].active # 0 =>
                 registry'[u].known /\ history # <<>> /\ history[Len(history)] = HistoryTurn("user", registry'[u].active)
            /\ registry'[u].known => u <= minted
      <3>1. /\ registry'[t].active # 0 => registry'[t].known /\ entry.history = registry[t].history /\ entry.active = r
            /\ Paired(registry'[t].history) /\ t <= minted
        BY <1>3, <1>6
      <3>2. registry[t].history # <<>> /\ registry[t].history[Len(registry[t].history)] = HistoryTurn("user", r)
        BY <1>0, <1>6 DEF HistoriesAreWhole
      <3>. QED  BY <1>0, <1>3, <3>1, <3>2 DEF HistoriesAreWhole
    <2>3. sink.pc \in {"posting", "posted"} => (registry'[sink.task].known <=> sink.kind = "update")
      BY <1>0, <1>3 DEF HistoriesAreWhole, SinkHoldsTask
    <2>4. ASSUME NEW e \in EventRecord, Told(e)', e.type = "completion"
          PROVE  /\ e.task \in Tasks /\ registry'[e.task].known
                 /\ HistoryTurn("assistant", e.run) \in Range(registry'[e.task].history)
      <3>1. CASE Told(e)
        BY <1>0, <1>3, <2>4, <3>1 DEF HistoriesAreWhole
      <3>2. CASE e = Event(type, t, r)
        BY <1>3, <1>5, <1>6, <2>4, <3>2
      <3>. QED  BY <2>1, <2>4, <3>1, <3>2
    <2>. QED  BY <2>2, <2>3, <2>4 DEF HistoriesAreWhole
  <1>. QED  BY <1>4, <1>7, <1>8, <1>9, <1>10, <1>11 DEF RunsInv

LEMMA ApplyKeeps ==
    ASSUME RunsInv, Apply
    PROVE  RunsInv'
  <1>. DEFINE t == poller.task
              r == poller.run
              entry == registry[t]
  <1>0. /\ registry \in [Tasks -> EntryRecord] /\ poller \in PollerRecord /\ PollerFollows
        /\ PollsCurrentRun /\ HistoriesAreWhole /\ Len(runs) \in Nat /\ Len(runs) <= MaxRuns
    BY RunsFacts
  <1>1. /\ poller.pc = "answered" /\ poller.pc # "emit"
        /\ UNCHANGED <<trail, minted, runs, line, cancelled, sink, received>>
    BY DEF Apply
  <1>2. /\ t \in Tasks /\ r \in 1..Len(runs) /\ entry.active = r
        /\ \A p \in poller.todo : p[1] # t /\ registry[p[1]].active = p[2]
    BY <1>0, <1>1 DEF PollerFollows, PollsCurrentRun
  <1>3. entry \in EntryRecord /\ r # 0 /\ r \in 1..MaxRuns
    BY <1>0, <1>2
  <1>4. /\ Paired(entry.history) /\ entry.history # <<>> /\ entry.history \in TurnsOfHistory
        /\ entry.history[Len(entry.history)] = HistoryTurn("user", r)
    BY <1>0, <1>2, <1>3 DEF HistoriesAreWhole, EntryRecord
  <1>. HIDE DEF t, r, entry
  <1>5. CASE registry' = registry /\ Moves("next")
    BY <1>1, <1>5, PollerGoesOn
  <1>6. CASE /\ poller.status \in InFlight /\ Says("progress")
             /\ registry' = [registry EXCEPT ![t].last = poller.status]
    <2>. DEFINE moved == [entry EXCEPT !.last = poller.status]
    <2>1. registry' = [registry EXCEPT ![t] = moved]
      BY <1>6 DEF entry
    <2>2. moved \in EntryRecord /\ moved.active = entry.active /\ moved.known = entry.known
          /\ moved.history = entry.history
      BY <1>3, <1>6 DEF EntryRecord, Statuses
    <2>. HIDE DEF moved
    <2>3. Range(entry.history) \subseteq Range(moved.history) /\ Paired(moved.history)
      BY <1>4, <2>2
    <2>. QED  BY <1>1, <1>2, <1>6, <2>1, <2>2, <2>3, ReportIsDue DEF t, r, entry
  <1>7. CASE /\ registry' = [registry EXCEPT ![t] = Cleared(@, poller.status, r)]
             /\ Says(IF poller.status = "completed" THEN "completion" ELSE "failure")
    <2>. DEFINE type == IF poller.status = "completed" THEN "completion" ELSE "failure"
                history == IF poller.status = "completed" THEN Append(entry.history, HistoryTurn("assistant", r))
                           ELSE entry.history
                idle == [entry EXCEPT !.active = 0]
    <2>1. registry' = [registry EXCEPT ![t] = [idle EXCEPT !.history = history]]
      BY <1>0, <1>2, <1>3, <1>7 DEF Cleared, entry, EntryRecord
    <2>2. /\ history \in TurnsOfHistory /\ Paired(history) /\ Range(entry.history) \subseteq Range(history)
          /\ type = "completion" => HistoryTurn("assistant", r) \in Range(history)
      BY <1>3, <1>4, HistoryGrows
    <2>3. idle \in EntryRecord /\ idle.active = 0 /\ idle.known = entry.known
      BY <1>3 DEF EntryRecord
    <2>. HIDE DEF idle, history
    <2>. DEFINE moved == [idle EXCEPT !.history = history]
    <2>4. moved \in EntryRecord /\ moved.active = 0 /\ moved.known = entry.known /\ moved.history = history
      BY <2>2, <2>3 DEF EntryRecord
    <2>5. registry' = [registry EXCEPT ![t] = moved]
      BY <2>1
    <2>. HIDE DEF moved
    <2>6. type \in {"progress", "completion", "failure"} /\ type # "progress" /\ Says(type)
      BY <1>7
    <2>. HIDE DEF type
    <2>7. moved.active = IF type = "progress" THEN r ELSE 0
      BY <2>4, <2>6
    <2>8. /\ Paired(moved.history) /\ Range(entry.history) \subseteq Range(moved.history)
          /\ type = "completion" => HistoryTurn("assistant", r) \in Range(moved.history)
      BY <2>2, <2>4
    <2>. QED  BY <1>1, <1>2, <2>4, <2>5, <2>6, <2>7, <2>8, ReportIsDue DEF t, r, entry
  <1>. QED  BY <1>2, <1>5, <1>6, <1>7 DEF Apply, t, r, entry

\* A task has its next run: nobody told, polls or is about to poll it by that time.
LEMMA RunIsKnown ==
    ASSUME RunsInv, sink.pc = "posted", NEW entry \in EntryRecord,
           registry' = [registry EXCEPT ![sink.task] = entry],
           UNCHANGED <<trail, minted, runs, line, cancelled, poller, received>>,
           sink' \in SinkRecord, sink'.pc = "emit" => sink'.event.type = "accepted",
           sink'.pc \notin {"posting", "posted"},
           entry.active = sink.run, entry.known, Paired(entry.history), entry.history # <<>>,
           entry.history[Len(entry.history)] = HistoryTurn("user", sink.run),
           registry[sink.task].known => Range(registry[sink.task].history) \subseteq Range(entry.history)
    PROVE  RunsInv'
  <1>. DEFINE t == sink.task
              r == sink.run
  <1>0. /\ registry \in [Tasks -> EntryRecord] /\ poller \in PollerRecord
        /\ HermesType /\ SinkHoldsTask /\ PollerFollows /\ RunsAreLast /\ PollsCurrentRun /\ OneReportPerRun
        /\ HistoriesAreWhole /\ Len(runs) \in Nat /\ Len(runs) <= MaxRuns
    BY RunsFacts DEF RunsInv
  <1>1. /\ t \in Tasks /\ t <= minted /\ registry[t].active = 0
        /\ r \in 1..Len(runs) /\ r # 0 /\ r <= Len(runs) /\ Before(trail[t], r)
        /\ poller.pc = "emit" /\ poller.event.task = t => poller.event.run < r
    BY <1>0 DEF SinkHoldsTask
  <1>. HIDE DEF t, r
  <1>2. /\ registry' \in [Tasks -> EntryRecord] /\ registry'[t] = entry
        /\ \A u \in Tasks : u # t => registry'[u] = registry[u]
    BY <1>0, <1>1 DEF t
  <1>3. entry.active = r
    BY DEF r
  <1>4. HermesType'
    BY <1>0, <1>2 DEF HermesType
  <1>5. SinkHoldsTask'
    BY DEF SinkHoldsTask
  <1>6. \A p \in poller.todo : p[1] \in Tasks /\ p[1] # t
    <2>1. \A p \in poller.todo : p[1] \in Tasks /\ p[2] # 0
      <3>1. \A p \in Tasks \X (1..MaxRuns) : p[1] \in Tasks /\ p[2] # 0
        OBVIOUS
      <3>2. poller.todo \subseteq Tasks \X (1..MaxRuns)
        BY <1>0 DEF PollerRecord
      <3>. QED  BY <3>1, <3>2
    <2>. QED  BY <1>0, <1>1, <2>1 DEF PollerFollows
  <1>7. poller.pc \in {"asking", "answered"} => poller.task \in Tasks /\ poller.task # t
    BY <1>0, <1>1 DEF PollerFollows, PollsCurrentRun
  <1>8. PollerFollows'
    <2>1. poller.event.run \in Nat /\ r \in Nat
      <3>1. poller.event \in EventRecord
        BY <1>0 DEF PollerRecord
      <3>. QED  BY <1>1, <3>1, EventRuns
    <2>2. ASSUME poller.pc = "emit"
          PROVE  IF Terminal(poller.event)
                   THEN registry'[poller.event.task].active = 0 \/ registry'[poller.event.task].active > poller.event.run
                   ELSE registry'[poller.event.task].active = poller.event.run
      <3>1. CASE poller.event.task = t
        <4>1. registry'[poller.event.task].active > poller.event.run /\ poller.event.run # 0
          BY <1>0, <1>1, <1>2, <1>3, <2>1, <2>2, <3>1 DEF PollerFollows
        <4>2. Terminal(poller.event)
          BY <1>0, <1>1, <2>2, <3>1, <4>1 DEF PollerFollows
        <4>. QED  BY <4>1, <4>2
      <3>2. CASE poller.event.task # t
        BY <1>0, <1>2, <2>2, <3>2 DEF PollerFollows
      <3>. QED  BY <3>1, <3>2
    <2>. QED  BY <1>0, <1>2, <1>6, <2>2 DEF PollerFollows
  <1>9. RunsAreLast'
    <2>1. UpTo(trail[t], r)
      <3>1. trail[t] \in Seq(EventRecord)
        BY <1>1, EntryFacts
      <3>2. \A i \in DOMAIN trail[t] : trail[t][i].run \in Nat
        BY <3>1, EventRuns
      <3>. QED  BY <1>1, <3>2 DEF Before, UpTo
    <2>2. ~(t > minted)
      BY <1>0, <1>1 DEF Tasks, HermesType
    <2>. SUFFICES ASSUME NEW u \in Tasks
                  PROVE  /\ registry'[u].active # 0 =>
                              registry'[u].active <= Len(runs) /\ UpTo(trail[u], registry'[u].active)
                         /\ u > minted => registry'[u].active = 0
                         /\ \A i \in DOMAIN trail[u] : trail[u][i].type # "accepted" => trail[u][i].run <= Len(runs)
      BY DEF RunsAreLast
    <2>3. CASE u = t
      BY <1>0, <1>1, <1>2, <1>3, <2>1, <2>2, <2>3 DEF RunsAreLast
    <2>4. CASE u # t
      BY <1>0, <1>2, <2>4 DEF RunsAreLast
    <2>. QED  BY <2>3, <2>4
  <1>10. RunsAreKeptApart'
    BY <1>0, <1>2, <1>7 DEF RunsAreKeptApart, PollsCurrentRun, OneReportPerRun
  <1>11. HistoriesAreWhole'
    <2>1. \A e : Told(e)' => Told(e)
      BY DEF Told, InLine
    <2>2. entry.history[Len(entry.history)] = HistoryTurn("user", r)
      BY DEF r
    <2>3. registry[t].known => Range(registry[t].history) \subseteq Range(entry.history)
      BY DEF t
    <2>4. ASSUME NEW u \in Tasks
          PROVE  LET history == registry'[u].history IN
                 /\ Paired(history)
                 /\ registry'[u].active # 0 =>
                      /\ registry'[u].known /\ history # <<>>
                      /\ history[Len(history)] = HistoryTurn("user", registry'[u].active)
                 /\ registry'[u].known => u <= minted
      <3>1. CASE u = t
        BY <1>1, <1>2, <1>3, <2>2, <3>1
      <3>2. CASE u # t
        BY <1>0, <1>2, <3>2 DEF HistoriesAreWhole
      <3>. QED  BY <3>1, <3>2
    <2>5. ASSUME NEW e \in EventRecord, Told(e)', e.type = "completion"
          PROVE  /\ e.task \in Tasks /\ registry'[e.task].known
                 /\ HistoryTurn("assistant", e.run) \in Range(registry'[e.task].history)
      <3>1. /\ e.task \in Tasks /\ registry[e.task].known
            /\ HistoryTurn("assistant", e.run) \in Range(registry[e.task].history)
        BY <1>0, <2>1, <2>5 DEF HistoriesAreWhole
      <3>. QED  BY <1>2, <2>3, <3>1
    <2>. QED  BY <2>4, <2>5 DEF HistoriesAreWhole
  <1>. QED  BY <1>4, <1>5, <1>8, <1>9, <1>10, <1>11 DEF RunsInv

LEMMA PostedKeeps ==
    ASSUME RunsInv, Posted
    PROVE  RunsInv'
  <1>. DEFINE t == sink.task
              r == sink.run
              turn == HistoryTurn("user", r)
  <1>0. /\ registry \in [Tasks -> EntryRecord] /\ SinkHoldsTask /\ HistoriesAreWhole
        /\ Len(runs) \in Nat /\ Len(runs) <= MaxRuns /\ sink \in SinkRecord
    BY RunsFacts
  <1>1. /\ sink.pc = "posted" /\ UNCHANGED <<trail, minted, runs, line, cancelled, poller, received>>
    BY DEF Posted
  <1>2. /\ t \in Tasks /\ t \in 0..MaxTasks /\ r \in 1..Len(runs) /\ r \in 1..MaxRuns /\ r \in 0..MaxRuns
        /\ (registry[t].known <=> sink.kind = "update")
    BY <1>0, <1>1 DEF SinkHoldsTask, HistoriesAreWhole, Tasks
  <1>3. registry[t] \in EntryRecord /\ registry[t].history \in TurnsOfHistory /\ Paired(registry[t].history)
    BY <1>0, <1>2 DEF EntryRecord, HistoriesAreWhole
  <1>4. CASE sink.kind = "create"
    <2>. DEFINE entry == [known |-> TRUE, active |-> r, last |-> "none", history |-> <<turn>>]
    <2>1. registry' = [registry EXCEPT ![t] = entry]
          /\ sink' = [IdleSink EXCEPT !.pc = "emit", !.event = Event("accepted", t, r)]
      BY <1>4 DEF Posted
    <2>2. turn \in [role : {"user", "assistant"}, run : 1..MaxRuns] /\ turn.role = "user"
      BY <1>2 DEF HistoryTurn
    <2>. HIDE DEF turn
    <2>3. <<turn>> \in TurnsOfHistory /\ Paired(<<turn>>) /\ <<turn>> # <<>> /\ <<turn>>[Len(<<turn>>)] = turn
      BY <2>2 DEF TurnsOfHistory, Paired
    <2>4. entry \in EntryRecord /\ entry.active = r /\ entry.known /\ entry.history = <<turn>>
      BY <1>2, <2>3 DEF EntryRecord
    <2>. HIDE DEF entry
    <2>5. Event("accepted", t, r) \in EventRecord /\ Event("accepted", t, r).type = "accepted"
      BY <1>2 DEF Event, EventRecord, EventTypes
    <2>6. sink' \in SinkRecord /\ sink'.pc = "emit" /\ sink'.event.type = "accepted"
      BY <2>1, <2>5, SinkSays
    <2>7. ~registry[t].known
      BY <1>2, <1>4
    <2>. QED  BY <1>1, <2>1, <2>3, <2>4, <2>6, <2>7, RunIsKnown DEF t, r, turn
  <1>5. CASE sink.kind # "create"
    <2>1. registry[t].known
      <3>1. sink.kind \in {"create", "update"}
        BY <1>0, <1>1 DEF SinkHoldsTask
      <3>. QED  BY <1>2, <1>5, <3>1
    <2>. DEFINE a == [registry[t] EXCEPT !.active = r]
                b == [a EXCEPT !.last = "none"]
                history == Append(registry[t].history, turn)
                entry == [b EXCEPT !.history = history]
    <2>2. sink' = IdleSink
      BY <1>5 DEF Posted
    <2>3. registry' = [registry EXCEPT ![t] = entry]
      BY <1>0, <1>2, <1>3, <1>5 DEF Posted, EntryRecord
    <2>4. a \in EntryRecord /\ a.active = r /\ a.known
      BY ONLY <1>2, <1>3, <2>1 DEF EntryRecord
    <2>. HIDE DEF a
    <2>5. b \in EntryRecord /\ b.active = r /\ b.known
      BY ONLY <2>4 DEF EntryRecord
    <2>. HIDE DEF b
    <2>6. /\ history \in TurnsOfHistory /\ history # <<>> /\ history[Len(history)] = turn
          /\ Range(registry[t].history) \subseteq Range(history) /\ Paired(history)
      BY <1>2, <1>3, HistoryGrows
    <2>. HIDE DEF history
    <2>7. entry \in EntryRecord /\ entry.active = r /\ entry.known /\ entry.history = history
      BY ONLY <2>5, <2>6 DEF EntryRecord
    <2>. HIDE DEF entry
    <2>8. sink' \in SinkRecord /\ sink'.pc = "idle"
      BY <2>2, Idle
    <2>. QED  BY <1>1, <2>3, <2>6, <2>7, <2>8, RunIsKnown DEF t, r, turn
  <1>. QED  BY <1>4, <1>5

-----------------------------------------------------------------------------
(***************************************************************************)
(* Hermes: emit.                                                           *)
(***************************************************************************)
LEMMA Emitted ==
    ASSUME RunsInv, NEW from \in {"sink", "poller"}, NEW e \in EventRecord, Emit(from, e)
    PROVE  /\ trail' \in [Tasks -> Seq(EventRecord)]
           /\ \A t \in Tasks : \/ trail'[t] = trail[t]
                               \/ t = e.task /\ e.type # "rejected" /\ trail'[t] = Push(trail[t], e)
           /\ line' \in Seq(Entries)
           /\ \A x : InLine(line', x) => InLine(line, x) \/ x = e
  <1>0. trail \in [Tasks -> Seq(EventRecord)] /\ line \in Seq(Entries)
    BY RunsFacts
  <1>1. /\ trail' \in [Tasks -> Seq(EventRecord)]
        /\ \A t \in Tasks : \/ trail'[t] = trail[t]
                            \/ t = e.task /\ e.type # "rejected" /\ trail'[t] = Push(trail[t], e)
    <2>1. CASE HasTask(e)
      <3>1. trail' = [trail EXCEPT ![e.task] = Push(@, e)] /\ e.type # "rejected"
        BY <2>1 DEF Emit, HasTask
      <3>2. \A t \in Tasks : Push(trail[t], e) \in Seq(EventRecord)
        BY <1>0, PushOrder
      <3>. QED  BY <1>0, <3>1, <3>2
    <2>2. CASE ~HasTask(e)
      BY <1>0, <2>2 DEF Emit
    <2>. QED  BY <2>1, <2>2
  <1>2. line' \in Seq(Entries) /\ \A x : InLine(line', x) => InLine(line, x) \/ x = e
    <2>1. CASE cancelled
      BY <1>0, <2>1 DEF Emit
    <2>2. CASE ~cancelled
      <3>1. line' = Enqueued(line, from, e)
        BY <2>2 DEF Emit
      <3>2. [from |-> from, event |-> e] \in Entries
        BY DEF Entries
      <3>3. /\ Enqueued(line, from, e) \in Seq(Entries)
            /\ \A i \in DOMAIN Enqueued(line, from, e) :
                 \/ Enqueued(line, from, e)[i].event = e
                 \/ i \in DOMAIN line /\ Enqueued(line, from, e)[i] = line[i]
        BY <1>0, <3>2, LineGrows
      <3>. QED  BY <3>1, <3>3 DEF InLine
    <2>. QED  BY <2>1, <2>2
  <1>. QED  BY <1>1, <1>2

\* What is left to show when an event was emitted.
LEMMA EmitKeeps ==
    ASSUME RunsInv, UNCHANGED <<registry, minted, runs, cancelled, received>>,
           NEW e \in EventRecord, e.type = "completion" => Told(e),
           trail' \in [Tasks -> Seq(EventRecord)], line' \in Seq(Entries),
           \A x : InLine(line', x) => InLine(line, x) \/ x = e,
           sink' \in SinkRecord, poller' \in PollerRecord, poller'.todo \subseteq poller.todo,
           poller' = poller \/ poller'.pc \in {"sending", "stopped"},
           sink' = sink \/ sink'.pc \in {"idle", "sending"},
           \A t \in Tasks :
             /\ Ordered(trail'[t])
             /\ \A i \in DOMAIN trail'[t] : trail'[t][i].type # "accepted" => trail'[t][i].run <= Len(runs)
             /\ registry[t].active # 0 => UpTo(trail'[t], registry[t].active)
             /\ sink'.pc = "posted" /\ sink'.task = t => Before(trail'[t], sink'.run)
             /\ poller'.pc = "emit" /\ poller'.event.task = t => UpTo(trail'[t], poller'.event.run)
    PROVE  RunsInv'
  <1>0. /\ HermesType /\ SinkHoldsTask /\ PollerFollows /\ RunsAreLast /\ PollsCurrentRun /\ OneReportPerRun
        /\ HistoriesAreWhole
    BY RunsFacts DEF RunsInv
  <1>1. HermesType'
    BY <1>0 DEF HermesType, Entries
  <1>2. SinkHoldsTask'
    BY <1>0 DEF SinkHoldsTask
  <1>3. PollerFollows'
    <2>1. CASE poller' = poller
      BY <1>0, <2>1 DEF PollerFollows
    <2>2. CASE poller'.pc \in {"sending", "stopped"}
      BY <1>0, <2>2 DEF PollerFollows
    <2>. QED  BY <2>1, <2>2
  <1>4. RunsAreLast'
    BY <1>0 DEF RunsAreLast
  <1>5. RunsAreKeptApart'
    BY <1>0 DEF RunsAreKeptApart, PollsCurrentRun, OneReportPerRun
  <1>6. HistoriesAreWhole'
    <2>1. \A x : Told(x)' => Told(x) \/ x = e
      BY DEF Told, InLine
    <2>2. \A x \in EventRecord : Told(x)' /\ x.type = "completion" => Told(x)
      BY <2>1
    <2>. QED  BY <1>0, <2>2 DEF HistoriesAreWhole
  <1>. QED  BY <1>1, <1>2, <1>3, <1>4, <1>5, <1>6 DEF RunsInv

LEMMA SinkEmitsKeeps ==
    ASSUME RunsInv, SinkEmits
    PROVE  RunsInv'
  <1>. DEFINE e == sink.event
  <1>0. /\ sink \in SinkRecord /\ poller \in PollerRecord /\ SinkHoldsTask /\ PollerFollows /\ RunsAreLast
        /\ OneReportPerRun /\ trail \in [Tasks -> Seq(EventRecord)] /\ Len(runs) \in Nat
    BY RunsFacts
  <1>1. /\ sink.pc = "emit" /\ Emit("sink", e)
        /\ sink' = IF cancelled THEN IdleSink ELSE [IdleSink EXCEPT !.pc = "sending"]
        /\ UNCHANGED <<registry, minted, runs, cancelled, poller, received>>
    BY DEF SinkEmits
  <1>2. e \in EventRecord /\ e.type \in {"accepted", "rejected"}
    BY <1>0, <1>1 DEF SinkRecord, SinkHoldsTask
  <1>3. sink' \in SinkRecord /\ sink'.pc \in {"idle", "sending"}
    BY <1>1, Idle, SinkMoves
  <1>. HIDE DEF e
  <1>4. /\ trail' \in [Tasks -> Seq(EventRecord)]
        /\ \A t \in Tasks : \/ trail'[t] = trail[t]
                            \/ t = e.task /\ e.type # "rejected" /\ trail'[t] = Push(trail[t], e)
        /\ line' \in Seq(Entries)
        /\ \A x : InLine(line', x) => InLine(line, x) \/ x = e
    BY <1>1, <1>2, Emitted
  <1>5. ASSUME NEW t \in Tasks
        PROVE  /\ Ordered(trail'[t])
               /\ \A i \in DOMAIN trail'[t] : trail'[t][i].type # "accepted" => trail'[t][i].run <= Len(runs)
               /\ registry[t].active # 0 => UpTo(trail'[t], registry[t].active)
               /\ poller'.pc = "emit" /\ poller'.event.task = t => UpTo(trail'[t], poller'.event.run)
    <2>2. \A i \in DOMAIN trail[t] : trail[t][i].type # "accepted" => trail[t][i].run <= Len(runs)
      BY <1>0 DEF RunsAreLast
    <2>3. poller.pc = "emit" /\ poller.event.task = t => UpTo(trail[t], poller.event.run)
      BY <1>0 DEF PollerFollows
    <2>4. Ordered(trail[t]) /\ (registry[t].active # 0 => UpTo(trail[t], registry[t].active))
      BY <1>0 DEF OneReportPerRun, RunsAreLast
    <2>5. CASE trail'[t] = trail[t]
      BY <1>1, <2>2, <2>3, <2>4, <2>5
    <2>6. CASE e.type = "accepted" /\ trail'[t] = Push(trail[t], e)
      <3>1. trail[t] \in Seq(EventRecord) /\ registry[t].active \in Nat
        BY EntryFacts
      <3>2. /\ Ordered(trail[t]) => Ordered(trail'[t])
            /\ \A run \in Nat : Before(trail[t], run) => Before(trail'[t], run)
            /\ \A run \in Nat : UpTo(trail[t], run) => UpTo(trail'[t], run)
        BY <1>2, <2>6, <3>1, AcceptedPushed
      <3>3. \A i \in DOMAIN trail[t] : trail[t][i].run \in Nat
        BY <3>1, EventRuns
      <3>4. Before(trail[t], Len(runs) + 1)
        BY <1>0, <2>2, <3>3 DEF Before
      <3>5. Before(trail'[t], Len(runs) + 1)
        BY <1>0, <3>2, <3>4
      <3>6. \A i \in DOMAIN trail'[t] : trail'[t][i].run \in Nat
        <4>1. trail'[t] \in Seq(EventRecord)
          BY <1>4
        <4>. QED  BY <4>1, EventRuns
      <3>7. \A i \in DOMAIN trail'[t] : trail'[t][i].type # "accepted" => trail'[t][i].run <= Len(runs)
        BY <1>0, <3>5, <3>6 DEF Before
      <3>8. poller.event.run \in Nat
        <4>1. poller.event \in EventRecord
          BY <1>0 DEF PollerRecord
        <4>. QED  BY <4>1, EventRuns
      <3>. QED  BY <1>1, <2>3, <2>4, <3>1, <3>2, <3>7, <3>8
    <2>. QED  BY <1>2, <1>4, <2>5, <2>6
  <1>6. e.type = "completion" => Told(e)
    BY <1>2
  <1>. QED  BY <1>0, <1>1, <1>2, <1>3, <1>4, <1>5, <1>6, EmitKeeps

LEMMA PollerEmitsKeeps ==
    ASSUME RunsInv, PollerEmits
    PROVE  RunsInv'
  <1>. DEFINE e == poller.event
  <1>0. /\ sink \in SinkRecord /\ poller \in PollerRecord /\ SinkHoldsTask /\ PollerFollows /\ RunsAreLast
        /\ OneReportPerRun /\ trail \in [Tasks -> Seq(EventRecord)] /\ Len(runs) \in Nat
        /\ Resting \in PollerRecord /\ Resting.todo = {}
    BY RunsFacts, Idle
  <1>1. /\ poller.pc = "emit" /\ Emit("poller", e)
        /\ poller' = IF cancelled THEN [Resting EXCEPT !.pc = "stopped"]
                                  ELSE [Resting EXCEPT !.pc = "sending", !.todo = poller.todo]
        /\ UNCHANGED <<registry, minted, runs, cancelled, sink, received>>
    BY DEF PollerEmits
  <1>2. /\ e \in EventRecord /\ e.type \in {"progress", "completion", "failure"} /\ e.task \in Tasks
        /\ e.run \in 1..Len(runs) /\ UpTo(trail[e.task], e.run)
        /\ IF Terminal(e) THEN registry[e.task].active = 0 \/ registry[e.task].active > e.run
                          ELSE registry[e.task].active = e.run
    <2>1. poller.event \in EventRecord
      BY <1>0 DEF PollerRecord
    <2>. QED  BY <1>0, <1>1, <2>1 DEF PollerFollows
  <1>3. poller' \in PollerRecord /\ poller'.pc \in {"sending", "stopped"} /\ poller'.todo \subseteq poller.todo
    <2>1. CASE cancelled
      <3>1. poller' = [Resting EXCEPT !.pc = "stopped"]
        BY <1>1, <2>1
      <3>. QED  BY <1>0, <3>1, PollerMovesOn
    <2>2. CASE ~cancelled
      <3>. DEFINE a == [Resting EXCEPT !.pc = "sending"]
      <3>1. poller' = [a EXCEPT !.todo = poller.todo]
        BY <1>1, <2>2
      <3>2. a \in PollerRecord /\ a.pc = "sending"
        BY <1>0, PollerMovesOn
      <3>3. poller.todo \in SUBSET (Tasks \X (1..MaxRuns))
        BY <1>0 DEF PollerRecord
      <3>. HIDE DEF a
      <3>. QED  BY ONLY <3>1, <3>2, <3>3 DEF PollerRecord
    <2>. QED  BY <2>1, <2>2
  <1>4. Told(e)
    BY <1>1 DEF Told
  <1>. HIDE DEF e
  <1>5. /\ trail' \in [Tasks -> Seq(EventRecord)]
        /\ \A t \in Tasks : \/ trail'[t] = trail[t]
                            \/ t = e.task /\ e.type # "rejected" /\ trail'[t] = Push(trail[t], e)
        /\ line' \in Seq(Entries)
        /\ \A x : InLine(line', x) => InLine(line, x) \/ x = e
    BY <1>1, <1>2, Emitted
  <1>6. ASSUME NEW t \in Tasks
        PROVE  /\ Ordered(trail'[t])
               /\ \A i \in DOMAIN trail'[t] : trail'[t][i].type # "accepted" => trail'[t][i].run <= Len(runs)
               /\ registry[t].active # 0 => UpTo(trail'[t], registry[t].active)
               /\ sink.pc = "posted" /\ sink.task = t => Before(trail'[t], sink.run)
    <2>1. /\ Ordered(trail[t])
          /\ registry[t].active # 0 => UpTo(trail[t], registry[t].active)
          /\ \A i \in DOMAIN trail[t] : trail[t][i].type # "accepted" => trail[t][i].run <= Len(runs)
          /\ sink.pc = "posted" /\ sink.task = t => Before(trail[t], sink.run) /\ sink.run \in 1..Len(runs)
      BY <1>0 DEF OneReportPerRun, RunsAreLast, SinkHoldsTask
    <2>2. CASE trail'[t] = trail[t]
      BY <2>1, <2>2
    <2>3. CASE t = e.task /\ trail'[t] = Push(trail[t], e)
      <3>1. trail[t] \in Seq(EventRecord) /\ registry[t].active \in Nat
        BY EntryFacts
      <3>2. /\ Ordered(trail'[t])
            /\ \A run \in Nat : e.run < run => Before(trail'[t], run) /\ UpTo(trail'[t], run)
            /\ ~Terminal(e) => UpTo(trail'[t], e.run)
            /\ \A i \in DOMAIN trail'[t] : trail'[t][i].type # "accepted" => trail'[t][i].run <= e.run
        BY <1>2, <2>1, <2>3, <3>1, ReportPushed
      <3>3. \A i \in DOMAIN trail'[t] : trail'[t][i].run \in Nat
        <4>1. trail'[t] \in Seq(EventRecord)
          BY <1>5
        <4>. QED  BY <4>1, EventRuns
      <3>4. \A i \in DOMAIN trail'[t] : trail'[t][i].type # "accepted" => trail'[t][i].run <= Len(runs)
        BY <1>0, <1>2, <3>2, <3>3
      <3>5. registry[t].active # 0 => UpTo(trail'[t], registry[t].active)
        BY <1>2, <2>3, <3>1, <3>2
      <3>6. sink.pc = "posted" /\ sink.task = t => Before(trail'[t], sink.run)
        <4>1. sink.pc = "posted" /\ sink.task = t => e.run < sink.run
          BY <1>0, <1>1, <2>3 DEF SinkHoldsTask, e
        <4>. QED  BY <1>0, <2>1, <3>2, <4>1
      <3>. QED  BY <3>2, <3>4, <3>5, <3>6
    <2>. QED  BY <1>5, <2>2, <2>3
  <1>. QED  BY <1>0, <1>1, <1>2, <1>3, <1>4, <1>5, <1>6, EmitKeeps

-----------------------------------------------------------------------------
LEMMA RunsInit ==
    ASSUME HermesInit
    PROVE  RunsInv
  <1>0. /\ registry = [t \in Tasks |-> NoEntry] /\ trail = [t \in Tasks |-> <<>>]
        /\ minted = 0 /\ runs = <<>> /\ line = <<>> /\ cancelled = FALSE
        /\ sink = IdleSink /\ poller = Resting /\ received = {}
    BY DEF HermesInit
  <1>1. NoEntry \in EntryRecord /\ NoEntry.active = 0 /\ ~NoEntry.known /\ NoEntry.history = <<>>
    <2>1. <<>> \in TurnsOfHistory
      BY DEF TurnsOfHistory
    <2>. QED  BY <2>1 DEF NoEntry, EntryRecord
  <1>2. \A t \in Tasks : registry[t] = NoEntry /\ trail[t] = <<>>
    BY <1>0
  <1>3. HermesType
    <2>1. registry \in [Tasks -> EntryRecord] /\ trail \in [Tasks -> Seq(EventRecord)]
      BY <1>0, <1>1
    <2>2. runs \in Seq([task : 0..MaxTasks, status : Statuses]) /\ Len(runs) <= MaxRuns /\ minted \in 0..MaxTasks
      BY <1>0
    <2>3. line \in Seq([from : {"sink", "poller"}, event : EventRecord])
      BY <1>0
    <2>. QED  BY <1>0, <2>1, <2>2, <2>3, Idle DEF HermesType
  <1>4. SinkHoldsTask
    BY <1>0, Idle DEF SinkHoldsTask
  <1>5. PollerFollows
    BY <1>0, Idle DEF PollerFollows
  <1>6. RunsAreLast
    BY <1>1, <1>2 DEF RunsAreLast
  <1>7. RunsAreKeptApart
    BY <1>0, <1>2, Idle DEF RunsAreKeptApart, PollsCurrentRun, OneReportPerRun, Ordered
  <1>8. HistoriesAreWhole
    <2>1. Paired(<<>>)
      BY DEF Paired
    <2>2. \A e : ~Told(e)
      BY <1>0, Idle DEF Told, InLine
    <2>. QED  BY <1>0, <1>1, <1>2, <2>1, <2>2, Idle DEF HistoriesAreWhole
  <1>. QED  BY <1>3, <1>4, <1>5, <1>6, <1>7, <1>8 DEF RunsInv

LEMMA RunsStep ==
    ASSUME RunsInv, HermesNext
    PROVE  RunsInv'
  <1>1. CASE Create
    BY <1>1, CreateKeeps
  <1>2. CASE \E t \in Tasks : Update(t)
    BY <1>2, UpdateKeeps
  <1>3. CASE RunStarts
    BY <1>3, RunStartsKeeps
  <1>4. CASE PostFails
    BY <1>4, PostFailsKeeps
  <1>5. CASE Posted
    BY <1>5, PostedKeeps
  <1>6. CASE SinkEmits
    BY <1>6, SinkEmitsKeeps
  <1>7. CASE SinkSent \/ SinkDropped
    BY <1>7, SinkRests
  <1>8. CASE Sweep
    BY <1>8, SweepKeeps
  <1>9. CASE AskNext
    BY <1>9, AskNextKeeps
  <1>10. CASE Apply
    BY <1>10, ApplyKeeps
  <1>11. CASE PollerEmits
    BY <1>11, PollerEmitsKeeps
  <1>12. CASE PollerSent
    BY <1>12, PollerGoesOn DEF PollerSent
  <1>13. CASE ServerAnswers
    BY <1>13, ServerAnswersKeeps
  <1>14. CASE PollFails
    BY <1>14, PollerGoesOn DEF PollFails
  <1>15. CASE (\E r \in DOMAIN runs : RunMoves(r)) \/ SourceCloses \/ Cancel
    BY <1>15, OthersMove
  <1>16. CASE NextEvent
    BY <1>16, NextEventKeeps
  <1>. QED  BY <1>1, <1>2, <1>3, <1>4, <1>5, <1>6, <1>7, <1>8, <1>9, <1>10, <1>11, <1>12, <1>13, <1>14, <1>15,
             <1>16 DEF HermesNext, Sink, Poller

\* RunsInv is about these alone.
LEMMA RunsStutter ==
    ASSUME RunsInv, UNCHANGED hermes
    PROVE  RunsInv'
  BY DEF hermes, RunsInv, HermesType, SinkHoldsTask, PollerFollows, RunsAreLast, RunsAreKeptApart,
         PollsCurrentRun, OneReportPerRun, HistoriesAreWhole, Told, InLine

\* A follow-up takes what the task's history holds.
LEMMA FollowUps ==
    ASSUME RunsInv, HermesNext
    PROVE  FollowUpKnowsAnswers
  <1>. SUFFICES ASSUME sink.pc = "idle", sink'.pc = "posting", sink'.kind = "update"
                PROVE  /\ \A e \in received : e.task = sink'.task /\ e.type = "completion" =>
                              HistoryTurn("assistant", e.run) \in Range(sink'.history)
                       /\ Paired(sink'.history)
    BY DEF FollowUpKnowsAnswers
  <1>0. sink \in SinkRecord /\ received \subseteq EventRecord /\ HistoriesAreWhole
    BY RunsFacts
  <1>1. \/ sink' = sink \/ sink' = IdleSink \/ sink'.pc = "emit" \/ Create \/ \E t \in Tasks : Update(t)
    BY DEF HermesNext, Sink, Poller, RunStarts, PostFails, Posted, SinkEmits, SinkSent, SinkDropped, Sweep, AskNext,
           Apply, PollerEmits, PollerSent, ServerAnswers, PollFails, RunMoves, NextEvent, SourceCloses, Cancel
  <1>2. ~Create
    <2>1. ASSUME Create
          PROVE  FALSE
      <3>1. minted + 1 \in 0..MaxTasks
        <4>1. minted < MaxTasks /\ minted \in 0..MaxTasks
          BY <2>1, RunsFacts DEF Create
        <4>. QED  BY <4>1
      <3>2. sink'.kind = "create"
        BY <2>1, <3>1, SinkCreates DEF Create
      <3>. QED  BY <3>2
    <2>. QED  BY <2>1
  <1>3. PICK t \in Tasks : Update(t)
    BY <1>1, <1>2, Idle
  <1>4. sink'.task = t /\ sink'.history = registry[t].history
    <2>. QED  BY <1>3 DEF Update, IdleSink
  <1>5. \A e \in received : Told(e)
    BY DEF Told
  <1>. QED  BY <1>0, <1>4, <1>5 DEF HistoriesAreWhole

-----------------------------------------------------------------------------
(***************************************************************************)
(* The webhook: its data.                                                  *)
(***************************************************************************)
LEMMA WebhookFacts ==
    ASSUME Webhook!SlotsInv
    PROVE  /\ registry \in [Webhook!Tasks -> Webhook!EntryRecord] /\ minted \in 0..MaxWebhookTasks
           /\ workers \in [Webhook!Turns -> Webhook!WorkerRecord]
           /\ line \in Seq(Webhook!LineEntry) /\ received \subseteq Webhook!EventRecord
           /\ cancelled \in BOOLEAN /\ sink \in Webhook!SinkRecord
           /\ Webhook!WebhookType /\ Webhook!SlotsAreHeld /\ Webhook!OneTurnAtATime
           /\ Webhook!AnswersAreRemembered
  BY DEF Webhook!SlotsInv, Webhook!WebhookType

LEMMA WebhookIdle ==
    /\ Webhook!NoEvent \in Webhook!EventRecord /\ Webhook!NoEvent.type = "none"
    /\ Webhook!IdleSink \in Webhook!SinkRecord /\ Webhook!IdleSink.pc = "idle"
    /\ Webhook!NoWorker \in Webhook!WorkerRecord /\ Webhook!NoWorker.pc = "none"
    /\ Webhook!NoWorker.outcome = "none" /\ Webhook!NoWorker.replay = <<>>
  <1>1. Webhook!NoEvent \in Webhook!EventRecord /\ Webhook!NoEvent.type = "none"
    BY DEF Webhook!NoEvent, Webhook!Event, Webhook!EventRecord
  <1>2. Webhook!IdleSink \in Webhook!SinkRecord /\ Webhook!IdleSink.pc = "idle"
    BY <1>1 DEF Webhook!IdleSink, Webhook!SinkRecord
  <1>3. <<>> \in Seq(Webhook!Turns)
    OBVIOUS
  <1>4. Webhook!NoWorker \in Webhook!WorkerRecord /\ Webhook!NoWorker.pc = "none"
        /\ Webhook!NoWorker.outcome = "none" /\ Webhook!NoWorker.replay = <<>>
    BY <1>3 DEF Webhook!NoWorker, Webhook!WorkerRecord
  <1>. QED  BY <1>1, <1>2, <1>4

\* An answer joins the transcript, and pushes an answer out of a full one only.
LEMMA TranscriptGrows ==
    ASSUME NEW transcript \in Seq(Webhook!Turns), NEW turn \in Webhook!Turns,
           Len(transcript) <= TranscriptCapacity
    PROVE  LET longer == Webhook!Push(transcript, turn) IN
           /\ longer \in Seq(Webhook!Turns) /\ Len(longer) <= TranscriptCapacity
           /\ turn \in Webhook!ToSet(longer)
           /\ \A v : Webhook!Remembered(transcript, v) => Webhook!Remembered(longer, v)
  <1>. DEFINE T == Webhook!Turns
              longer == Webhook!Push(transcript, turn)
  <1>0. transcript \in Seq(T) /\ turn \in T /\ Len(transcript) \in Nat /\ DOMAIN transcript = 1..Len(transcript)
    OBVIOUS
  <1>. HIDE DEF T
  <1>1. CASE Len(transcript) = TranscriptCapacity
    <2>1. transcript # <<>> /\ Len(transcript) >= 1
      BY <1>0, <1>1
    <2>2. Tail(transcript) \in Seq(T) /\ Len(Tail(transcript)) = Len(transcript) - 1
      BY <1>0, <2>1
    <2>. DEFINE rest == Tail(transcript)
    <2>3. longer = Append(rest, turn)
      BY <1>1 DEF Webhook!Push
    <2>. HIDE DEF rest, longer
    <2>4. /\ longer \in Seq(T) /\ Len(longer) = Len(rest) + 1 /\ Len(rest) \in Nat
          /\ longer[Len(rest) + 1] = turn /\ DOMAIN longer = 1..(Len(rest) + 1)
      BY <1>0, <2>2, <2>3 DEF rest
    <2>5. Len(longer) = TranscriptCapacity
      BY <1>0, <1>1, <2>2, <2>4 DEF rest
    <2>6. turn \in Webhook!ToSet(longer)
      BY <2>4 DEF Webhook!ToSet
    <2>. QED  BY <2>4, <2>5, <2>6 DEF T, longer, Webhook!Remembered
  <1>2. CASE Len(transcript) # TranscriptCapacity
    <2>1. longer = Append(transcript, turn)
      BY <1>2 DEF Webhook!Push
    <2>. HIDE DEF longer
    <2>2. /\ longer \in Seq(T) /\ Len(longer) = Len(transcript) + 1 /\ DOMAIN longer = 1..(Len(transcript) + 1)
          /\ longer[Len(transcript) + 1] = turn /\ \A i \in 1..Len(transcript) : longer[i] = transcript[i]
      BY <1>0, <2>1
    <2>3. Len(longer) <= TranscriptCapacity
      <3>1. \A a, b \in Nat : a <= b /\ a # b => a + 1 <= b
        OBVIOUS
      <3>2. TranscriptCapacity \in Nat /\ Len(transcript) <= TranscriptCapacity
        OBVIOUS
      <3>. QED  BY ONLY <1>0, <1>2, <2>2, <3>1, <3>2
    <2>4. 1..Len(transcript) \subseteq DOMAIN longer /\ Len(transcript) + 1 \in DOMAIN longer
      BY <1>0, <2>2
    <2>5. turn \in Webhook!ToSet(longer) /\ \A v \in Webhook!ToSet(transcript) : v \in Webhook!ToSet(longer)
      BY <1>0, <2>2, <2>4 DEF Webhook!ToSet
    <2>6. \A v : Webhook!Remembered(transcript, v) => Webhook!Remembered(longer, v)
      BY <1>2, <2>5 DEF Webhook!Remembered
    <2>. QED  BY <2>2, <2>3, <2>5, <2>6 DEF T, longer
  <1>. QED  BY <1>1, <1>2

\* An event goes on its way, or the transport is cancelled.
LEMMA WebhookSends ==
    ASSUME Webhook!SlotsInv, NEW from \in 0..MaxTurns, NEW e \in Webhook!EventRecord, Webhook!Send(from, e)
    PROVE  /\ line' \in Seq(Webhook!LineEntry)
           /\ \A x : Webhook!InLine(line', x) => Webhook!InLine(line, x) \/ (~cancelled /\ x = e)
  <1>0. line \in Seq(Webhook!LineEntry)
    BY WebhookFacts
  <1>1. CASE cancelled
    BY <1>0, <1>1 DEF Webhook!Send
  <1>2. CASE ~cancelled
    <2>1. [from |-> from, event |-> e] \in Webhook!LineEntry
      BY DEF Webhook!LineEntry
    <2>2. line' = Enqueued(line, from, e)
      BY <1>2 DEF Webhook!Send, Webhook!Enqueued, Enqueued
    <2>3. /\ Enqueued(line, from, e) \in Seq(Webhook!LineEntry)
          /\ \A i \in DOMAIN Enqueued(line, from, e) :
               \/ Enqueued(line, from, e)[i].event = e
               \/ i \in DOMAIN line /\ Enqueued(line, from, e)[i] = line[i]
      BY <1>0, <2>1, LineGrows
    <2>. QED  BY <1>2, <2>2, <2>3 DEF Webhook!InLine
  <1>. QED  BY <1>1, <1>2

\* The turn that starts next is one that never ran.
LEMMA TurnStarts ==
    ASSUME Webhook!SlotsInv, NEW task \in 0..MaxWebhookTasks, NEW replay \in Seq(Webhook!Turns),
           Webhook!Spawn(task, replay)
    PROVE  \E w \in Webhook!Turns :
             /\ workers[w].pc = "none" /\ workers' \in [Webhook!Turns -> Webhook!WorkerRecord]
             /\ workers'[w].pc = "posting" /\ workers'[w].task = task /\ workers'[w].replay = replay
             /\ workers'[w].outcome = "none"
             /\ \A v \in Webhook!Turns : v # w => workers'[v] = workers[v]
  <1>. DEFINE a == [Webhook!NoWorker EXCEPT !.pc = "posting"]
              b == [a EXCEPT !.task = task]
              started == [b EXCEPT !.replay = replay]
  <1>1. PICK w \in Webhook!Turns : workers[w].pc = "none" /\ workers' = [workers EXCEPT ![w] = started]
    BY DEF Webhook!Spawn, Webhook!Unstarted
  <1>5. a \in Webhook!WorkerRecord /\ a.pc = "posting" /\ a.outcome = "none"
    BY WebhookIdle DEF Webhook!WorkerRecord
  <1>. HIDE DEF a
  <1>6. b \in Webhook!WorkerRecord /\ b.pc = "posting" /\ b.outcome = "none" /\ b.task = task
    BY ONLY <1>5, task \in 0..MaxWebhookTasks DEF Webhook!WorkerRecord
  <1>. HIDE DEF b
  <1>7. /\ started \in Webhook!WorkerRecord /\ started.pc = "posting" /\ started.outcome = "none"
        /\ started.task = task /\ started.replay = replay
    BY ONLY <1>6, replay \in Seq(Webhook!Turns) DEF Webhook!WorkerRecord
  <1>. HIDE DEF started
  <1>8. workers \in [Webhook!Turns -> Webhook!WorkerRecord]
    BY WebhookFacts
  <1>. QED  BY <1>1, <1>7, <1>8

\* A worker moves on.
LEMMA WorkerMoves ==
    ASSUME Webhook!SlotsInv, NEW w \in Webhook!Turns,
           NEW pc \in {"none", "posting", "resolved", "record", "emit", "sending", "done"},
           workers' = [workers EXCEPT ![w].pc = pc]
    PROVE  /\ workers' \in [Webhook!Turns -> Webhook!WorkerRecord]
           /\ workers'[w].pc = pc /\ workers'[w].task = workers[w].task
           /\ workers'[w].outcome = workers[w].outcome
           /\ \A v \in Webhook!Turns : v # w => workers'[v] = workers[v]
  <1>. DEFINE moved == [workers[w] EXCEPT !.pc = pc]
  <1>1. workers \in [Webhook!Turns -> Webhook!WorkerRecord]
    BY WebhookFacts
  <1>2. workers' = [workers EXCEPT ![w] = moved]
    BY <1>1
  <1>3. /\ moved \in Webhook!WorkerRecord /\ moved.pc = pc /\ moved.task = workers[w].task
        /\ moved.outcome = workers[w].outcome
    BY <1>1 DEF Webhook!WorkerRecord
  <1>. HIDE DEF moved
  <1>. QED  BY <1>1, <1>2, <1>3

-----------------------------------------------------------------------------
(***************************************************************************)
(* The webhook: the steps of the workers.                                  *)
(***************************************************************************)
\* What is left to show when a worker moves on.
LEMMA WorkerStep ==
    ASSUME Webhook!SlotsInv, NEW w \in Webhook!Turns, workers[w].pc # "none",
           UNCHANGED <<minted, cancelled, sink, received>>,
           registry' \in [Webhook!Tasks -> Webhook!EntryRecord],
           workers' \in [Webhook!Turns -> Webhook!WorkerRecord],
           \A v \in Webhook!Turns : v # w => workers'[v] = workers[v],
           workers'[w].task = workers[w].task,
           workers'[w].pc \in {"posting", "resolved"} => workers[w].pc \in {"posting", "resolved"},
           workers'[w].pc = "posting" => workers[w].pc = "posting",
           workers[w].pc \in {"sending", "done"} =>
             workers'[w].pc \in {"sending", "done"} /\ workers'[w].outcome = workers[w].outcome,
           \A t \in Webhook!Tasks : registry[t].in_flight =>
             \/ registry'[t].in_flight
             \/ t = workers[w].task /\ Webhook!AtGateway(w) /\ ~(workers'[w].pc \in {"posting", "resolved"}),
           \A t \in Webhook!Tasks : Len(registry'[t].transcript) <= TranscriptCapacity,
           \A t \in Webhook!Tasks, v \in Webhook!Turns :
             Webhook!Remembered(registry[t].transcript, v) => Webhook!Remembered(registry'[t].transcript, v),
           workers'[w].pc \in {"emit", "sending", "done"} /\ workers'[w].outcome = "completion" =>
             Webhook!Remembered(registry'[workers[w].task].transcript, w),
           line' \in Seq(Webhook!LineEntry),
           \A x : Webhook!InLine(line', x) =>
             \/ Webhook!InLine(line, x)
             \/ /\ x.run = w /\ x.task = workers[w].task /\ x.type = workers'[w].outcome
                /\ workers'[w].pc \in {"sending", "done"}
    PROVE  Webhook!SlotsInv'
  <1>0. /\ minted \in 0..MaxWebhookTasks /\ sink \in Webhook!SinkRecord
        /\ workers \in [Webhook!Turns -> Webhook!WorkerRecord]
        /\ Webhook!WebhookType /\ Webhook!SlotsAreHeld /\ Webhook!OneTurnAtATime
        /\ Webhook!AnswersAreRemembered
    BY WebhookFacts
  <1>1. Webhook!WebhookType'
    BY <1>0 DEF Webhook!WebhookType
  <1>2. \A v \in Webhook!Turns :
          /\ workers'[v].task = workers[v].task
          /\ (workers'[v].pc # "none" => workers[v].pc # "none")
          /\ (workers'[v].pc \in {"posting", "resolved"} => workers[v].pc \in {"posting", "resolved"})
          /\ (workers'[v].pc = "posting" => workers[v].pc = "posting")
    OBVIOUS
  <1>3. \A v \in Webhook!Turns : workers[v].pc # "none" => workers[v].task \in 1..minted /\ workers[v].task \in Webhook!Tasks
    BY <1>0 DEF Webhook!SlotsAreHeld, Webhook!Tasks
  <1>4. Webhook!SlotsAreHeld'
    <2>1. \A v \in Webhook!Turns : workers'[v].pc # "none" => workers'[v].task \in 1..minted
      BY <1>2, <1>3
    <2>2. ASSUME NEW v \in Webhook!Turns, workers'[v].pc \in {"posting", "resolved"}
          PROVE  registry'[workers'[v].task].in_flight
      <3>1. Webhook!AtGateway(v) /\ registry[workers[v].task].in_flight /\ workers[v].task \in Webhook!Tasks
        BY <1>0, <1>2, <1>3, <2>2 DEF Webhook!AtGateway, Webhook!SlotsAreHeld
      <3>2. workers[v].task = workers[w].task /\ Webhook!AtGateway(w) => v = w
        BY <1>0, <3>1 DEF Webhook!SlotsAreHeld
      <3>. QED  BY <1>2, <2>2, <3>1, <3>2
    <2>3. ASSUME NEW v \in Webhook!Turns, NEW u \in Webhook!Turns, workers'[v].pc \in {"posting", "resolved"},
                 workers'[u].pc \in {"posting", "resolved"}, workers'[v].task = workers'[u].task
          PROVE  v = u
      BY <1>0, <1>2, <2>3 DEF Webhook!SlotsAreHeld, Webhook!AtGateway
    <2>4. sink.pc = "accepting" =>
            /\ sink.task \in 1..minted /\ registry'[sink.task].in_flight
            /\ \A v \in Webhook!Turns : workers'[v].pc # "none" => workers'[v].task # sink.task
      <3>1. sink.pc = "accepting" => sink.task \in Webhook!Tasks
        BY <1>0 DEF Webhook!SlotsAreHeld, Webhook!Tasks
      <3>2. sink.pc = "accepting" =>
              /\ sink.task \in 1..minted /\ registry[sink.task].in_flight
              /\ \A v \in Webhook!Turns : workers[v].pc # "none" => workers[v].task # sink.task
        BY <1>0 DEF Webhook!SlotsAreHeld
      <3>. QED  BY <1>2, <3>1, <3>2
    <2>. QED  BY <2>1, <2>2, <2>3, <2>4 DEF Webhook!SlotsAreHeld, Webhook!AtGateway
  <1>5. Webhook!OneTurnAtATime'
    BY <1>0, <1>2 DEF Webhook!OneTurnAtATime
  <1>6. Webhook!AnswersAreRemembered'
    <2>1. ASSUME NEW v \in Webhook!Turns, workers'[v].pc \in {"emit", "sending", "done"},
                 workers'[v].outcome = "completion"
          PROVE  Webhook!Remembered(registry'[workers'[v].task].transcript, v)
      <3>1. CASE v = w
        BY <2>1, <3>1
      <3>2. CASE v # w
        <4>1. Webhook!Remembered(registry[workers[v].task].transcript, v) /\ workers[v].task \in Webhook!Tasks
          BY <1>0, <1>3, <2>1, <3>2 DEF Webhook!AnswersAreRemembered
        <4>. QED  BY <1>2, <4>1
      <3>. QED  BY <3>1, <3>2
    <2>2. ASSUME NEW e \in Webhook!EventRecord, e \in received \/ Webhook!InLine(line', e), e.type = "completion"
          PROVE  /\ e.run \in Webhook!Turns /\ workers'[e.run].pc \in {"sending", "done"}
                 /\ workers'[e.run].task = e.task /\ workers'[e.run].outcome = "completion"
      <3>1. CASE e \in received \/ Webhook!InLine(line, e)
        <4>1. /\ e.run \in Webhook!Turns /\ workers[e.run].pc \in {"sending", "done"}
              /\ workers[e.run].task = e.task /\ workers[e.run].outcome = "completion"
          BY <1>0, <2>2, <3>1 DEF Webhook!AnswersAreRemembered
        <4>. QED  BY <1>2, <4>1
      <3>2. CASE /\ e.run = w /\ e.task = workers[w].task /\ e.type = workers'[w].outcome
                 /\ workers'[w].pc \in {"sending", "done"}
        BY <2>2, <3>2
      <3>. QED  BY <2>2, <3>1, <3>2
    <2>. QED  BY <2>1, <2>2 DEF Webhook!AnswersAreRemembered, Webhook!InLine
  <1>. QED  BY <1>1, <1>4, <1>5, <1>6 DEF Webhook!SlotsInv

\* What of WorkerStep holds when the registry, or the channel, is as it was.
LEMMA AsBefore ==
    ASSUME Webhook!SlotsInv
    PROVE  /\ \A t \in Webhook!Tasks : Len(registry[t].transcript) <= TranscriptCapacity
           /\ \A w \in Webhook!Turns : workers[w].pc # "none" => workers[w].task \in Webhook!Tasks
           /\ \A w \in Webhook!Turns :
                /\ workers[w].pc \in {"none", "posting", "resolved", "record", "emit", "sending", "done"}
                /\ workers[w].outcome \in {"none", "completion", "failure"}
                /\ workers[w].task \in 0..MaxWebhookTasks
           /\ \A w \in Webhook!Turns :
                workers[w].pc \in {"emit", "sending", "done"} /\ workers[w].outcome = "completion" =>
                  Webhook!Remembered(registry[workers[w].task].transcript, w)
  <1>1. /\ Webhook!SlotsAreHeld /\ Webhook!AnswersAreRemembered /\ minted \in 0..MaxWebhookTasks
        /\ workers \in [Webhook!Turns -> Webhook!WorkerRecord]
    BY WebhookFacts
  <1>2. \A w \in Webhook!Turns : workers[w].pc # "none" => workers[w].task \in Webhook!Tasks
    BY <1>1 DEF Webhook!SlotsAreHeld, Webhook!Tasks
  <1>3. \A w \in Webhook!Turns :
          /\ workers[w].pc \in {"none", "posting", "resolved", "record", "emit", "sending", "done"}
          /\ workers[w].outcome \in {"none", "completion", "failure"} /\ workers[w].task \in 0..MaxWebhookTasks
    BY <1>1 DEF Webhook!WorkerRecord
  <1>. QED  BY <1>1, <1>2, <1>3 DEF Webhook!AnswersAreRemembered

LEMMA ResolvesKeeps ==
    ASSUME Webhook!SlotsInv, NEW w \in Webhook!Turns, Webhook!Resolves(w) \/ Webhook!Abandons(w)
    PROVE  Webhook!SlotsInv'
  <1>1. PICK outcome \in {"none", "completion", "failure"} :
          workers' = [workers EXCEPT ![w].pc = "resolved", ![w].outcome = outcome]
    BY DEF Webhook!Resolves, Webhook!Abandons, Webhook!Classify
  <1>2. /\ workers[w].pc = "posting" /\ UNCHANGED <<registry, minted, line, cancelled, sink, received>>
    BY DEF Webhook!Resolves, Webhook!Abandons
  <1>3. /\ workers \in [Webhook!Turns -> Webhook!WorkerRecord] /\ line \in Seq(Webhook!LineEntry)
        /\ registry \in [Webhook!Tasks -> Webhook!EntryRecord]
    BY WebhookFacts
  <1>. DEFINE a == [workers[w] EXCEPT !.pc = "resolved"]
              moved == [a EXCEPT !.outcome = outcome]
  <1>4. workers' = [workers EXCEPT ![w] = moved]
    BY <1>1, <1>3
  <1>5. a \in Webhook!WorkerRecord /\ a.pc = "resolved" /\ a.task = workers[w].task
    BY <1>3 DEF Webhook!WorkerRecord
  <1>. HIDE DEF a
  <1>6. moved \in Webhook!WorkerRecord /\ moved.pc = "resolved" /\ moved.task = workers[w].task
    BY ONLY <1>5, outcome \in {"none", "completion", "failure"} DEF Webhook!WorkerRecord
  <1>. HIDE DEF moved
  <1>7. /\ workers' \in [Webhook!Turns -> Webhook!WorkerRecord] /\ workers'[w] = moved
        /\ \A v \in Webhook!Turns : v # w => workers'[v] = workers[v]
    BY <1>3, <1>4, <1>6
  <1>8. \A t \in Webhook!Tasks : Len(registry[t].transcript) <= TranscriptCapacity
    BY AsBefore
  <1>. QED  BY <1>2, <1>3, <1>6, <1>7, <1>8, WorkerStep

LEMMA FinishKeeps ==
    ASSUME Webhook!SlotsInv, NEW w \in Webhook!Turns, Webhook!Finish(w)
    PROVE  Webhook!SlotsInv'
  <1>. DEFINE t == workers[w].task
              pc == CASE workers[w].outcome = "none" -> "done"
                      [] workers[w].outcome = "completion" -> "record"
                      [] workers[w].outcome = "failure" -> "emit"
              freed == [registry[t] EXCEPT !.in_flight = FALSE]
  <1>1. /\ workers[w].pc = "resolved" /\ UNCHANGED <<minted, line, cancelled, sink, received>>
        /\ workers' = [workers EXCEPT ![w].pc = pc] /\ registry' = [registry EXCEPT ![t].in_flight = FALSE]
    BY DEF Webhook!Finish
  <1>2. /\ registry \in [Webhook!Tasks -> Webhook!EntryRecord] /\ line \in Seq(Webhook!LineEntry)
    BY WebhookFacts
  <1>3. /\ \A u \in Webhook!Tasks : Len(registry[u].transcript) <= TranscriptCapacity
        /\ t \in Webhook!Tasks /\ workers[w].outcome \in {"none", "completion", "failure"}
    BY <1>1, AsBefore
  <1>4. pc \in {"done", "record", "emit"} /\ (pc \in {"emit", "sending", "done"} => workers[w].outcome # "completion")
    BY <1>3
  <1>. HIDE DEF pc, t
  <1>5. registry' = [registry EXCEPT ![t] = freed]
    BY <1>1, <1>2
  <1>6. freed \in Webhook!EntryRecord /\ freed.transcript = registry[t].transcript
    BY <1>2, <1>3 DEF Webhook!EntryRecord
  <1>. HIDE DEF freed
  <1>7. /\ registry' \in [Webhook!Tasks -> Webhook!EntryRecord]
        /\ \A u \in Webhook!Tasks : /\ registry'[u].transcript = registry[u].transcript
                                    /\ u # t => registry'[u] = registry[u]
    BY <1>2, <1>3, <1>5, <1>6
  <1>8. /\ workers' \in [Webhook!Turns -> Webhook!WorkerRecord]
        /\ workers'[w].pc = pc /\ workers'[w].task = workers[w].task /\ workers'[w].outcome = workers[w].outcome
        /\ \A v \in Webhook!Turns : v # w => workers'[v] = workers[v]
    BY <1>1, <1>4, WorkerMoves
  <1>9. Webhook!AtGateway(w)
    BY <1>1 DEF Webhook!AtGateway
  <1>. QED  BY <1>1, <1>2, <1>3, <1>4, <1>7, <1>8, <1>9, WorkerStep DEF t

LEMMA RecordKeeps ==
    ASSUME Webhook!SlotsInv, NEW w \in Webhook!Turns, Webhook!Record(w)
    PROVE  Webhook!SlotsInv'
  <1>. DEFINE t == workers[w].task
              longer == Webhook!Push(registry[t].transcript, w)
              moved == [registry[t] EXCEPT !.transcript = longer]
  <1>1. /\ workers[w].pc = "record" /\ UNCHANGED <<minted, line, cancelled, sink, received>>
        /\ workers' = [workers EXCEPT ![w].pc = "emit"]
        /\ registry' = [registry EXCEPT ![t].transcript = Webhook!Push(@, w)]
    BY DEF Webhook!Record
  <1>2. /\ registry \in [Webhook!Tasks -> Webhook!EntryRecord] /\ line \in Seq(Webhook!LineEntry)
    BY WebhookFacts
  <1>3. /\ \A u \in Webhook!Tasks : Len(registry[u].transcript) <= TranscriptCapacity
        /\ t \in Webhook!Tasks
    BY <1>1, AsBefore
  <1>. HIDE DEF t
  <1>4. registry' = [registry EXCEPT ![t] = moved]
    BY <1>1, <1>2
  <1>5. registry[t].transcript \in Seq(Webhook!Turns)
    BY <1>2, <1>3 DEF Webhook!EntryRecord
  <1>6. /\ longer \in Seq(Webhook!Turns) /\ Len(longer) <= TranscriptCapacity /\ w \in Webhook!ToSet(longer)
        /\ \A v : Webhook!Remembered(registry[t].transcript, v) => Webhook!Remembered(longer, v)
    BY <1>3, <1>5, TranscriptGrows
  <1>. HIDE DEF longer
  <1>7. moved \in Webhook!EntryRecord /\ moved.transcript = longer /\ moved.in_flight = registry[t].in_flight
    BY <1>2, <1>3, <1>6 DEF Webhook!EntryRecord
  <1>. HIDE DEF moved
  <1>8. /\ registry' \in [Webhook!Tasks -> Webhook!EntryRecord] /\ registry'[t] = moved
        /\ \A u \in Webhook!Tasks : u # t => registry'[u] = registry[u]
    BY <1>2, <1>3, <1>4, <1>7
  <1>9. /\ workers' \in [Webhook!Turns -> Webhook!WorkerRecord]
        /\ workers'[w].pc = "emit" /\ workers'[w].task = workers[w].task
        /\ \A v \in Webhook!Turns : v # w => workers'[v] = workers[v]
    BY <1>1, WorkerMoves
  <1>10. Webhook!Remembered(registry'[t].transcript, w)
    BY <1>6, <1>7, <1>8 DEF Webhook!Remembered
  <1>11. /\ \A u \in Webhook!Tasks : Len(registry'[u].transcript) <= TranscriptCapacity
         /\ \A u \in Webhook!Tasks : registry[u].in_flight => registry'[u].in_flight
         /\ \A u \in Webhook!Tasks, v \in Webhook!Turns :
              Webhook!Remembered(registry[u].transcript, v) => Webhook!Remembered(registry'[u].transcript, v)
    BY <1>3, <1>6, <1>7, <1>8
  <1>. QED  BY <1>1, <1>2, <1>8, <1>9, <1>10, <1>11, WorkerStep DEF t

LEMMA EmitsKeeps ==
    ASSUME Webhook!SlotsInv, NEW w \in Webhook!Turns, Webhook!Emits(w)
    PROVE  Webhook!SlotsInv'
  <1>. DEFINE e == Webhook!Event(workers[w].outcome, workers[w].task, w)
              pc == IF cancelled THEN "done" ELSE "sending"
  <1>1. /\ workers[w].pc = "emit" /\ UNCHANGED <<registry, minted, cancelled, sink, received>>
        /\ workers' = [workers EXCEPT ![w].pc = pc] /\ Webhook!Send(w, e)
    BY DEF Webhook!Emits
  <1>2. registry \in [Webhook!Tasks -> Webhook!EntryRecord]
    BY WebhookFacts
  <1>3. /\ \A u \in Webhook!Tasks : Len(registry[u].transcript) <= TranscriptCapacity
        /\ workers[w].outcome \in {"none", "completion", "failure"} /\ workers[w].task \in 0..MaxWebhookTasks
        /\ workers[w].outcome = "completion" => Webhook!Remembered(registry[workers[w].task].transcript, w)
    BY <1>1, AsBefore
  <1>4. w \in 0..MaxTurns
    BY DEF Webhook!Turns
  <1>5. e \in Webhook!EventRecord /\ e.type = workers[w].outcome /\ e.task = workers[w].task /\ e.run = w
    BY <1>3, <1>4 DEF Webhook!Event, Webhook!EventRecord
  <1>6. pc \in {"done", "sending"}
    OBVIOUS
  <1>. HIDE DEF e, pc
  <1>7. /\ line' \in Seq(Webhook!LineEntry)
        /\ \A x : Webhook!InLine(line', x) => Webhook!InLine(line, x) \/ (~cancelled /\ x = e)
    BY <1>1, <1>4, <1>5, WebhookSends
  <1>8. /\ workers' \in [Webhook!Turns -> Webhook!WorkerRecord]
        /\ workers'[w].pc = pc /\ workers'[w].task = workers[w].task /\ workers'[w].outcome = workers[w].outcome
        /\ \A v \in Webhook!Turns : v # w => workers'[v] = workers[v]
    BY <1>1, <1>6, WorkerMoves
  <1>. QED  BY <1>1, <1>2, <1>3, <1>5, <1>6, <1>7, <1>8, WorkerStep

LEMMA SentKeeps ==
    ASSUME Webhook!SlotsInv, NEW w \in Webhook!Turns, Webhook!Sent(w)
    PROVE  Webhook!SlotsInv'
  <1>1. /\ workers[w].pc = "sending" /\ UNCHANGED <<registry, minted, line, cancelled, sink, received>>
        /\ workers' = [workers EXCEPT ![w].pc = "done"]
    BY DEF Webhook!Sent
  <1>2. registry \in [Webhook!Tasks -> Webhook!EntryRecord] /\ line \in Seq(Webhook!LineEntry)
    BY WebhookFacts
  <1>3. /\ \A u \in Webhook!Tasks : Len(registry[u].transcript) <= TranscriptCapacity
        /\ workers[w].outcome = "completion" => Webhook!Remembered(registry[workers[w].task].transcript, w)
    BY <1>1, AsBefore
  <1>4. /\ workers' \in [Webhook!Turns -> Webhook!WorkerRecord]
        /\ workers'[w].pc = "done" /\ workers'[w].task = workers[w].task /\ workers'[w].outcome = workers[w].outcome
        /\ \A v \in Webhook!Turns : v # w => workers'[v] = workers[v]
    BY <1>1, WorkerMoves
  <1>. QED  BY <1>1, <1>2, <1>3, <1>4, WorkerStep

-----------------------------------------------------------------------------
(***************************************************************************)
(* The webhook: the steps of the sink and the source.                      *)
(***************************************************************************)
\* What is left to show when no worker moves and no task changes.
LEMMA WebhookRests ==
    ASSUME Webhook!SlotsInv, UNCHANGED <<registry, minted, workers>>, cancelled' \in BOOLEAN,
           sink' \in Webhook!SinkRecord, sink' = sink \/ sink'.pc # "accepting",
           line' \in Seq(Webhook!LineEntry), received' \subseteq Webhook!EventRecord,
           \A x : x \in received' \/ Webhook!InLine(line', x) =>
             x \in received \/ Webhook!InLine(line, x) \/ x.type # "completion"
    PROVE  Webhook!SlotsInv'
  <1>0. /\ Webhook!WebhookType /\ Webhook!SlotsAreHeld /\ Webhook!OneTurnAtATime
        /\ Webhook!AnswersAreRemembered
    BY WebhookFacts
  <1>1. Webhook!WebhookType'
    BY <1>0 DEF Webhook!WebhookType
  <1>2. Webhook!SlotsAreHeld' /\ Webhook!OneTurnAtATime'
    BY <1>0 DEF Webhook!SlotsAreHeld, Webhook!OneTurnAtATime, Webhook!AtGateway
  <1>3. Webhook!AnswersAreRemembered'
    BY <1>0 DEF Webhook!AnswersAreRemembered, Webhook!InLine
  <1>. QED  BY <1>1, <1>2, <1>3 DEF Webhook!SlotsInv

LEMMA WebhookSinkRests ==
    ASSUME Webhook!SlotsInv, Webhook!SinkSent \/ Webhook!SinkDropped \/ Webhook!SourceCloses \/ Webhook!Cancel
    PROVE  Webhook!SlotsInv'
  <1>0. /\ line \in Seq(Webhook!LineEntry) /\ received \subseteq Webhook!EventRecord /\ cancelled \in BOOLEAN
        /\ sink \in Webhook!SinkRecord
    BY WebhookFacts
  <1>1. /\ UNCHANGED <<registry, minted, workers, received>> /\ cancelled' \in BOOLEAN
        /\ sink' = sink \/ sink' = Webhook!IdleSink
        /\ line' = line \/ line' = Webhook!Withdrawn(line, 0)
    BY <1>0 DEF Webhook!SinkSent, Webhook!SinkDropped, Webhook!SourceCloses, Webhook!Cancel
  <1>2. sink' \in Webhook!SinkRecord /\ (sink' = sink \/ sink'.pc # "accepting")
    BY <1>0, <1>1, WebhookIdle
  <1>3. line' \in Seq(Webhook!LineEntry) /\ \A x : Webhook!InLine(line', x) => Webhook!InLine(line, x)
    <2>1. CASE line' = line
      BY <1>0, <2>1
    <2>2. CASE line' = Webhook!Withdrawn(line, 0)
      <3>1. Webhook!Withdrawn(line, 0) = Withdrawn(line, 0)
        BY DEF Webhook!Withdrawn, Withdrawn, Webhook!Waits, Waits, Webhook!RemoveAt, RemoveAt
      <3>2. /\ Withdrawn(line, 0) \in Seq(Webhook!LineEntry)
            /\ \A i \in DOMAIN Withdrawn(line, 0) : \E j \in DOMAIN line : Withdrawn(line, 0)[i] = line[j]
        BY <1>0, LineWithdrawn
      <3>. QED  BY <2>2, <3>1, <3>2 DEF Webhook!InLine
    <2>. QED  BY <1>1, <2>1, <2>2
  <1>. QED  BY <1>0, <1>1, <1>2, <1>3, WebhookRests

LEMMA WebhookNextEventKeeps ==
    ASSUME Webhook!SlotsInv, Webhook!NextEvent
    PROVE  Webhook!SlotsInv'
  <1>0. /\ line \in Seq(Webhook!LineEntry) /\ received \subseteq Webhook!EventRecord /\ cancelled \in BOOLEAN
        /\ sink \in Webhook!SinkRecord
    BY WebhookFacts
  <1>1. /\ line # <<>> /\ line' = Tail(line) /\ received' \subseteq received \cup {line[1].event}
        /\ UNCHANGED <<registry, minted, workers, cancelled, sink>>
    BY DEF Webhook!NextEvent
  <1>2. /\ Tail(line) \in Seq(Webhook!LineEntry) /\ 1 \in DOMAIN line /\ line[1] \in Webhook!LineEntry
        /\ \A i \in DOMAIN Tail(line) : i + 1 \in DOMAIN line /\ Tail(line)[i] = line[i + 1]
    BY <1>0, <1>1, LineTaken
  <1>3. line[1].event \in Webhook!EventRecord /\ Webhook!InLine(line, line[1].event)
    BY <1>2 DEF Webhook!LineEntry, Webhook!InLine
  <1>4. \A x : Webhook!InLine(line', x) => Webhook!InLine(line, x)
    BY <1>1, <1>2 DEF Webhook!InLine
  <1>. QED  BY <1>0, <1>1, <1>2, <1>3, <1>4, WebhookRests

LEMMA RefuseKeeps ==
    ASSUME Webhook!SlotsInv, NEW t \in Webhook!Tasks, Webhook!Refuse(t)
    PROVE  Webhook!SlotsInv'
  <1>. DEFINE e == Webhook!Event("rejected", 0, 0)
  <1>0. received \subseteq Webhook!EventRecord /\ cancelled \in BOOLEAN
    BY WebhookFacts
  <1>1. /\ Webhook!Send(0, e) /\ sink' = [Webhook!IdleSink EXCEPT !.pc = "sending"]
        /\ UNCHANGED <<registry, minted, workers, cancelled, received>>
    BY DEF Webhook!Refuse
  <1>2. e \in Webhook!EventRecord /\ e.type = "rejected" /\ 0 \in 0..MaxTurns
    BY DEF Webhook!Event, Webhook!EventRecord
  <1>. HIDE DEF e
  <1>3. sink' \in Webhook!SinkRecord /\ sink'.pc # "accepting"
    BY <1>1, WebhookIdle DEF Webhook!SinkRecord
  <1>4. /\ line' \in Seq(Webhook!LineEntry)
        /\ \A x : Webhook!InLine(line', x) => Webhook!InLine(line, x) \/ (~cancelled /\ x = e)
    BY <1>1, <1>2, WebhookSends
  <1>. QED  BY <1>0, <1>1, <1>2, <1>3, <1>4, WebhookRests

\* A turn starts for a task that has none at the gateway, and has the task's slot.
LEMMA TurnBegins ==
    ASSUME Webhook!SlotsInv, NEW w \in Webhook!Turns, workers[w].pc = "none",
           workers' \in [Webhook!Turns -> Webhook!WorkerRecord],
           workers'[w].pc = "posting", workers'[w].outcome = "none",
           \A v \in Webhook!Turns : v # w => workers'[v] = workers[v],
           workers'[w].task \in 1..minted,
           \A v \in Webhook!Turns : Webhook!AtGateway(v) => workers[v].task # workers'[w].task,
           UNCHANGED <<minted, line, cancelled, received>>,
           registry' \in [Webhook!Tasks -> Webhook!EntryRecord], registry'[workers'[w].task].in_flight,
           \A t \in Webhook!Tasks : /\ registry[t].in_flight => registry'[t].in_flight
                                    /\ registry'[t].transcript = registry[t].transcript,
           sink' \in Webhook!SinkRecord, sink'.pc # "accepting"
    PROVE  Webhook!SlotsInv'
  <1>0. /\ minted \in 0..MaxWebhookTasks /\ Webhook!WebhookType /\ Webhook!SlotsAreHeld
        /\ Webhook!OneTurnAtATime /\ Webhook!AnswersAreRemembered
    BY WebhookFacts
  <1>1. Webhook!WebhookType'
    BY <1>0 DEF Webhook!WebhookType
  <1>2. \A v \in Webhook!Turns : workers[v].pc # "none" => workers[v].task \in 1..minted /\ workers[v].task \in Webhook!Tasks
    BY <1>0 DEF Webhook!SlotsAreHeld, Webhook!Tasks
  <1>3. Webhook!SlotsAreHeld'
    BY <1>0, <1>2 DEF Webhook!SlotsAreHeld, Webhook!AtGateway
  <1>4. Webhook!OneTurnAtATime'
    BY <1>0 DEF Webhook!OneTurnAtATime, Webhook!AtGateway
  <1>5. Webhook!AnswersAreRemembered'
    <2>1. \A t \in Webhook!Tasks : Len(registry'[t].transcript) <= TranscriptCapacity
      BY <1>0 DEF Webhook!AnswersAreRemembered
    <2>2. \A v \in Webhook!Turns : workers'[v].pc \in {"emit", "sending", "done"} /\ workers'[v].outcome = "completion" =>
            Webhook!Remembered(registry'[workers'[v].task].transcript, v)
      BY <1>0, <1>2 DEF Webhook!AnswersAreRemembered
    <2>3. \A e \in Webhook!EventRecord : (e \in received' \/ Webhook!InLine(line', e)) /\ e.type = "completion" =>
            /\ e.run \in Webhook!Turns /\ workers'[e.run].pc \in {"sending", "done"}
            /\ workers'[e.run].task = e.task /\ workers'[e.run].outcome = "completion"
      BY <1>0 DEF Webhook!AnswersAreRemembered
    <2>. QED  BY <2>1, <2>2, <2>3 DEF Webhook!AnswersAreRemembered, Webhook!InLine
  <1>. QED  BY <1>1, <1>3, <1>4, <1>5 DEF Webhook!SlotsInv

LEMMA AcceptedKeeps ==
    ASSUME Webhook!SlotsInv, Webhook!Accepted
    PROVE  Webhook!SlotsInv'
  <1>0. /\ registry \in [Webhook!Tasks -> Webhook!EntryRecord] /\ sink \in Webhook!SinkRecord
        /\ Webhook!SlotsAreHeld
    BY WebhookFacts
  <1>1. /\ sink.pc = "accepting" /\ Webhook!Spawn(sink.task, <<>>) /\ sink' = Webhook!IdleSink
        /\ UNCHANGED <<registry, minted, line, cancelled, received>>
    BY DEF Webhook!Accepted
  <1>2. /\ sink.task \in 1..minted /\ registry[sink.task].in_flight
        /\ \A v \in Webhook!Turns : workers[v].pc # "none" => workers[v].task # sink.task
    BY <1>0, <1>1 DEF Webhook!SlotsAreHeld
  <1>. DEFINE none == <<>>
  <1>3. sink.task \in 0..MaxWebhookTasks /\ none \in Seq(Webhook!Turns) /\ Webhook!Spawn(sink.task, none)
    BY <1>0, <1>1 DEF Webhook!SinkRecord
  <1>. HIDE DEF none
  <1>4. PICK w \in Webhook!Turns :
             /\ workers[w].pc = "none" /\ workers' \in [Webhook!Turns -> Webhook!WorkerRecord]
             /\ workers'[w].pc = "posting" /\ workers'[w].task = sink.task /\ workers'[w].outcome = "none"
             /\ \A v \in Webhook!Turns : v # w => workers'[v] = workers[v]
    BY <1>3, TurnStarts
  <1>5. \A v \in Webhook!Turns : Webhook!AtGateway(v) => workers[v].task # workers'[w].task
    BY <1>2, <1>4 DEF Webhook!AtGateway
  <1>6. sink' \in Webhook!SinkRecord /\ sink'.pc # "accepting"
    BY <1>1, WebhookIdle
  <1>. QED  BY <1>0, <1>1, <1>2, <1>4, <1>5, <1>6, TurnBegins

LEMMA ChainKeeps ==
    ASSUME Webhook!SlotsInv, NEW t \in Webhook!Tasks, Webhook!Chain(t)
    PROVE  Webhook!SlotsInv'
  <1>0. /\ registry \in [Webhook!Tasks -> Webhook!EntryRecord] /\ sink \in Webhook!SinkRecord
        /\ Webhook!SlotsAreHeld /\ minted \in 0..MaxWebhookTasks
    BY WebhookFacts
  <1>. DEFINE claimed == [registry[t] EXCEPT !.in_flight = TRUE]
  <1>1. /\ sink.pc = "idle" /\ t <= minted /\ ~registry[t].in_flight
        /\ registry' = [registry EXCEPT ![t].in_flight = TRUE]
        /\ Webhook!Spawn(t, registry[t].transcript)
        /\ UNCHANGED <<minted, line, cancelled, sink, received>>
    BY DEF Webhook!Chain, Webhook!Called, Webhook!Idle
  <1>2. t \in 0..MaxWebhookTasks /\ t \in 1..minted
    BY <1>0, <1>1 DEF Webhook!Tasks
  <1>3. registry[t].transcript \in Seq(Webhook!Turns)
    BY <1>0 DEF Webhook!EntryRecord
  <1>4. PICK w \in Webhook!Turns :
             /\ workers[w].pc = "none" /\ workers' \in [Webhook!Turns -> Webhook!WorkerRecord]
             /\ workers'[w].pc = "posting" /\ workers'[w].task = t /\ workers'[w].outcome = "none"
             /\ \A v \in Webhook!Turns : v # w => workers'[v] = workers[v]
    BY <1>1, <1>2, <1>3, TurnStarts
  <1>5. \A v \in Webhook!Turns : Webhook!AtGateway(v) => workers[v].task # workers'[w].task
    BY <1>0, <1>1, <1>4 DEF Webhook!SlotsAreHeld
  <1>6. registry' = [registry EXCEPT ![t] = claimed]
    BY <1>0, <1>1
  <1>7. claimed \in Webhook!EntryRecord /\ claimed.in_flight /\ claimed.transcript = registry[t].transcript
    BY <1>0 DEF Webhook!EntryRecord
  <1>. HIDE DEF claimed
  <1>8. /\ registry' \in [Webhook!Tasks -> Webhook!EntryRecord] /\ registry'[t].in_flight
        /\ \A u \in Webhook!Tasks : /\ registry[u].in_flight => registry'[u].in_flight
                                    /\ registry'[u].transcript = registry[u].transcript
    BY <1>0, <1>6, <1>7
  <1>. QED  BY <1>0, <1>1, <1>2, <1>4, <1>5, <1>8, TurnBegins

LEMMA WebhookCreateKeeps ==
    ASSUME Webhook!SlotsInv, Webhook!Create
    PROVE  Webhook!SlotsInv'
  <1>. DEFINE t == minted + 1
              entry == [known |-> TRUE, in_flight |-> TRUE, transcript |-> <<>>]
              e == Webhook!Event("accepted", t, 0)
  <1>0. /\ registry \in [Webhook!Tasks -> Webhook!EntryRecord] /\ minted \in 0..MaxWebhookTasks
        /\ workers \in [Webhook!Turns -> Webhook!WorkerRecord] /\ received \subseteq Webhook!EventRecord
        /\ cancelled \in BOOLEAN /\ Webhook!SlotsAreHeld /\ Webhook!OneTurnAtATime
        /\ Webhook!AnswersAreRemembered
    BY WebhookFacts
  <1>1. /\ minted < MaxWebhookTasks /\ minted' = t /\ registry' = [registry EXCEPT ![t] = entry]
        /\ Webhook!Send(0, e) /\ sink' = [pc |-> "accepting", task |-> t, event |-> Webhook!NoEvent]
        /\ UNCHANGED <<workers, cancelled, received>>
    BY DEF Webhook!Create
  <1>2. /\ t \in Webhook!Tasks /\ t \in 0..MaxWebhookTasks /\ t \in 1..t /\ 1..minted \subseteq 1..t
        /\ t \notin 1..minted /\ 0 \in 0..MaxTurns /\ 1..minted \subseteq Webhook!Tasks
    BY <1>0, <1>1 DEF Webhook!Tasks
  <1>3. e \in Webhook!EventRecord /\ e.type = "accepted"
    BY <1>2 DEF Webhook!Event, Webhook!EventRecord
  <1>. HIDE DEF e, t
  <1>4. /\ line' \in Seq(Webhook!LineEntry)
        /\ \A x : Webhook!InLine(line', x) => Webhook!InLine(line, x) \/ (~cancelled /\ x = e)
    BY <1>1, <1>2, <1>3, WebhookSends
  <1>5. sink' \in Webhook!SinkRecord /\ sink'.pc = "accepting" /\ sink'.task = t
    BY <1>1, <1>2, WebhookIdle DEF Webhook!SinkRecord
  <1>6. entry \in Webhook!EntryRecord /\ entry.in_flight /\ Len(entry.transcript) <= TranscriptCapacity
    <2>1. <<>> \in Seq(Webhook!Turns) /\ Len(<<>>) <= TranscriptCapacity
      OBVIOUS
    <2>. QED  BY <2>1 DEF Webhook!EntryRecord
  <1>. HIDE DEF entry
  <1>7. /\ registry' \in [Webhook!Tasks -> Webhook!EntryRecord] /\ registry'[t] = entry
        /\ \A u \in Webhook!Tasks : u # t => registry'[u] = registry[u]
    BY <1>0, <1>1, <1>2, <1>6
  <1>8. \A v \in Webhook!Turns : workers[v].pc # "none" =>
          workers[v].task \in 1..minted /\ workers[v].task # t /\ workers[v].task \in Webhook!Tasks
    BY <1>0, <1>2 DEF Webhook!SlotsAreHeld
  <1>9. Webhook!WebhookType'
    BY <1>0, <1>1, <1>2, <1>4, <1>5, <1>7 DEF Webhook!WebhookType
  <1>10. Webhook!SlotsAreHeld'
    <2>1. \A v \in Webhook!Turns : workers[v].pc # "none" => workers[v].task \in 1..t
      BY <1>2, <1>8
    <2>2. \A v \in Webhook!Turns : Webhook!AtGateway(v) => registry'[workers[v].task].in_flight
      BY <1>0, <1>7, <1>8 DEF Webhook!SlotsAreHeld, Webhook!AtGateway
    <2>. QED  BY <1>0, <1>1, <1>2, <1>5, <1>6, <1>7, <1>8, <2>1, <2>2 DEF Webhook!SlotsAreHeld, Webhook!AtGateway
  <1>11. Webhook!OneTurnAtATime'
    BY <1>0, <1>1 DEF Webhook!OneTurnAtATime
  <1>12. Webhook!AnswersAreRemembered'
    <2>1. \A u \in Webhook!Tasks : Len(registry'[u].transcript) <= TranscriptCapacity
      BY <1>0, <1>6, <1>7 DEF Webhook!AnswersAreRemembered
    <2>2. \A v \in Webhook!Turns : workers[v].pc \in {"emit", "sending", "done"} /\ workers[v].outcome = "completion" =>
            Webhook!Remembered(registry'[workers[v].task].transcript, v)
      BY <1>0, <1>7, <1>8 DEF Webhook!AnswersAreRemembered
    <2>3. \A x \in Webhook!EventRecord : (x \in received \/ Webhook!InLine(line', x)) /\ x.type = "completion" =>
            /\ x.run \in Webhook!Turns /\ workers[x.run].pc \in {"sending", "done"}
            /\ workers[x.run].task = x.task /\ workers[x.run].outcome = "completion"
      BY <1>0, <1>3, <1>4 DEF Webhook!AnswersAreRemembered
    <2>. QED  BY <1>1, <2>1, <2>2, <2>3 DEF Webhook!AnswersAreRemembered, Webhook!InLine
  <1>. QED  BY <1>9, <1>10, <1>11, <1>12 DEF Webhook!SlotsInv

-----------------------------------------------------------------------------
LEMMA SlotsInit ==
    ASSUME Webhook!WebhookInit
    PROVE  Webhook!SlotsInv
  <1>0. /\ registry = [t \in Webhook!Tasks |-> [known |-> FALSE, in_flight |-> FALSE, transcript |-> <<>>]]
        /\ minted = 0 /\ workers = [w \in Webhook!Turns |-> Webhook!NoWorker] /\ line = <<>>
        /\ cancelled = FALSE /\ sink = Webhook!IdleSink /\ received = {}
    BY DEF Webhook!WebhookInit
  <1>1. \A w \in Webhook!Turns : workers[w].pc = "none"
    BY <1>0, WebhookIdle
  <1>2. Webhook!WebhookType
    <2>1. [known |-> FALSE, in_flight |-> FALSE, transcript |-> <<>>] \in Webhook!EntryRecord
      <3>1. <<>> \in Seq(Webhook!Turns)
        OBVIOUS
      <3>. QED  BY <3>1 DEF Webhook!EntryRecord
    <2>2. registry \in [Webhook!Tasks -> Webhook!EntryRecord]
      BY <1>0, <2>1
    <2>3. line \in Seq(Webhook!LineEntry) /\ minted \in 0..MaxWebhookTasks
      BY <1>0
    <2>. QED  BY <1>0, <2>2, <2>3, WebhookIdle DEF Webhook!WebhookType
  <1>3. Webhook!SlotsAreHeld /\ Webhook!OneTurnAtATime
    BY <1>0, <1>1, WebhookIdle DEF Webhook!SlotsAreHeld, Webhook!OneTurnAtATime, Webhook!AtGateway
  <1>4. Webhook!AnswersAreRemembered
    <2>1. \A t \in Webhook!Tasks : Len(registry[t].transcript) <= TranscriptCapacity
      BY <1>0
    <2>. QED  BY <1>0, <1>1, <2>1 DEF Webhook!AnswersAreRemembered, Webhook!InLine
  <1>. QED  BY <1>2, <1>3, <1>4 DEF Webhook!SlotsInv

LEMMA SlotsStep ==
    ASSUME Webhook!SlotsInv, Webhook!WebhookNext
    PROVE  Webhook!SlotsInv'
  <1>1. CASE Webhook!Create
    BY <1>1, WebhookCreateKeeps
  <1>2. CASE \E t \in Webhook!Tasks : Webhook!Chain(t) \/ Webhook!Refuse(t)
    BY <1>2, ChainKeeps, RefuseKeeps
  <1>3. CASE Webhook!Accepted
    BY <1>3, AcceptedKeeps
  <1>4. CASE Webhook!SinkSent \/ Webhook!SinkDropped \/ Webhook!SourceCloses \/ Webhook!Cancel
    BY <1>4, WebhookSinkRests
  <1>5. CASE Webhook!NextEvent
    BY <1>5, WebhookNextEventKeeps
  <1>6. CASE \E w \in Webhook!Turns : Webhook!Deliver(w)
    BY <1>6, ResolvesKeeps, FinishKeeps, RecordKeeps, EmitsKeeps, SentKeeps DEF Webhook!Deliver
  <1>. QED  BY <1>1, <1>2, <1>3, <1>4, <1>5, <1>6 DEF Webhook!WebhookNext, Webhook!Sink

\* A turn that starts replays what its task remembers.
LEMMA TurnsReplay ==
    ASSUME Webhook!SlotsInv, Webhook!WebhookNext
    PROVE  Webhook!ReplaysWhatWasReported
  <1>0. /\ registry \in [Webhook!Tasks -> Webhook!EntryRecord] /\ sink \in Webhook!SinkRecord
        /\ received \subseteq Webhook!EventRecord /\ minted \in 0..MaxWebhookTasks
        /\ Webhook!SlotsAreHeld /\ Webhook!AnswersAreRemembered
    BY WebhookFacts
  <1>. SUFFICES ASSUME NEW w \in Webhook!Turns, workers[w].pc = "none", workers'[w].pc = "posting",
                       NEW e \in received, e.type = "completion", e.task = workers'[w].task
                PROVE  Webhook!Remembered(workers'[w].replay, e.run)
    BY DEF Webhook!ReplaysWhatWasReported, Webhook!Starts
  <1>1. /\ e.run \in Webhook!Turns /\ workers[e.run].pc \in {"sending", "done"}
        /\ workers[e.run].task = e.task /\ workers[e.run].outcome = "completion"
        /\ Webhook!Remembered(registry[e.task].transcript, e.run)
    BY <1>0 DEF Webhook!AnswersAreRemembered
  <1>2. \/ Webhook!Accepted \/ (\E t \in Webhook!Tasks : Webhook!Chain(t))
        \/ workers' = workers
        \/ \E v \in Webhook!Turns : workers[v].pc # "none" /\ \A u \in Webhook!Turns : u # v => workers'[u] = workers[u]
    <2>1. workers \in [Webhook!Turns -> Webhook!WorkerRecord]
      BY WebhookFacts
    <2>2. CASE \E v \in Webhook!Turns : Webhook!Deliver(v)
      <3>1. PICK v \in Webhook!Turns : Webhook!Deliver(v)
        BY <2>2
      <3>2. workers[v].pc # "none"
        BY <3>1 DEF Webhook!Deliver, Webhook!Resolves, Webhook!Abandons, Webhook!Finish, Webhook!Record, Webhook!Emits,
                    Webhook!Sent
      <3>3. \A u \in Webhook!Turns : u # v => workers'[u] = workers[u]
        BY <2>1, <3>1 DEF Webhook!Deliver, Webhook!Resolves, Webhook!Abandons, Webhook!Finish, Webhook!Record,
                    Webhook!Emits, Webhook!Sent
      <3>. QED  BY <3>2, <3>3
    <2>3. CASE ~(\E v \in Webhook!Turns : Webhook!Deliver(v))
      BY <2>3 DEF Webhook!WebhookNext, Webhook!Sink, Webhook!Create, Webhook!Refuse, Webhook!SinkSent,
                  Webhook!SinkDropped, Webhook!NextEvent, Webhook!SourceCloses, Webhook!Cancel
    <2>. QED  BY <2>2, <2>3
  <1>3. CASE Webhook!Accepted
    <2>. DEFINE none == <<>>
    <2>1. sink.pc = "accepting" /\ Webhook!Spawn(sink.task, none) /\ none \in Seq(Webhook!Turns)
      BY <1>3 DEF Webhook!Accepted
    <2>. HIDE DEF none
    <2>2. sink.task \in 0..MaxWebhookTasks
      BY <1>0 DEF Webhook!SinkRecord
    <2>3. workers'[w].task = sink.task
      BY <2>1, <2>2, TurnStarts
    <2>. QED  BY <1>0, <1>1, <2>1, <2>3 DEF Webhook!SlotsAreHeld
  <1>4. ASSUME NEW t \in Webhook!Tasks, Webhook!Chain(t)
        PROVE  Webhook!Remembered(workers'[w].replay, e.run)
    <2>1. Webhook!Spawn(t, registry[t].transcript)
      BY <1>4 DEF Webhook!Chain
    <2>2. t \in 0..MaxWebhookTasks /\ registry[t].transcript \in Seq(Webhook!Turns)
      BY <1>0 DEF Webhook!Tasks, Webhook!EntryRecord
    <2>3. workers'[w].task = t /\ workers'[w].replay = registry[t].transcript
      BY <2>1, <2>2, TurnStarts
    <2>. QED  BY <1>1, <2>3
  <1>. QED  BY <1>2, <1>3, <1>4

\* WebhookInv is about these alone.
LEMMA SlotsStutter ==
    ASSUME Webhook!SlotsInv, UNCHANGED Webhook!webhook
    PROVE  Webhook!SlotsInv'
  BY DEF Webhook!webhook, Webhook!SlotsInv, Webhook!WebhookType, Webhook!SlotsAreHeld, Webhook!OneTurnAtATime,
         Webhook!AnswersAreRemembered, Webhook!AtGateway, Webhook!InLine

-----------------------------------------------------------------------------
(***************************************************************************)
(* The two transports.                                                     *)
(***************************************************************************)
LEMMA TransportsStart == TransportsInit => TransportsInv
  BY RunsInit, SlotsInit DEF TransportsInit, TransportsInv

LEMMA TransportsMove == TransportsInv /\ [TransportsNext]_all => TransportsInv'
  <1>. SUFFICES ASSUME TransportsInv, [TransportsNext]_all
                PROVE  TransportsInv'
    OBVIOUS
  <1>1. CASE /\ backend = "hermes" /\ RunsInv /\ workers = [w \in Webhook!Turns |-> Webhook!NoWorker]
    <2>1. CASE TransportsNext
      <3>1. HermesNext /\ UNCHANGED <<backend, workers>>
        BY <1>1, <2>1 DEF TransportsNext, Hermes, ByWebhook
      <3>. QED  BY <1>1, <3>1, RunsStep DEF TransportsInv
    <2>2. CASE UNCHANGED all
      BY <1>1, <2>2, RunsStutter DEF all, TransportsInv
    <2>. QED  BY <2>1, <2>2
  <1>2. CASE /\ backend = "webhook" /\ Webhook!SlotsInv
             /\ trail = [t \in Tasks |-> <<>>] /\ runs = <<>> /\ poller = Resting
    <2>1. CASE TransportsNext
      <3>1. Webhook!WebhookNext /\ UNCHANGED <<backend, trail, runs, poller>>
        BY <1>2, <2>1 DEF TransportsNext, Hermes, ByWebhook
      <3>. QED  BY <1>2, <3>1, SlotsStep DEF TransportsInv
    <2>2. CASE UNCHANGED all
      BY <1>2, <2>2, SlotsStutter DEF all, hermes, Webhook!webhook, TransportsInv
    <2>. QED  BY <2>1, <2>2
  <1>. QED  BY <1>1, <1>2 DEF TransportsInv

\* On either transport a task is told of one run, or has one turn, at a time: what is told of
\* a run ends with its terminal event, no poll is answered for a run that is over, and two
\* turns of a task are never at the gateway at once.  However many tasks, runs and turns
\* there are, and however small the rings and the channel.
THEOREM TasksKeptApart == TransportsSpec => []TasksAreKeptApart
  <1>1. TransportsInv => TasksAreKeptApart
    <2>1. ASSUME RunsInv, workers = [w \in Webhook!Turns |-> Webhook!NoWorker]
          PROVE  TasksAreKeptApart
      BY <2>1, WebhookIdle DEF RunsInv, TasksAreKeptApart, Webhook!OneTurnAtATime
    <2>2. ASSUME Webhook!SlotsInv, trail = [t \in Tasks |-> <<>>], poller = Resting
          PROVE  TasksAreKeptApart
      BY <2>2, Idle DEF Webhook!SlotsInv, TasksAreKeptApart, RunsAreKeptApart, PollsCurrentRun, OneReportPerRun, Ordered
    <2>. QED  BY <2>1, <2>2 DEF TransportsInv
  <1>. QED  BY <1>1, TransportsStart, TransportsMove, PTL DEF TransportsSpec

\* A follow-up is sent with every answer the pipeline was told of: each question ahead of
\* its answer on Hermes; on the webhook as many as the transcript has room for.
THEOREM FollowUpsReplay == TransportsSpec => ReplaysWhatWasReported
  <1>1. TransportsInv /\ [TransportsNext]_all =>
          [/\ backend = "webhook" => Webhook!ReplaysWhatWasReported
           /\ backend = "hermes" => FollowUpKnowsAnswers]_all
    <2>. SUFFICES ASSUME TransportsInv, TransportsNext
                  PROVE  /\ backend = "webhook" => Webhook!ReplaysWhatWasReported
                         /\ backend = "hermes" => FollowUpKnowsAnswers
      OBVIOUS
    <2>1. CASE backend = "hermes"
      BY <2>1, FollowUps DEF TransportsInv, TransportsNext, Hermes, ByWebhook
    <2>2. CASE backend = "webhook"
      BY <2>2, TurnsReplay DEF TransportsInv, TransportsNext, Hermes, ByWebhook
    <2>. QED  BY <2>1, <2>2
  <1>. QED  BY <1>1, TransportsStart, TransportsMove, PTL DEF TransportsSpec, ReplaysWhatWasReported
=============================================================================
