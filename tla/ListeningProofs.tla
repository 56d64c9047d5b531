-------------------------- MODULE ListeningProofs ---------------------------
(***************************************************************************)
(* Proofs, checked by TLAPS, about what the user's voice passes: the       *)
(* voice-activity gate keeps GateIsSound, the resampler                    *)
(* SessionsAreIndependent; the engines behind speech to text keep          *)
(* SessionContract, and the stage over them FinalIsUtterance.              *)
(***************************************************************************)
EXTENDS VadGate, Resampling, SpeechToText, SequenceTheorems, TLAPS

\* The lemmas about induction over data.
Data == INSTANCE LinkProofs

-----------------------------------------------------------------------------
(***************************************************************************)
(* The pre-roll ring.                                                      *)
(***************************************************************************)

LEMMA SubSeqOfNext ==
    ASSUME NEW S, NEW s \in Seq(S), NEW m \in 1..Len(s), NEW n \in (m - 1)..(Len(s) - 1)
    PROVE  SubSeq(s, m, n + 1) = Append(SubSeq(s, m, n), s[n + 1])
  <1>1. n + 1 \in m..Len(s) /\ (n + 1) - 1 = n /\ m \in Int /\ n \in Int
    OBVIOUS
  <1>2. SubSeq(s, m, n + 1) = SubSeq(s, m, n) \o <<s[n + 1]>>
    BY <1>1, SubSeqRecursiveSecond
  <1>3. SubSeq(s, m, n) \in Seq(S) /\ s[n + 1] \in S
    BY <1>1, SubSeqProperties
  <1>. QED  BY <1>2, <1>3, AppendIsConcat

LEMMA ChunkFields == \A chunk \in Chunk : chunk.len \in Nat /\ chunk.len \in Lengths /\ chunk.seq \in Nat
  BY ConfigAssumption DEF Chunk

\* g[n] is what the first n chunks last.
Totals(g, chunks) ==
    /\ g[0] = 0
    /\ \A i \in 1..Len(chunks) : g[i] = g[i - 1] + chunks[i].len
    /\ Duration(chunks) = g[Len(chunks)]

LEMMA TotalSteps ==
    ASSUME NEW chunks \in Seq(Chunk)
    PROVE  \E g \in [0..Len(chunks) -> Nat] : Totals(g, chunks)
  <1>. DEFINE N == Len(chunks)
              Body(k) == [n \in 0..N |-> IF n = 0 THEN 0 ELSE k[n - 1] + chunks[n].len]
              H == [i \in 1..N |-> [t \in Nat |-> t + chunks[i].len]]
              f == CHOOSE k : k = Body(k)
  <1>0. N \in Nat
    OBVIOUS
  <1>1. N \in Nat /\ \A i \in 1..N : chunks[i].len \in Nat
    BY ChunkFields
  <1>. HIDE DEF N
  <1>2. \A i \in 1..N, t \in Nat : t + chunks[i].len \in Nat
    BY <1>1
  <1>21. H \in [1..N -> [Nat -> Nat]]
    BY <1>2
  <1>22. \A i \in 1..N, t \in Nat : H[i][t] = t + chunks[i].len
    OBVIOUS
  <1>. HIDE DEF H
  <1>3. PICK g \in [0..N -> Nat] : g[0] = 0 /\ \A i \in 1..N : g[i] = H[i][g[i - 1]]
    <2>. DEFINE A == Nat
                a == 0
    <2>1. a \in A /\ H \in [1..N -> [A -> A]] /\ N \in Nat
      BY <1>0, <1>21
    <2>. HIDE DEF A, a
    <2>2. \E g \in [0..N -> A] : g[0] = a /\ \A i \in 1..N : g[i] = H[i][g[i - 1]]
      BY <2>1, Data!Iteration
    <2>. QED  BY <2>2 DEF A, a
  <1>4. ASSUME NEW i \in 1..N
        PROVE  g[i] = g[i - 1] + chunks[i].len
    <2>1. i - 1 \in 0..N
      BY <1>1
    <2>. QED  BY <1>22, <1>3, <2>1
  <1>5. g = Body(g)
    <2>1. ASSUME NEW n \in 0..N
          PROVE  g[n] = IF n = 0 THEN 0 ELSE g[n - 1] + chunks[n].len
      BY <1>1, <1>3, <1>4
    <2>. QED  BY <1>3, <2>1
  <1>. HIDE DEF Body
  <1>6. f = Body(f)
    BY <1>5
  <1>. HIDE DEF f
  <1>7. \A n \in 0..N : f[n] = IF n = 0 THEN 0 ELSE f[n - 1] + chunks[n].len
    BY <1>6 DEF Body
  <1>8. f[N] = g[N]
    <2>. DEFINE T == {n \in 0..N : f[n] = g[n]}
    <2>1. 0 \in T
      BY <1>1, <1>3, <1>7
    <2>2. ASSUME NEW n \in 0..N, n + 1 <= N, n \in T
          PROVE  n + 1 \in T
      <3>1. n + 1 \in 1..N /\ n + 1 \in 0..N /\ n + 1 /= 0 /\ (n + 1) - 1 = n
        BY <1>0, <2>2
      <3>3. f[n] = g[n]
        BY <2>2
      <3>2. f[n + 1] = f[n] + chunks[n + 1].len /\ g[n + 1] = g[n] + chunks[n + 1].len
        BY <1>4, <1>7, <3>1
      <3>. QED  BY <3>1, <3>2, <3>3
    <2>. HIDE DEF T
    <2>3. \A n \in 0..N : n \in T
      BY <1>1, <2>1, <2>2, Data!CountingUp
    <2>. QED  BY <1>1, <2>3 DEF T
  <1>9. Duration(chunks) = f[N]
    BY DEF Duration, f, Body, N
  <1>. QED  BY <1>3, <1>4, <1>8, <1>9 DEF N, Totals

\* One more chunk lasts as much longer as it is long.
LEMMA DurationOfAppend ==
    ASSUME NEW chunks \in Seq(Chunk), NEW chunk \in Chunk
    PROVE  /\ Duration(chunks) \in Nat /\ chunk.len \in Nat
           /\ Duration(Append(chunks, chunk)) = Duration(chunks) + chunk.len
  <1>. DEFINE all == Append(chunks, chunk)
              N == Len(chunks)
  <1>1. /\ N \in Nat /\ all \in Seq(Chunk) /\ Len(all) = N + 1 /\ all[N + 1] = chunk
        /\ \A i \in 1..N : all[i] = chunks[i]
        /\ chunk.len \in Nat
    BY ChunkFields
  <1>. HIDE DEF all
  <1>2. PICK g \in [0..N -> Nat] : Totals(g, chunks)
    BY TotalSteps
  <1>3. PICK h \in [0..Len(all) -> Nat] : Totals(h, all)
    BY <1>1, TotalSteps
  <1>. HIDE DEF N
  <1>4. /\ g[0] = 0 /\ h[0] = 0
        /\ \A i \in 1..N : g[i] = g[i - 1] + chunks[i].len
        /\ \A i \in 1..(N + 1) : h[i] = h[i - 1] + all[i].len
        /\ Duration(chunks) = g[N] /\ Duration(all) = h[N + 1]
    BY <1>1, <1>2, <1>3 DEF Totals, N
  <1>5. g[N] = h[N]
    <2>. DEFINE T == {n \in 0..N : g[n] = h[n]}
    <2>1. 0 \in T
      BY <1>1, <1>4
    <2>2. ASSUME NEW n \in 0..N, n + 1 <= N, n \in T
          PROVE  n + 1 \in T
      <3>1. n + 1 \in 1..N /\ n + 1 \in 1..(N + 1) /\ (n + 1) - 1 = n /\ g[n] = h[n]
        BY <1>1, <2>2
      <3>2. g[n + 1] = g[n] + chunks[n + 1].len /\ h[n + 1] = h[n] + all[n + 1].len
        BY <1>4, <3>1
      <3>. QED  BY <1>1, <3>1, <3>2
    <2>. HIDE DEF T
    <2>3. \A n \in 0..N : n \in T
      BY <1>1, <2>1, <2>2, Data!CountingUp
    <2>. QED  BY <1>1, <2>3 DEF T
  <1>6. N + 1 \in 1..(N + 1) /\ (N + 1) - 1 = N /\ N \in 0..N
    BY <1>1
  <1>7. h[N + 1] = h[N] + all[N + 1].len
    BY <1>4, <1>6
  <1>. QED  BY <1>1, <1>2, <1>4, <1>5, <1>6, <1>7 DEF all

\* What is left without its oldest chunk lasts as much shorter as that one is long.
LEMMA DurationOfRest ==
    ASSUME NEW chunks \in Seq(Chunk), NEW k \in 1..Len(chunks)
    PROVE  Duration(SubSeq(chunks, k, Len(chunks)))
             = chunks[k].len + Duration(SubSeq(chunks, k + 1, Len(chunks)))
  <1>. DEFINE N == Len(chunks)
              With(n) == SubSeq(chunks, k, k + n)
              Without(n) == SubSeq(chunks, k + 1, k + n)
              T == {n \in 0..(N - k) : Duration(With(n)) = chunks[k].len + Duration(Without(n))}
  <1>1. N \in Nat /\ N - k \in Nat /\ k \in Nat
    OBVIOUS
  <1>2. chunks[k] \in Chunk /\ chunks[k].len \in Nat
    BY ChunkFields
  <1>3. ASSUME NEW n \in 0..(N - k)
        PROVE  With(n) \in Seq(Chunk) /\ Without(n) \in Seq(Chunk)
    <2>1. /\ k + n \in Int /\ k \in Int /\ k + 1 \in Int
          /\ \A i \in k..(k + n) : chunks[i] \in Chunk
          /\ \A i \in (k + 1)..(k + n) : chunks[i] \in Chunk
      BY <1>1, <1>3
    <2>. QED  BY <2>1, SubSeqProperties
  <1>4. 0 \in T
    <2>1. With(0) = Append(<<>>, chunks[k]) /\ Without(0) = <<>> /\ <<>> \in Seq(Chunk)
      <3>1. k - 1 \in (k - 1)..(N - 1) /\ (k - 1) + 1 = k /\ k + 0 = k
        BY <1>1
      <3>2. SubSeq(chunks, k, k) = Append(SubSeq(chunks, k, k - 1), chunks[k])
        BY <3>1, SubSeqOfNext
      <3>3. SubSeq(chunks, k, k - 1) = <<>> /\ SubSeq(chunks, k + 1, k) = <<>>
        BY <1>1, SubSeqEmpty
      <3>4. With(0) = SubSeq(chunks, k, k) /\ Without(0) = SubSeq(chunks, k + 1, k)
        BY <3>1, Zenon
      <3>5. <<>> \in Seq(Chunk)
        OBVIOUS
      <3>. HIDE DEF With, Without
      <3>. QED  BY <3>2, <3>3, <3>4, <3>5
    <2>2. PICK g \in [0..0 -> Nat] : Totals(g, <<>>)
      BY <2>1, TotalSteps
    <2>3. Duration(<<>>) = 0
      BY <2>2 DEF Totals
    <2>4. Duration(With(0)) = 0 + chunks[k].len
      BY <1>2, <2>1, <2>3, DurationOfAppend
    <2>. HIDE DEF With, Without, N
    <2>5. Duration(With(0)) = chunks[k].len + Duration(Without(0))
      BY <1>2, <2>1, <2>3, <2>4
    <2>. QED  BY <1>1, <2>5
  <1>5. ASSUME NEW n \in 0..(N - k), n + 1 <= N - k, n \in T
        PROVE  n + 1 \in T
    <2>1. /\ chunks[k + n + 1] \in Chunk /\ n + 1 \in 0..(N - k)
          /\ With(n + 1) = Append(With(n), chunks[k + n + 1])
          /\ Without(n + 1) = Append(Without(n), chunks[k + n + 1])
      <3>1. /\ k + n \in (k - 1)..(N - 1) /\ k + n \in ((k + 1) - 1)..(N - 1)
            /\ k + 1 \in 1..N /\ k + (n + 1) = (k + n) + 1 /\ n + 1 \in 0..(N - k)
            /\ k + n + 1 \in 1..N
        BY <1>1, <1>5
      <3>2. SubSeq(chunks, k, (k + n) + 1) = Append(SubSeq(chunks, k, k + n), chunks[(k + n) + 1])
        BY <3>1, SubSeqOfNext
      <3>3. SubSeq(chunks, k + 1, (k + n) + 1)
              = Append(SubSeq(chunks, k + 1, k + n), chunks[(k + n) + 1])
        BY <3>1, SubSeqOfNext
      <3>. QED  BY <3>1, <3>2, <3>3
    <2>2. /\ Duration(With(n + 1)) = Duration(With(n)) + chunks[k + n + 1].len
          /\ Duration(Without(n + 1)) = Duration(Without(n)) + chunks[k + n + 1].len
          /\ Duration(With(n)) \in Nat /\ Duration(Without(n)) \in Nat
          /\ chunks[k + n + 1].len \in Nat
      BY <1>3, <2>1, DurationOfAppend
    <2>3. Duration(With(n)) = chunks[k].len + Duration(Without(n))
      BY <1>5
    <2>. HIDE DEF With, Without
    <2>4. Duration(With(n + 1)) = chunks[k].len + Duration(Without(n + 1))
      BY <1>2, <2>2, <2>3
    <2>. QED  BY <2>1, <2>4
  <1>. HIDE DEF T
  <1>6. \A n \in 0..(N - k) : n \in T
    BY <1>1, <1>4, <1>5, Data!CountingUp
  <1>7. N - k \in T /\ k + (N - k) = N
    BY <1>1, <1>6
  <1>. QED  BY <1>7 DEF T

\* What a push leaves of the ring and the chunk: from some chunk on everything, within the
\* budget unless it is that chunk alone, which the one before would have exceeded.
LEMMA PushedEffect ==
    ASSUME NEW ring \in Seq(Chunk), NEW chunk \in Chunk
    PROVE  LET all == Append(ring, chunk) IN
           \E k \in 1..Len(all) :
             /\ Pushed(ring, chunk) = SubSeq(all, k, Len(all))
             /\ k < Len(all) => Duration(Pushed(ring, chunk)) <= Preroll
             /\ k > 1 => all[k - 1].len + Duration(Pushed(ring, chunk)) > Preroll
  <1>. DEFINE all == Append(ring, chunk)
              N == Len(all)
              fits(k) == k = N \/ Duration(SubSeq(all, k, N)) <= Preroll
              T == {k \in 1..N : fits(k)}
              first(k) == fits(k) /\ \A j \in 1..k-1 : ~fits(j)
              k0 == CHOOSE k \in 1..N : first(k)
  <1>1. N \in Nat /\ N >= 1 /\ all \in Seq(Chunk)
    OBVIOUS
  <1>2. N \in T /\ T \subseteq Nat
    BY <1>1
  <1>3. PICK m \in T : \A k \in T : m <= k
    BY <1>2, Data!LeastNatural
  <1>4. m \in 1..N /\ first(m)
    BY <1>1, <1>3
  <1>5. k0 \in 1..N /\ first(k0)
    BY <1>4
  <1>6. Pushed(ring, chunk) = SubSeq(all, k0, N)
    BY DEF Pushed
  <1>. HIDE DEF k0, T, all, N
  <1>7. k0 < N => Duration(SubSeq(all, k0, N)) <= Preroll
    BY <1>1, <1>5
  <1>8. ASSUME k0 > 1
        PROVE  all[k0 - 1].len + Duration(SubSeq(all, k0, N)) > Preroll
    <2>1. k0 - 1 \in 1..N /\ k0 - 1 \in 1..k0-1 /\ (k0 - 1) + 1 = k0 /\ k0 - 1 /= N
      BY <1>1, <1>5, <1>8
    <2>2. ~(Duration(SubSeq(all, k0 - 1, N)) <= Preroll)
      BY <1>5, <2>1
    <2>3. Duration(SubSeq(all, k0 - 1, N)) = all[k0 - 1].len + Duration(SubSeq(all, k0, N))
      BY <1>1, <2>1, DurationOfRest DEF N
    <2>4. /\ SubSeq(all, k0 - 1, N) \in Seq(Chunk) /\ SubSeq(all, k0, N) \in Seq(Chunk)
          /\ all[k0 - 1] \in Chunk
      BY <1>1, <1>5, <2>1 DEF N
    <2>5. /\ Duration(SubSeq(all, k0 - 1, N)) \in Nat /\ Duration(SubSeq(all, k0, N)) \in Nat
          /\ all[k0 - 1].len \in Nat
      BY <2>4, DurationOfAppend
    <2>. QED  BY <2>2, <2>3, <2>5, ConfigAssumption
  <1>. QED  BY <1>5, <1>6, <1>7, <1>8 DEF N, all

-----------------------------------------------------------------------------
(***************************************************************************)
(* The plan of a batch of events.                                          *)
(***************************************************************************)
Plans == [mode : {"idle", "speech"}, ring : Seq(Chunk), sentChunk : BOOLEAN,
          chunk : Chunk, plan : Seq(Frame)]

Audios(ring) == [i \in 1..Len(ring) |-> Audio(ring[i])]
Opening(ring, chunk) == (<<Edge("started")>> \o Audios(ring)) \o <<Audio(chunk)>>
Closing(chunk) == <<Audio(chunk)>> \o <<Edge("stopped")>>

\* What an event adds to the plan.
Added(p, event) ==
    CASE event = "started" -> Opening(p.ring, p.chunk)
      [] event = "stopped" /\ p.sentChunk -> <<Edge("stopped")>>
      [] event = "stopped" /\ ~p.sentChunk -> Closing(p.chunk)

LEMMA FrameFields ==
    /\ \A event \in Events : Edge(event) \in Frame /\ Edge(event).kind = event
    /\ \A chunk \in Chunk : /\ Audio(chunk) \in Frame
                            /\ Audio(chunk).kind = "audio" /\ Audio(chunk).chunk = chunk
    /\ \A frame \in Frame : frame.kind \in {"audio", "started", "stopped"}
    /\ \A frame \in Frame : frame.kind = "audio" => frame.chunk \in Chunk
  BY DEF Edge, Audio, Frame, Events

LEMMA OneAround ==
    ASSUME NEW S, NEW e \in S, NEW held \in Seq(S), NEW a \in S
    PROVE  LET whole == (<<e>> \o held) \o <<a>> IN
           /\ whole \in Seq(S) /\ Len(whole) = Len(held) + 2
           /\ whole[1] = e /\ whole[Len(held) + 2] = a
           /\ \A i \in 1..Len(held) : whole[i + 1] = held[i]
  <1>1. <<e>> \in Seq(S) /\ Len(<<e>>) = 1 /\ <<e>>[1] = e
    OBVIOUS
  <1>2. <<a>> \in Seq(S) /\ Len(<<a>>) = 1 /\ <<a>>[1] = a
    OBVIOUS
  <1>3. ASSUME NEW c \in Seq(S), Len(c) = 1, NEW d \in Seq(S), Len(d) = 1
        PROVE  LET whole == (c \o held) \o d IN
           /\ whole \in Seq(S) /\ Len(whole) = Len(held) + 2
           /\ whole[1] = c[1] /\ whole[Len(held) + 2] = d[1]
           /\ \A i \in 1..Len(held) : whole[i + 1] = held[i]
    <2>1. c \o held \in Seq(S) /\ Len(c \o held) = Len(c) + Len(held)
      OBVIOUS
    <2>. QED  BY <1>3, <2>1
  <1>. QED  BY <1>1, <1>2, <1>3

LEMMA AddedFrames ==
    ASSUME NEW ring \in Seq(Chunk), NEW chunk \in Chunk
    PROVE  /\ Opening(ring, chunk) \in Seq(Frame)
           /\ Len(Opening(ring, chunk)) = Len(ring) + 2
           /\ Opening(ring, chunk)[1] = Edge("started")
           /\ \A i \in 1..Len(ring) : Opening(ring, chunk)[i + 1] = Audio(ring[i])
           /\ Opening(ring, chunk)[Len(ring) + 2] = Audio(chunk)
           /\ Closing(chunk) \in Seq(Frame) /\ Len(Closing(chunk)) = 2
           /\ Closing(chunk)[1] = Audio(chunk) /\ Closing(chunk)[2] = Edge("stopped")
  <1>. DEFINE e == Edge("started")
              a == Audio(chunk)
              z == Edge("stopped")
              N == Len(ring)
              held == Audios(ring)
  <1>1. e \in Frame /\ a \in Frame /\ z \in Frame /\ N \in Nat
    BY FrameFields DEF Events
  <1>2. held \in Seq(Frame) /\ Len(held) = N /\ \A i \in 1..N : held[i] = Audio(ring[i])
    <2>1. \A i \in 1..Len(ring) : Audio(ring[i]) \in Frame
      BY FrameFields
    <2>2. Audios(ring) \in Seq(Frame)
      BY <2>1 DEF Audios
    <2>. QED  BY <2>2 DEF Audios
  <1>. HIDE DEF e, a, z, held
  <1>3. Opening(ring, chunk) = (<<e>> \o held) \o <<a>> /\ Closing(chunk) = <<a>> \o <<z>>
    BY DEF Opening, Closing, e, a, z, held
  <1>. HIDE DEF N
  <1>4. /\ (<<e>> \o held) \o <<a>> \in Seq(Frame)
        /\ Len((<<e>> \o held) \o <<a>>) = N + 2
        /\ ((<<e>> \o held) \o <<a>>)[1] = e
        /\ \A i \in 1..N : ((<<e>> \o held) \o <<a>>)[i + 1] = held[i]
        /\ ((<<e>> \o held) \o <<a>>)[N + 2] = a
    BY <1>1, <1>2, OneAround
  <1>5. /\ <<a>> \o <<z>> \in Seq(Frame) /\ Len(<<a>> \o <<z>>) = 2
        /\ (<<a>> \o <<z>>)[1] = a /\ (<<a>> \o <<z>>)[2] = z
    BY <1>1
  <1>. QED  BY <1>2, <1>3, <1>4, <1>5 DEF e, a, z, N

LEMMA NotEmpty == \A s \in Seq(Frame) : Len(s) > 0 => s /= <<>>
  OBVIOUS

LEMMA ClosingFrames ==
    ASSUME NEW chunk \in Chunk
    PROVE  /\ Closing(chunk) \in Seq(Frame) /\ Len(Closing(chunk)) = 2 /\ Closing(chunk) /= <<>>
           /\ Closing(chunk)[1] = Audio(chunk) /\ Closing(chunk)[2] = Edge("stopped")
  <1>1. <<>> \in Seq(Chunk)
    OBVIOUS
  <1>2. /\ Closing(chunk) \in Seq(Frame) /\ Len(Closing(chunk)) = 2
        /\ Closing(chunk)[1] = Audio(chunk) /\ Closing(chunk)[2] = Edge("stopped")
    BY <1>1, AddedFrames
  <1>. QED  BY <1>2, NotEmpty

LEMMA Associates ==
    ASSUME NEW S
    PROVE  \A s, t, u \in Seq(S) : s \o t \in Seq(S) /\ (s \o t) \o u = s \o (t \o u)
  <1>. SUFFICES ASSUME NEW s \in Seq(S), NEW t \in Seq(S), NEW u \in Seq(S)
                PROVE  s \o t \in Seq(S) /\ (s \o t) \o u = s \o (t \o u)
    OBVIOUS
  <1>1. /\ s \o t \in Seq(S) /\ t \o u \in Seq(S)
        /\ Len(s \o t) = Len(s) + Len(t) /\ Len(t \o u) = Len(t) + Len(u)
    OBVIOUS
  <1>2. /\ (s \o t) \o u \in Seq(S) /\ s \o (t \o u) \in Seq(S)
        /\ Len((s \o t) \o u) = Len(s) + Len(t) + Len(u)
        /\ Len(s \o (t \o u)) = Len(s) + Len(t) + Len(u)
    BY <1>1
  <1>3. ASSUME NEW i \in 1..(Len(s) + Len(t) + Len(u))
        PROVE  ((s \o t) \o u)[i] = (s \o (t \o u))[i]
    BY <1>1
  <1>. QED  BY <1>1, <1>2, <1>3, SeqEqual

LEMMA ConcatAgain ==
    \A s, t, u \in Seq(Frame) : s \o t \in Seq(Frame) /\ (s \o t) \o u = s \o (t \o u)
  BY Associates

\* The modes, the ring and the frames after an event.
LEMMA PlanEventEffect ==
    ASSUME NEW p \in Plans, NEW event \in Events
    PROVE  LET q == PlanEvent(p, event)
           IN  /\ q \in Plans
               /\ q.mode = ModeAfter(p.mode, event)
               /\ q.ring = IF event = "started" THEN <<>> ELSE p.ring
               /\ q.sentChunk /\ q.chunk = p.chunk
               /\ q.plan = p.plan \o Added(p, event)
               /\ Added(p, event) \in Seq(Frame)
  <1>. DEFINE q == PlanEvent(p, event)
              e == <<Edge("started")>>
              held == Audios(p.ring)
              a == <<Audio(p.chunk)>>
              z == <<Edge("stopped")>>
  <1>1. /\ p.ring \in Seq(Chunk) /\ p.chunk \in Chunk /\ p.plan \in Seq(Frame)
        /\ p.sentChunk \in BOOLEAN /\ p.mode \in {"idle", "speech"}
    BY DEF Plans
  <1>2. e \in Seq(Frame) /\ a \in Seq(Frame) /\ z \in Seq(Frame) /\ held \in Seq(Frame)
    <2>1. \A i \in 1..Len(p.ring) : Audio(p.ring[i]) \in Frame
      BY <1>1, FrameFields
    <2>2. held \in Seq(Frame)
      BY <1>1, <2>1 DEF Audios
    <2>. QED  BY <1>1, <2>2, FrameFields DEF Events
  <1>. HIDE DEF e, held, a, z
  <1>3. ModeAfter(p.mode, event) \in {"idle", "speech"} /\ <<>> \in Seq(Chunk)
    BY DEF ModeAfter
  <1>4. ASSUME event = "started"
        PROVE  /\ q \in Plans
               /\ q.mode = ModeAfter(p.mode, event)
               /\ q.ring = <<>>
               /\ q.sentChunk /\ q.chunk = p.chunk
               /\ q.plan = p.plan \o Added(p, event)
               /\ Added(p, event) \in Seq(Frame)
    <2>. DEFINE plan == ((p.plan \o e) \o held) \o a
    <2>1. q = [mode |-> ModeAfter(p.mode, event), ring |-> <<>>, sentChunk |-> TRUE,
               chunk |-> p.chunk, plan |-> plan]
      BY <1>4 DEF PlanEvent, Audios, e, held, a
    <2>2. (p.plan \o e) \o held = p.plan \o (e \o held)
      BY <1>1, <1>2, ConcatAgain
    <2>3. e \o held \in Seq(Frame)
      BY <1>2
    <2>4. plan = p.plan \o ((e \o held) \o a)
      <3>. DEFINE b == e \o held
      <3>1. b \in Seq(Frame)
        BY <2>3
      <3>. HIDE DEF b
      <3>2. (p.plan \o b) \o a = p.plan \o (b \o a)
        <4>1. p.plan \in Seq(Frame) /\ a \in Seq(Frame)
          BY <1>1, <1>2
        <4>. QED  BY ONLY <3>1, <4>1, ConcatAgain
      <3>. QED  BY <2>2, <3>2 DEF b
    <2>5. Added(p, event) = (e \o held) \o a
      BY <1>4 DEF Added, Opening, e, held, a
    <2>6. Added(p, event) \in Seq(Frame)
      BY <1>2, <2>3, <2>5
    <2>7. plan \in Seq(Frame) /\ plan = p.plan \o Added(p, event)
      BY <1>1, <2>4, <2>5, <2>6
    <2>. HIDE DEF plan, q
    <2>8. q \in Plans
      BY <1>1, <1>3, <2>1, <2>7 DEF Plans
    <2>. QED  BY <2>1, <2>6, <2>7, <2>8
  <1>5. ASSUME event = "stopped"
        PROVE  /\ q \in Plans
               /\ q.mode = ModeAfter(p.mode, event)
               /\ q.ring = p.ring
               /\ q.sentChunk /\ q.chunk = p.chunk
               /\ q.plan = p.plan \o Added(p, event)
               /\ Added(p, event) \in Seq(Frame)
    <2>. DEFINE tail == IF p.sentChunk THEN <<>> ELSE a
                plan == (p.plan \o tail) \o z
    <2>1. q = [p EXCEPT !.mode = ModeAfter(@, event), !.sentChunk = TRUE, !.plan = plan]
      BY <1>5 DEF PlanEvent, a, z
    <2>2. tail \in Seq(Frame)
      BY <1>2
    <2>. HIDE DEF tail
    <2>3. plan = p.plan \o (tail \o z)
      <3>1. p.plan \in Seq(Frame) /\ z \in Seq(Frame)
        BY <1>1, <1>2
      <3>. QED  BY ONLY <2>2, <3>1, ConcatAgain
    <2>4. Added(p, event) = tail \o z
      <3>1. CASE p.sentChunk
        BY <1>2, <1>5, <3>1 DEF Added, z, tail
      <3>2. CASE ~p.sentChunk
        BY <1>5, <3>2 DEF Added, Closing, a, z, tail
      <3>. QED  BY <3>1, <3>2
    <2>5. Added(p, event) \in Seq(Frame)
      BY <1>2, <2>2, <2>4
    <2>6. plan \in Seq(Frame) /\ plan = p.plan \o Added(p, event)
      BY <1>1, <2>3, <2>4, <2>5, ConcatAgain
    <2>. HIDE DEF q
    <2>7. q \in Plans
      BY <1>1, <1>3, <2>1, <2>6 DEF Plans
    <2>. QED  BY <1>1, <2>1, <2>5, <2>6, <2>7 DEF Plans
  <1>. QED  BY <1>4, <1>5 DEF Events

\* g[n] is the plan after the first n events.
Chain(g, events, chunk) ==
    /\ g[0] = Unplanned(chunk)
    /\ \A i \in 1..Len(events) : g[i] = PlanEvent(g[i - 1], events[i])
    /\ PlanOf(events, chunk) = g[Len(events)]

LEMMA PlansIterate ==
    ASSUME NEW a \in Plans, NEW N \in Nat, NEW H \in [1..N -> [Plans -> Plans]]
    PROVE  \E g \in [0..N -> Plans] : g[0] = a /\ \A i \in 1..N : g[i] = H[i][g[i - 1]]
  BY Data!Iteration

LEMMA PlanSteps ==
    ASSUME NEW events \in Seq(Events), NEW chunk \in Chunk, NEW a \in Plans, a = Unplanned(chunk)
    PROVE  \E g \in [0..Len(events) -> Plans] : Chain(g, events, chunk)
  <1>. DEFINE N == Len(events)
              Body(k) == [n \in 0..N |-> IF n = 0 THEN a ELSE PlanEvent(k[n - 1], events[n])]
              H == [i \in 1..N |-> [p \in Plans |-> PlanEvent(p, events[i])]]
              f == CHOOSE k : k = Body(k)
  <1>1. N \in Nat /\ \A i \in 1..N : events[i] \in Events
    OBVIOUS
  <1>. HIDE DEF N
  <1>2. \A i \in 1..N, p \in Plans : PlanEvent(p, events[i]) \in Plans
    BY <1>1, PlanEventEffect
  <1>3. H \in [1..N -> [Plans -> Plans]]
    BY <1>2
  <1>4. \A i \in 1..N, p \in Plans : H[i][p] = PlanEvent(p, events[i])
    OBVIOUS
  <1>. HIDE DEF H
  <1>5. PICK g \in [0..N -> Plans] : g[0] = a /\ \A i \in 1..N : g[i] = H[i][g[i - 1]]
    BY <1>1, <1>3, PlansIterate
  <1>6. ASSUME NEW i \in 1..N
        PROVE  g[i] = PlanEvent(g[i - 1], events[i])
    <2>1. i - 1 \in 0..N
      BY <1>1
    <2>. QED  BY <1>4, <1>5, <2>1
  <1>7. g = Body(g)
    <2>1. ASSUME NEW n \in 0..N
          PROVE  g[n] = IF n = 0 THEN a ELSE PlanEvent(g[n - 1], events[n])
      <3>1. CASE n = 0
        BY <1>5, <3>1
      <3>2. CASE n \in 1..N
        <4>1. n /= 0
          BY <1>1, <3>2
        <4>2. g[n] = PlanEvent(g[n - 1], events[n])
          BY <1>6, <3>2
        <4>. QED  BY <4>1, <4>2, Zenon
      <3>. QED  BY <1>1, <3>1, <3>2
    <2>. QED  BY <1>5, <2>1
  <1>. HIDE DEF Body
  <1>8. f = Body(f)
    BY <1>7
  <1>. HIDE DEF f
  <1>9. \A n \in 0..N : f[n] = IF n = 0 THEN a ELSE PlanEvent(f[n - 1], events[n])
    BY <1>8 DEF Body
  <1>10. f[N] = g[N]
    <2>. DEFINE T == {n \in 0..N : f[n] = g[n]}
    <2>1. 0 \in T
      BY <1>1, <1>5, <1>9
    <2>2. ASSUME NEW n \in 0..N, n + 1 <= N, n \in T
          PROVE  n + 1 \in T
      <3>1. n + 1 \in 1..N /\ n + 1 \in 0..N /\ n + 1 /= 0 /\ (n + 1) - 1 = n
        BY <1>1, <2>2
      <3>2. f[n] = g[n]
        BY <2>2
      <3>3. f[n + 1] = PlanEvent(f[n], events[n + 1]) /\ g[n + 1] = PlanEvent(g[n], events[n + 1])
        BY <1>6, <1>9, <3>1
      <3>. QED  BY <3>1, <3>2, <3>3
    <2>. HIDE DEF T
    <2>3. \A n \in 0..N : n \in T
      BY <1>1, <2>1, <2>2, Data!CountingUp
    <2>. QED  BY <1>1, <2>3 DEF T
  <1>11. PlanOf(events, chunk) = f[N]
    BY DEF PlanOf, f, Body, N
  <1>. QED  BY <1>5, <1>6, <1>10, <1>11 DEF N, Chain

\* What may come next in a sequence of utterances, and a sequence in which everything does.
Follows(before, this) ==
    /\ this.kind = "started" => before.kind = "stopped"
    /\ this.kind = "stopped" => before.kind = "audio"
    /\ this.kind = "audio" =>
         /\ before.kind /= "stopped"
         /\ before.kind = "audio" => this.chunk.seq = before.chunk.seq + 1
Linked(frames) == \A i \in 2..Len(frames) : Follows(frames[i - 1], frames[i])

LEMMA UtterancesLinked ==
    ASSUME NEW s \in Seq(Frame)
    PROVE  Utterances(s) <=> (s /= <<>> => s[1].kind = "started") /\ Linked(s)
  <1>1. \A i \in 1..Len(s) : s[i].kind \in {"audio", "started", "stopped"}
    BY FrameFields
  <1>2. ASSUME Utterances(s)
        PROVE  (s /= <<>> => s[1].kind = "started") /\ Linked(s)
    <2>1. s /= <<>> => 1 \in 1..Len(s) /\ ~(1 > 1)
      OBVIOUS
    <2>2. s /= <<>> => s[1].kind = "started"
      BY <1>1, <1>2, <2>1 DEF Utterances
    <2>3. ASSUME NEW i \in 2..Len(s)
          PROVE  Follows(s[i - 1], s[i])
      <3>1. i \in 1..Len(s) /\ i > 1 /\ i - 1 \in 1..Len(s)
        OBVIOUS
      <3>. QED  BY <1>1, <1>2, <3>1 DEF Utterances, Follows
    <2>. QED  BY <2>2, <2>3 DEF Linked
  <1>3. ASSUME s /= <<>> => s[1].kind = "started", Linked(s)
        PROVE  Utterances(s)
    <2>. SUFFICES ASSUME NEW i \in 1..Len(s)
                  PROVE  LET this   == s[i]
                             opened == i > 1 /\ s[i - 1].kind /= "stopped"
                         IN  /\ this.kind = "started" => ~opened
                             /\ this.kind = "stopped" => opened /\ s[i - 1].kind = "audio"
                             /\ this.kind = "audio" =>
                                  /\ opened
                                  /\ s[i - 1].kind = "audio" =>
                                       this.chunk.seq = s[i - 1].chunk.seq + 1
      BY DEF Utterances
    <2>1. CASE i = 1
      BY <1>3, <2>1
    <2>2. CASE i \in 2..Len(s)
      <3>1. Follows(s[i - 1], s[i]) /\ i > 1 /\ i - 1 \in 1..Len(s)
        BY <1>3, <2>2 DEF Linked
      <3>. QED  BY <1>1, <3>1 DEF Follows
    <2>. QED  BY <2>1, <2>2
  <1>. QED  BY <1>2, <1>3

LEMMA PiecesJoin ==
    ASSUME NEW s \in Seq(Frame), NEW t \in Seq(Frame), t /= <<>>,
           Utterances(s), Linked(t),
           s = <<>> => t[1].kind = "started",
           s /= <<>> => Follows(s[Len(s)], t[1])
    PROVE  Utterances(s \o t)
  <1>. DEFINE u == s \o t
              N == Len(s)
              M == Len(t)
  <1>1. /\ u \in Seq(Frame) /\ Len(u) = N + M /\ N \in Nat /\ M \in Nat /\ M > 0
        /\ \A i \in 1..N : u[i] = s[i]
        /\ \A j \in 1..M : u[N + j] = t[j]
    OBVIOUS
  <1>2. (N = 0 <=> s = <<>>) /\ (s /= <<>> => s[1].kind = "started") /\ Linked(s)
    BY UtterancesLinked
  <1>. HIDE DEF u
  <1>3. u[1].kind = "started"
    <2>1. CASE N = 0
      <3>1. 1 \in 1..M /\ N + 1 = 1
        BY <1>1, <2>1
      <3>2. u[1] = t[1]
        BY <1>1, <3>1
      <3>. QED  BY <1>2, <2>1, <3>2
    <2>2. CASE N > 0
      <3>1. 1 \in 1..N
        BY <1>1, <2>2
      <3>. QED  BY <1>1, <1>2, <2>2, <3>1
    <2>. QED  BY <1>1, <2>1, <2>2
  <1>4. ASSUME NEW i \in 2..N + M
        PROVE  Follows(u[i - 1], u[i])
    <2>1. CASE i <= N
      <3>1. i \in 2..Len(s) /\ i \in 1..N /\ i - 1 \in 1..N
        BY <1>1, <2>1
      <3>. QED  BY <1>1, <1>2, <3>1 DEF Linked
    <2>2. CASE i = N + 1
      <3>1. N \in 1..N /\ 1 \in 1..M /\ i - 1 = N /\ s /= <<>>
        BY <1>1, <1>2, <2>2
      <3>2. u[N] = s[N] /\ u[N + 1] = t[1]
        BY <1>1, <3>1
      <3>3. Follows(s[N], t[1])
        BY <3>1
      <3>. QED  BY <2>2, <3>1, <3>2, <3>3
    <2>3. CASE i > N + 1
      <3>. DEFINE j == i - N
      <3>1. j \in 2..M /\ j \in 1..M /\ j - 1 \in 1..M /\ N + j = i /\ N + (j - 1) = i - 1
        BY <1>1, <2>3
      <3>2. u[N + j] = t[j] /\ u[N + (j - 1)] = t[j - 1]
        BY <1>1, <3>1
      <3>3. Follows(t[j - 1], t[j])
        BY <3>1 DEF Linked
      <3>. QED  BY <3>1, <3>2, <3>3
    <2>. QED  BY <1>1, <2>1, <2>2, <2>3
  <1>5. Utterances(u)
    BY <1>1, <1>3, <1>4, UtterancesLinked DEF Linked
  <1>. QED  BY <1>5 DEF u

Consecutive(ring) == \A i \in 1..Len(ring) - 1 : ring[i + 1].seq = ring[i].seq + 1

\* The frames of an onset and of an end are linked.
LEMMA OpeningLinked ==
    ASSUME NEW ring \in Seq(Chunk), NEW chunk \in Chunk, Consecutive(ring),
           ring /= <<>> => chunk.seq = ring[Len(ring)].seq + 1
    PROVE  Linked(Opening(ring, chunk))
  <1>. DEFINE o == Opening(ring, chunk)
              N == Len(ring)
  <1>1. /\ N \in Nat /\ Len(o) = N + 2
        /\ o[1] = Edge("started") /\ \A i \in 1..N : o[i + 1] = Audio(ring[i])
        /\ o[N + 2] = Audio(chunk)
    BY AddedFrames
  <1>. HIDE DEF o
  <1>2. \A i \in 1..N : Audio(ring[i]).kind = "audio" /\ Audio(ring[i]).chunk = ring[i]
    BY FrameFields
  <1>3. /\ Edge("started").kind = "started"
        /\ Audio(chunk).kind = "audio" /\ Audio(chunk).chunk = chunk
    BY FrameFields DEF Events
  <1>4. ASSUME NEW i \in 2..N + 2
        PROVE  Follows(o[i - 1], o[i])
    <2>1. CASE i = 2 /\ N = 0
      BY <1>1, <1>3, <2>1 DEF Follows
    <2>2. CASE i = 2 /\ N > 0
      <3>1. 1 \in 1..N
        BY <1>1, <2>2
      <3>2. o[2] = Audio(ring[1])
        BY <1>1, <3>1
      <3>. QED  BY <1>1, <1>2, <1>3, <2>2, <3>1, <3>2 DEF Follows
    <2>3. CASE i > 2 /\ i < N + 2
      <3>. DEFINE j == i - 2
      <3>1. /\ j \in 1..N - 1 /\ j \in 1..N /\ j + 1 \in 1..N
            /\ j + 1 = i - 1 /\ (j + 1) + 1 = i
        BY <1>1, <2>3
      <3>2. o[i - 1] = Audio(ring[j]) /\ o[i] = Audio(ring[j + 1])
        BY <1>1, <3>1
      <3>3. ring[j + 1].seq = ring[j].seq + 1
        BY <3>1 DEF Consecutive
      <3>. QED  BY <1>2, <3>1, <3>2, <3>3 DEF Follows
    <2>4. CASE i = N + 2 /\ N > 0
      <3>1. N \in 1..N /\ i - 1 = N + 1 /\ ring /= <<>>
        BY <1>1, <2>4
      <3>2. o[i - 1] = Audio(ring[N])
        BY <1>1, <3>1
      <3>. QED  BY <1>1, <1>2, <1>3, <2>4, <3>1, <3>2 DEF Follows
    <2>. QED  BY <1>1, <2>1, <2>2, <2>3, <2>4
  <1>. QED  BY <1>1, <1>4 DEF Linked, o

LEMMA ClosingLinked ==
    ASSUME NEW chunk \in Chunk
    PROVE  Linked(Closing(chunk)) /\ Linked(<<Edge("stopped")>>)
  <1>1. /\ Edge("stopped").kind = "stopped" /\ Audio(chunk).kind = "audio"
    BY FrameFields DEF Events
  <1>2. /\ Len(Closing(chunk)) = 2
        /\ Closing(chunk)[1] = Audio(chunk) /\ Closing(chunk)[2] = Edge("stopped")
    BY ClosingFrames
  <1>3. ASSUME NEW i \in 2..2
        PROVE  Follows(Closing(chunk)[i - 1], Closing(chunk)[i])
    <2>1. i = 2 /\ i - 1 = 1
      OBVIOUS
    <2>. QED  BY <1>1, <1>2, <2>1 DEF Follows
  <1>4. Len(<<Edge("stopped")>>) = 1
    OBVIOUS
  <1>. QED  BY <1>2, <1>3, <1>4 DEF Linked

\* What the plan p after n events is, when it follows the frames sent, in which the gate
\* was found in this state; seq is the number of the chunk in hand.
Planned(p, n, emitted, chunk, inSpeech) ==
    LET out == emitted \o p.plan
    IN  /\ p.chunk = chunk
        /\ p.sentChunk = (n > 0)
        /\ (p.mode = "speech") = ((n % 2 = 1) /= inSpeech)
        /\ Utterances(out)
        /\ p.mode = "speech" =>
             /\ p.ring = <<>> /\ out /= <<>>
             /\ Carries(out[Len(out)], IF n > 0 THEN chunk.seq ELSE chunk.seq - 1)
        /\ p.mode = "idle" /\ out /= <<>> => out[Len(out)].kind = "stopped"
        /\ n > 0 => p.ring = <<>> /\ \E i \in 1..Len(out) : Carries(out[i], chunk.seq)
        /\ Consecutive(p.ring)
        /\ p.ring /= <<>> => chunk.seq = p.ring[Len(p.ring)].seq + 1

\* The frames of one more event continue the utterances.
LEMMA OneMoreEvent ==
    ASSUME NEW emitted \in Seq(Frame), NEW p \in Plans, NEW chunk \in Chunk, NEW n \in Nat,
           NEW inSpeech \in BOOLEAN, Planned(p, n, emitted, chunk, inSpeech),
           NEW event, event = IF ((n + 1) % 2 = 1) = inSpeech THEN "stopped" ELSE "started"
    PROVE  Planned(PlanEvent(p, event), n + 1, emitted, chunk, inSpeech)
  <1>. DEFINE q == PlanEvent(p, event)
              out == emitted \o p.plan
              add == Added(p, event)
              M == Len(out)
              K == Len(add)
              whole == emitted \o q.plan
  <1>1. /\ p.ring \in Seq(Chunk) /\ p.chunk \in Chunk /\ p.plan \in Seq(Frame)
        /\ p.sentChunk \in BOOLEAN /\ p.mode \in {"idle", "speech"}
    BY DEF Plans
  <1>2. event \in Events /\ ((n + 1) % 2 = 1 <=> ~(n % 2 = 1))
    BY DEF Events
  <1>3. /\ q \in Plans
        /\ q.mode = ModeAfter(p.mode, event)
        /\ q.ring = IF event = "started" THEN <<>> ELSE p.ring
        /\ q.sentChunk /\ q.chunk = p.chunk
        /\ q.plan = p.plan \o add
        /\ add \in Seq(Frame)
    BY <1>2, PlanEventEffect
  <1>4. out \in Seq(Frame)
    BY <1>1
  <1>5. whole = out \o add
    <2>1. (emitted \o p.plan) \o add = emitted \o (p.plan \o add)
      BY <1>1, <1>3, ConcatAgain
    <2>. QED  BY <1>3, <2>1
  <1>6. /\ p.chunk = chunk /\ p.sentChunk = (n > 0)
        /\ (p.mode = "speech") = ((n % 2 = 1) /= inSpeech)
        /\ Utterances(out)
        /\ p.mode = "speech" =>
             /\ p.ring = <<>> /\ out /= <<>>
             /\ Carries(out[M], IF n > 0 THEN chunk.seq ELSE chunk.seq - 1)
        /\ p.mode = "idle" /\ out /= <<>> => out[M].kind = "stopped"
        /\ n > 0 => p.ring = <<>> /\ \E i \in 1..M : Carries(out[i], chunk.seq)
        /\ Consecutive(p.ring)
        /\ p.ring /= <<>> => chunk.seq = p.ring[Len(p.ring)].seq + 1
    BY DEF Planned
  <1>7. q.mode = IF event = "started" THEN "speech" ELSE "idle"
    BY <1>3 DEF ModeAfter
  <1>8. event = "started" <=> p.mode = "idle"
    BY <1>1, <1>2, <1>6
  <1>9. (q.mode = "speech") = (((n + 1) % 2 = 1) /= inSpeech)
    BY <1>2, <1>7
  <1>10. Consecutive(<<>>)
    BY DEF Consecutive
  <1>11. /\ Edge("started").kind = "started" /\ Edge("stopped").kind = "stopped"
         /\ Audio(chunk).kind = "audio" /\ Audio(chunk).chunk = chunk
    BY FrameFields DEF Events
  <1>. HIDE DEF q, out, add, whole
  <1>12. ASSUME add /= <<>>, Utterances(out \o add)
         PROVE  /\ whole \in Seq(Frame) /\ whole /= <<>> /\ Utterances(whole)
                /\ Len(whole) = M + K /\ M \in Nat /\ K \in Nat /\ K > 0
                /\ whole[Len(whole)] = add[K]
                /\ \A i \in 1..M : whole[i] = out[i]
                /\ \A j \in 1..K : whole[M + j] = add[j]
    <2>1. /\ whole \in Seq(Frame) /\ Len(whole) = M + K /\ M \in Nat /\ K \in Nat /\ K > 0
          /\ \A i \in 1..M : whole[i] = out[i]
          /\ \A j \in 1..K : whole[M + j] = add[j]
      BY <1>3, <1>4, <1>5, <1>12
    <2>2. K \in 1..K /\ whole /= <<>>
      BY <2>1
    <2>3. Utterances(whole)
      BY <1>5, <1>12
    <2>. QED  BY <2>1, <2>2, <2>3
  <1>13. ASSUME event = "started"
         PROVE  Planned(q, n + 1, emitted, chunk, inSpeech)
    <2>. DEFINE L == Len(p.ring)
    <2>1. add = Opening(p.ring, chunk)
      BY <1>6, <1>13 DEF Added, add
    <2>2. K = L + 2 /\ L \in Nat /\ add[1] = Edge("started") /\ add[L + 2] = Audio(chunk)
      BY <1>1, <1>6, <2>1, AddedFrames
    <2>3. Linked(add) /\ add /= <<>>
      BY <1>1, <1>6, <2>1, <2>2, OpeningLinked
    <2>4. out /= <<>> => Follows(out[M], add[1])
      BY <1>6, <1>8, <1>11, <1>13, <2>2 DEF Follows
    <2>5. Utterances(out \o add)
      BY <1>3, <1>4, <1>6, <1>11, <2>2, <2>3, <2>4, PiecesJoin
    <2>6. /\ whole /= <<>> /\ Utterances(whole) /\ Len(whole) \in 1..Len(whole)
          /\ whole[Len(whole)] = Audio(chunk)
      BY <1>12, <2>2, <2>3, <2>5
    <2>7. Carries(whole[Len(whole)], chunk.seq)
      BY <1>11, <2>6 DEF Carries
    <2>8. q.ring = <<>> /\ q.mode = "speech" /\ q.sentChunk /\ n + 1 > 0 /\ q.chunk = chunk
      BY <1>3, <1>6, <1>7, <1>13
    <2>. QED  BY <1>3, <1>9, <1>10, <2>6, <2>7, <2>8 DEF Planned, whole
  <1>14. ASSUME event = "stopped"
         PROVE  Planned(q, n + 1, emitted, chunk, inSpeech)
    <2>1. p.mode = "speech" /\ p.ring = <<>> /\ out /= <<>> /\ M \in 1..M
      BY <1>1, <1>4, <1>6, <1>8, <1>14
    <2>2. q.ring = <<>> /\ q.mode = "idle" /\ q.sentChunk /\ n + 1 > 0 /\ q.chunk = chunk
      BY <1>3, <1>6, <1>7, <1>14, <2>1
    <2>3. Utterances(out \o add) /\ add /= <<>> /\ add[K] = Edge("stopped")
      <3>1. CASE n > 0
        <4>1. add = <<Edge("stopped")>>
          BY <1>6, <1>14, <3>1 DEF Added, add
        <4>2. add /= <<>> /\ K = 1 /\ add[1] = Edge("stopped") /\ Linked(add)
          BY <4>1, ClosingLinked
        <4>3. Follows(out[M], add[1])
          BY <1>6, <1>11, <2>1, <4>2 DEF Follows, Carries
        <4>. QED  BY <1>3, <1>4, <1>6, <2>1, <4>2, <4>3, PiecesJoin
      <3>2. CASE ~(n > 0)
        <4>1. add = Closing(chunk)
          BY <1>6, <1>14, <3>2 DEF Added, add
        <4>2. /\ add /= <<>> /\ K = 2 /\ add[1] = Audio(chunk) /\ add[2] = Edge("stopped")
              /\ Linked(add)
          BY <4>1, ClosingFrames, ClosingLinked
        <4>3. Follows(out[M], add[1])
          <5>1. Carries(out[M], chunk.seq - 1) /\ chunk.seq \in Nat
            BY <1>6, <2>1, <3>2, ChunkFields
          <5>2. out[M].kind = "audio" /\ out[M].chunk.seq = chunk.seq - 1
            BY <5>1 DEF Carries
          <5>3. out[M].chunk.seq + 1 = chunk.seq
            BY <5>1, <5>2
          <5>4. add[1].kind = "audio" /\ add[1].chunk = chunk
            BY <1>11, <4>2
          <5>. QED  BY <5>2, <5>3, <5>4 DEF Follows
        <4>. QED  BY <1>3, <1>4, <1>6, <2>1, <4>2, <4>3, PiecesJoin
      <3>. QED  BY <3>1, <3>2
    <2>4. /\ whole /= <<>> /\ Utterances(whole)
          /\ whole[Len(whole)] = Edge("stopped") /\ Len(whole) = M + K
          /\ \A i \in 1..M : whole[i] = out[i] /\ i \in 1..M + K
          /\ \A j \in 1..K : whole[M + j] = add[j] /\ M + j \in 1..M + K
      BY <1>12, <2>3
    <2>5. \E i \in 1..Len(whole) : Carries(whole[i], chunk.seq)
      <3>1. CASE n > 0
        <4>1. PICK i \in 1..M : Carries(out[i], chunk.seq)
          BY <1>6, <3>1
        <4>. QED  BY <2>4, <4>1
      <3>2. CASE ~(n > 0)
        <4>1. add = Closing(chunk)
          BY <1>6, <1>14, <3>2 DEF Added, add
        <4>2. K = 2 /\ add[1] = Audio(chunk) /\ 1 \in 1..K
          BY <4>1, ClosingFrames
        <4>3. whole[M + 1] = Audio(chunk) /\ M + 1 \in 1..Len(whole)
          BY <2>4, <4>2
        <4>4. Carries(whole[M + 1], chunk.seq)
          BY <1>11, <4>3 DEF Carries
        <4>. QED  BY <4>3, <4>4
      <3>. QED  BY <3>1, <3>2
    <2>. QED  BY <1>3, <1>9, <1>10, <1>11, <2>2, <2>4, <2>5 DEF Planned, whole
  <1>. QED  BY <1>2, <1>13, <1>14 DEF Events, q

\* Everything carried is newer than the Interrupt.
Fresh(frames, cut) == \A i \in 1..Len(frames) : frames[i].kind = "audio" => frames[i].chunk.seq > cut
Newer(ring, cut) == \A i \in 1..Len(ring) : ring[i].seq > cut

LEMMA FreshConcat ==
    ASSUME NEW s \in Seq(Frame), NEW t \in Seq(Frame), NEW cut \in Nat, Fresh(s, cut), Fresh(t, cut)
    PROVE  Fresh(s \o t, cut)
  <1>. DEFINE u == s \o t
              N == Len(s)
              M == Len(t)
  <1>1. /\ u \in Seq(Frame) /\ Len(u) = N + M /\ N \in Nat /\ M \in Nat
        /\ \A i \in 1..N : u[i] = s[i]
        /\ \A j \in 1..M : u[N + j] = t[j]
    OBVIOUS
  <1>. HIDE DEF u
  <1>2. ASSUME NEW i \in 1..N + M, u[i].kind = "audio"
        PROVE  u[i].chunk.seq > cut
    <2>1. CASE i \in 1..N
      BY <1>1, <1>2, <2>1 DEF Fresh
    <2>2. CASE i > N
      <3>1. i - N \in 1..M /\ N + (i - N) = i
        BY <1>1, <2>2
      <3>2. u[i] = t[i - N]
        BY <1>1, <3>1
      <3>. QED  BY <1>2, <3>1, <3>2 DEF Fresh
    <2>. QED  BY <1>1, <2>1, <2>2
  <1>. QED  BY <1>1, <1>2 DEF Fresh, u

LEMMA AddedFresh ==
    ASSUME NEW p \in Plans, NEW event \in Events, NEW cut \in Nat,
           Newer(p.ring, cut), p.chunk.seq > cut
    PROVE  Fresh(Added(p, event), cut)
  <1>1. p.ring \in Seq(Chunk) /\ p.chunk \in Chunk /\ p.sentChunk \in BOOLEAN
    BY DEF Plans
  <1>2. /\ Edge("started").kind = "started" /\ Edge("stopped").kind = "stopped"
        /\ Audio(p.chunk).kind = "audio" /\ Audio(p.chunk).chunk = p.chunk
        /\ \A i \in 1..Len(p.ring) : Audio(p.ring[i]).chunk = p.ring[i]
    BY <1>1, FrameFields DEF Events
  <1>3. CASE event = "started"
    <2>. DEFINE add == Opening(p.ring, p.chunk)
                L == Len(p.ring)
    <2>1. /\ Len(add) = L + 2 /\ add[1] = Edge("started") /\ L \in Nat
          /\ \A i \in 1..L : add[i + 1] = Audio(p.ring[i])
          /\ add[L + 2] = Audio(p.chunk)
      BY <1>1, AddedFrames
    <2>. HIDE DEF add
    <2>2. ASSUME NEW i \in 1..L + 2, add[i].kind = "audio"
          PROVE  add[i].chunk.seq > cut
      <3>1. CASE i = 1
        BY <1>2, <2>1, <2>2, <3>1
      <3>2. CASE i \in 2..L + 1
        <4>1. i - 1 \in 1..L /\ (i - 1) + 1 = i
          BY <2>1, <3>2
        <4>2. add[i] = Audio(p.ring[i - 1])
          BY <2>1, <4>1
        <4>. QED  BY <1>2, <4>1, <4>2 DEF Newer
      <3>3. CASE i = L + 2
        BY <1>2, <2>1, <3>3
      <3>. QED  BY <2>1, <3>1, <3>2, <3>3
    <2>3. Fresh(add, cut)
      BY <2>1, <2>2 DEF Fresh
    <2>. QED  BY <1>3, <2>3 DEF Added, add
  <1>4. CASE event = "stopped" /\ p.sentChunk
    <2>1. Len(<<Edge("stopped")>>) = 1 /\ <<Edge("stopped")>>[1] = Edge("stopped")
      OBVIOUS
    <2>2. Fresh(<<Edge("stopped")>>, cut)
      BY <1>2, <2>1 DEF Fresh
    <2>. QED  BY <1>4, <2>2 DEF Added
  <1>5. CASE event = "stopped" /\ ~p.sentChunk
    <2>1. /\ Len(Closing(p.chunk)) = 2
          /\ Closing(p.chunk)[1] = Audio(p.chunk) /\ Closing(p.chunk)[2] = Edge("stopped")
      BY <1>1, AddedFrames
    <2>2. Fresh(Closing(p.chunk), cut)
      BY <1>2, <2>1 DEF Fresh
    <2>. QED  BY <1>5, <2>2 DEF Added
  <1>. QED  BY <1>1, <1>3, <1>4, <1>5 DEF Events

\* What holds of a plan even if the edges are in no order.
Sane(p, n, ring, chunk, cut) ==
    /\ p.chunk = chunk /\ p.ring \in {ring, <<>>}
    /\ p.mode = "speech" => p.ring = <<>>
    /\ Fresh(p.plan, cut)
    /\ n > 0 => p.plan /= <<>>

LEMMA OneMoreSane ==
    ASSUME NEW p \in Plans, NEW event \in Events, NEW n \in Nat, NEW cut \in Nat,
           NEW ring \in Seq(Chunk), NEW chunk \in Chunk, Newer(ring, cut), chunk.seq > cut,
           Sane(p, n, ring, chunk, cut)
    PROVE  Sane(PlanEvent(p, event), n + 1, ring, chunk, cut)
  <1>. DEFINE q == PlanEvent(p, event)
              add == Added(p, event)
  <1>1. /\ p.ring \in Seq(Chunk) /\ p.chunk \in Chunk /\ p.plan \in Seq(Frame)
        /\ p.sentChunk \in BOOLEAN
        /\ p.chunk = chunk /\ p.ring \in {ring, <<>>} /\ Fresh(p.plan, cut)
    BY DEF Plans, Sane
  <1>2. /\ q.mode = ModeAfter(p.mode, event)
        /\ q.ring = IF event = "started" THEN <<>> ELSE p.ring
        /\ q.chunk = p.chunk
        /\ q.plan = p.plan \o add
        /\ add \in Seq(Frame)
    BY PlanEventEffect
  <1>3. Newer(p.ring, cut)
    BY <1>1 DEF Newer
  <1>4. Fresh(add, cut)
    BY <1>1, <1>3, AddedFresh
  <1>5. Fresh(q.plan, cut)
    BY <1>1, <1>2, <1>4, FreshConcat
  <1>6. add /= <<>>
    <2>0. p.ring \in Seq(Chunk) /\ p.chunk \in Chunk
      BY <1>1
    <2>1. /\ Len(Opening(p.ring, p.chunk)) = Len(p.ring) + 2 /\ Len(p.ring) \in Nat
          /\ Opening(p.ring, p.chunk) \in Seq(Frame)
      BY <2>0, AddedFrames
    <2>2. Opening(p.ring, p.chunk) /= <<>> /\ Closing(p.chunk) /= <<>>
      BY <1>1, <2>1, NotEmpty, ClosingFrames
    <2>3. <<Edge("stopped")>> /= <<>>
      OBVIOUS
    <2>. QED  BY <1>1, <2>2, <2>3 DEF Added, Events
  <1>. HIDE DEF q, add
  <1>7. q.plan /= <<>>
    BY <1>1, <1>2, <1>6
  <1>8. q.mode = "speech" => q.ring = <<>>
    BY <1>2 DEF ModeAfter
  <1>. QED  BY <1>1, <1>2, <1>5, <1>7, <1>8 DEF Sane, q

-----------------------------------------------------------------------------
(***************************************************************************)
(* The invariant.                                                          *)
(***************************************************************************)
LEMMA FieldTypes ==
    ASSUME TypeOK
    PROVE  /\ det.remainder \in 0..WindowLen - 1 /\ det.inSpeech \in BOOLEAN /\ det.against \in Nat
           /\ gate.mode \in {"idle", "speech"} /\ gate.ring \in Seq(Chunk)
           /\ perform.pc \in {"idle", "scoring", "sending", "ended"}
           /\ perform.chunk \in [seq : Nat, len : Nat]
           /\ perform.windows \in Nat
           /\ perform.events \in Seq(Events) /\ perform.plan \in Seq(Frame)
           /\ stream.captured \in Seq(Lengths) /\ stream.cut \in Nat
           /\ stream.edges \in Seq(Events) /\ stream.sent \in Seq(Frame)
           /\ stream.failed \in BOOLEAN
  BY DEF TypeOK

LEMMA IdlePerform ==
    /\ NoPerform \in [pc : {"idle", "scoring", "sending", "ended"},
                      chunk : [seq : Nat, len : Nat], windows : Nat,
                      events : Seq(Events), plan : Seq(Frame)]
    /\ NoPerform.pc = "idle" /\ NoPerform.plan = <<>>
  <1>1. <<>> \in Seq(Events) /\ <<>> \in Seq(Frame) /\ [seq |-> 0, len |-> 0] \in [seq : Nat, len : Nat]
    OBVIOUS
  <1>. QED  BY <1>1 DEF NoPerform

LEMMA NothingPlanned == \A s \in Seq(Frame) : s \o <<>> = s
  OBVIOUS

\* The chunk in hand is one, and the newest.
LEMMA ChunkInHand ==
    ASSUME TypeOK, ChunksAreCaptured, perform.pc = "scoring"
    PROVE  /\ perform.chunk \in Chunk /\ perform.chunk.seq = Latest + 1
           /\ perform.chunk.seq = Len(stream.captured) /\ perform.chunk.seq > stream.cut
           /\ perform.chunk.len = stream.captured[Len(stream.captured)]
           /\ Latest = Len(stream.captured) - 1 /\ Latest \in Nat /\ perform.plan = <<>>
  <1>1. stream.captured \in Seq(Lengths) /\ stream.cut \in Nat
    BY FieldTypes
  <1>2. /\ stream.cut <= Latest /\ Latest = Len(stream.captured) - 1
        /\ perform.chunk = [seq |-> Len(stream.captured),
                            len |-> stream.captured[Len(stream.captured)]]
        /\ perform.plan = <<>>
    BY DEF ChunksAreCaptured, Latest
  <1>3. Len(stream.captured) \in 1..Len(stream.captured)
    BY <1>1, <1>2
  <1>4. stream.captured[Len(stream.captured)] \in Lengths /\ Len(stream.captured) \in Nat
    BY <1>1, <1>3
  <1>5. perform.chunk \in Chunk
    BY <1>2, <1>4 DEF Chunk
  <1>. QED  BY <1>1, <1>2, <1>4, <1>5

\* What the gate does with a batch of events.
LEMMA BatchPlanned ==
    ASSUME GateIsSound, perform.pc = "scoring", perform.events /= <<>>
    PROVE  LET p == PlanOf(perform.events, perform.chunk)
               n == Len(perform.events)
           IN  /\ p \in Plans /\ n > 0
               /\ Sane(p, n, gate.ring, perform.chunk, stream.cut)
               /\ ~stream.failed => Planned(p, n, stream.sent, perform.chunk, InSpeech)
  <1>. DEFINE events == perform.events
              chunk == perform.chunk
              N == Len(events)
              cut == stream.cut
              emitted == stream.sent
              ring == gate.ring
  <1>1. TypeOK /\ ChunksAreCaptured
    BY DEF GateIsSound, GateInv
  <1>2. /\ events \in Seq(Events) /\ ring \in Seq(Chunk) /\ emitted \in Seq(Frame) /\ cut \in Nat
        /\ gate.mode \in {"idle", "speech"} /\ N \in Nat /\ N > 0
        /\ \A i \in 1..N : events[i] \in Events
    BY <1>1, FieldTypes
  <1>3. chunk \in Chunk /\ chunk.seq > cut /\ perform.plan = <<>> /\ chunk.seq = Latest + 1
        /\ Latest \in Nat
    BY <1>1, ChunkInHand
  <1>4. Output = emitted
    BY <1>2, <1>3, NothingPlanned DEF Output
  <1>5. Newer(ring, cut)
    BY DEF GateIsSound, UtterancesAreWhole, NothingResurrected, Newer
  <1>. DEFINE a == Unplanned(chunk)
  <1>6. /\ a.mode = gate.mode /\ a.ring = ring /\ a.sentChunk = FALSE /\ a.chunk = chunk
        /\ a.plan = <<>>
    BY DEF Unplanned
  <1>7. a \in Plans
    <2>1. <<>> \in Seq(Frame)
      OBVIOUS
    <2>. QED  BY <1>2, <1>3, <2>1 DEF Unplanned, Plans
  <1>8. Sane(a, 0, ring, chunk, cut)
    <2>1. gate.mode = "speech" => ring = <<>>
      BY DEF GateIsSound, GateInv, GateIsWhereOutputEnds, InSpeech
    <2>2. Fresh(<<>>, cut)
      BY DEF Fresh
    <2>. QED  BY <1>6, <2>1, <2>2 DEF Sane
  <1>9. ASSUME ~stream.failed
        PROVE  Planned(a, 0, emitted, chunk, InSpeech) /\ Alternate(events, InSpeech)
    <2>1. Utterances(emitted)
      BY <1>4, <1>9 DEF GateIsSound, UtterancesAreWhole, Bracketed
    <2>2. IF InSpeech THEN Output /= <<>> /\ Carries(Output[Len(Output)], Latest)
          ELSE /\ Output /= <<>> => Output[Len(Output)].kind = "stopped"
               /\ ring /= <<>> => ring[Len(ring)].seq = Latest
      BY <1>9 DEF GateIsSound, GateInv, GateIsWhereOutputEnds
    <2>3. InSpeech => ring = <<>>
      BY DEF GateIsSound, GateInv, GateIsWhereOutputEnds
    <2>4. Consecutive(ring)
      <3>1. CASE ring = <<>>
        BY <3>1 DEF Consecutive
      <3>2. CASE ring /= <<>>
        BY <1>9, <3>2 DEF GateIsSound, GateInv, RingFull, Consecutive
      <3>. QED  BY <3>1, <3>2
    <2>5. Alternate(events, InSpeech)
      BY <1>9 DEF GateIsSound, GateInv, DetectorAhead
    <2>6. Latest = chunk.seq - 1
      BY <1>3
    <2>7. emitted \o a.plan = emitted
      BY <1>2, <1>6, NothingPlanned
    <2>8. (0 > 0) = FALSE /\ (0 % 2 = 1) = FALSE
      OBVIOUS
    <2>9. (a.mode = "speech") = (FALSE /= InSpeech)
      BY <1>6 DEF InSpeech
    <2>10. a.ring /= <<>> => chunk.seq = a.ring[Len(a.ring)].seq + 1
      BY <1>3, <1>6, <2>2, <2>3
    <2>. HIDE DEF a
    <2>. QED  BY <1>2, <1>4, <1>6, <2>1, <2>2, <2>3, <2>4, <2>5, <2>6, <2>7, <2>8, <2>9, <2>10
              DEF Planned, InSpeech
  <1>. HIDE DEF a
  <1>10. PICK g \in [0..Len(events) -> Plans] : Chain(g, events, chunk)
    BY <1>2, <1>3, <1>7, PlanSteps DEF a
  <1>11. /\ g[0] = a /\ \A i \in 1..N : g[i] = PlanEvent(g[i - 1], events[i])
         /\ PlanOf(events, chunk) = g[N] /\ \A i \in 0..N : g[i] \in Plans
    BY <1>2, <1>10 DEF Chain, a
  <1>. HIDE DEF events, chunk, N, cut, emitted, ring
  <1>12. g[N] \in Plans
    BY <1>2, <1>11
  <1>13. Sane(g[N], N, ring, chunk, cut)
    <2>. DEFINE T == {n \in 0..N : Sane(g[n], n, ring, chunk, cut)}
    <2>1. 0 \in T
      BY <1>2, <1>8, <1>11
    <2>2. ASSUME NEW n \in 0..N, n + 1 <= N, n \in T
          PROVE  n + 1 \in T
      <3>1. n + 1 \in 1..N /\ n + 1 \in 0..N /\ (n + 1) - 1 = n /\ n \in Nat
        BY <1>2, <2>2
      <3>2. Sane(g[n], n, ring, chunk, cut) /\ g[n] \in Plans
        BY <1>11, <2>2
      <3>3. g[n + 1] = PlanEvent(g[n], events[n + 1]) /\ events[n + 1] \in Events
        BY <1>2, <1>11, <3>1
      <3>4. Sane(g[n + 1], n + 1, ring, chunk, cut)
        BY <1>2, <1>3, <1>5, <3>1, <3>2, <3>3, OneMoreSane
      <3>. QED  BY <3>1, <3>4
    <2>. HIDE DEF T
    <2>3. \A n \in 0..N : n \in T
      BY <1>2, <2>1, <2>2, Data!CountingUp
    <2>. QED  BY <1>2, <2>3 DEF T
  <1>14. ASSUME ~stream.failed
         PROVE  Planned(g[N], N, emitted, chunk, InSpeech)
    <2>. DEFINE talking == InSpeech
                T == {n \in 0..N : Planned(g[n], n, emitted, chunk, talking)}
    <2>1. talking \in BOOLEAN
      BY DEF InSpeech
    <2>. HIDE DEF talking
    <2>2. /\ Planned(a, 0, emitted, chunk, talking)
          /\ \A i \in 1..N : events[i] = IF (i % 2 = 1) = talking THEN "stopped" ELSE "started"
      BY <1>9, <1>14 DEF talking, Alternate, N
    <2>3. 0 \in T
      BY <1>2, <1>11, <2>2
    <2>4. ASSUME NEW n \in 0..N, n + 1 <= N, n \in T
          PROVE  n + 1 \in T
      <3>1. n + 1 \in 1..N /\ n + 1 \in 0..N /\ (n + 1) - 1 = n /\ n \in Nat
        BY <1>2, <2>4
      <3>2. Planned(g[n], n, emitted, chunk, talking) /\ g[n] \in Plans
        BY <1>11, <2>4
      <3>3. g[n + 1] = PlanEvent(g[n], events[n + 1])
        BY <1>11, <3>1
      <3>4. events[n + 1] = IF ((n + 1) % 2 = 1) = talking THEN "stopped" ELSE "started"
        BY <2>2, <3>1
      <3>5. Planned(g[n + 1], n + 1, emitted, chunk, talking)
        <4>. DEFINE event == events[n + 1]
                    p == g[n]
        <4>1. /\ p \in Plans /\ n \in Nat /\ emitted \in Seq(Frame) /\ chunk \in Chunk
              /\ Planned(p, n, emitted, chunk, talking)
              /\ event = IF ((n + 1) % 2 = 1) = talking THEN "stopped" ELSE "started"
          BY <1>2, <1>3, <3>1, <3>2, <3>4
        <4>. HIDE DEF event, p
        <4>2. Planned(PlanEvent(p, event), n + 1, emitted, chunk, talking)
          BY ONLY <2>1, <4>1, OneMoreEvent
        <4>. QED  BY <3>3, <4>2 DEF event, p
      <3>. QED  BY <3>1, <3>5
    <2>. HIDE DEF T
    <2>5. \A n \in 0..N : n \in T
      BY <1>2, <2>3, <2>4, Data!CountingUp
    <2>. QED  BY <1>2, <2>5 DEF T, talking
  <1>. QED  BY <1>2, <1>11, <1>12, <1>13, <1>14 DEF events, chunk, N, cut, emitted, ring

LEMMA EmptySequences ==
    /\ <<>> \in Seq(Events) /\ <<>> \in Seq(Frame) /\ <<>> \in Seq(Chunk) /\ <<>> \in Seq(Lengths)
    /\ Len(<<>>) = 0
    /\ Alternate(<<>>, TRUE) /\ Alternate(<<>>, FALSE)
    /\ \A b \in BOOLEAN : Toggled(b, <<>>) = b
    /\ Utterances(<<>>)
  BY DEF Alternate, Toggled, Utterances

\* An Interrupt.
LEMMA InterruptKeeps ==
    ASSUME GateIsSound, Interrupt
    PROVE  GateIsSound'
  <1>1. TypeOK
    BY DEF GateIsSound, GateInv
  <1>2. /\ perform' = NoPerform /\ gate' = IdleGate /\ det' = IdleDet
        /\ stream' = NewStream(stream.captured)
    BY DEF Interrupt
  <1>3. /\ gate'.mode = "idle" /\ gate'.ring = <<>> /\ det'.inSpeech = FALSE
        /\ stream'.captured = stream.captured /\ stream'.cut = Len(stream.captured)
        /\ stream'.edges = <<>> /\ stream'.sent = <<>> /\ stream'.failed = FALSE
        /\ perform'.pc = "idle" /\ perform'.plan = <<>>
    BY <1>2, IdlePerform DEF IdleGate, IdleDet, NewStream
  <1>4. stream.captured \in Seq(Lengths) /\ Len(stream.captured) \in Nat
    BY <1>1, FieldTypes
  <1>5. TypeOK'
    <2>1. det' \in [remainder : 0..WindowLen - 1, inSpeech : BOOLEAN, against : Nat]
      BY <1>2, ConfigAssumption DEF IdleDet
    <2>2. gate' \in [mode : {"idle", "speech"}, ring : Seq(Chunk)]
      BY <1>2, EmptySequences DEF IdleGate
    <2>3. stream' \in [captured : Seq(Lengths), cut : Nat, edges : Seq(Events),
                       sent : Seq(Frame), failed : BOOLEAN]
      BY <1>2, <1>4, EmptySequences DEF NewStream
    <2>. QED  BY <1>2, <2>1, <2>2, <2>3, IdlePerform DEF TypeOK
  <1>6. Output' = <<>> /\ Latest' = Len(stream.captured) /\ InSpeech' = FALSE
    <2>1. <<>> \o <<>> = <<>>
      BY EmptySequences, NothingPlanned
    <2>. QED  BY <1>3, <2>1 DEF Output, Latest, InSpeech
  <1>7. AlternateUnlessFailed' /\ DetectorAhead' /\ GateFollowsDetector'
    BY <1>3, <1>6, EmptySequences
       DEF AlternateUnlessFailed, EdgesAlternate, DetectorAhead, GateFollowsDetector
  <1>8. ChunksAreCaptured'
    BY <1>3, <1>4, <1>6, EmptySequences DEF ChunksAreCaptured
  <1>9. GateIsWhereOutputEnds' /\ RingFull'
    BY <1>3, <1>6 DEF GateIsWhereOutputEnds, RingFull
  <1>10. UtterancesAreWhole'
    BY <1>3, <1>6, EmptySequences DEF UtterancesAreWhole, Bracketed, NothingResurrected
  <1>. QED  BY <1>5, <1>7, <1>8, <1>9, <1>10 DEF GateIsSound, GateInv

\* The chunk before the ring's first is one captured, if it is not the Interrupt's.
LEMMA RingStarts ==
    ASSUME TypeOK, ChunksAreCaptured, NothingResurrected, gate.ring /= <<>>
    PROVE  LET before == gate.ring[1].seq - 1 IN
           /\ gate.ring[1] \in Chunk
           /\ before = stream.cut \/ before \in 1..Len(stream.captured)
           /\ before \in Nat /\ before < Latest
  <1>1. /\ gate.ring \in Seq(Chunk) /\ stream.cut \in Nat /\ stream.captured \in Seq(Lengths)
        /\ Len(stream.captured) \in Nat
    BY FieldTypes
  <1>2. 1 \in 1..Len(gate.ring)
    BY <1>1
  <1>3. gate.ring[1].seq > stream.cut /\ gate.ring[1].seq \in 1..Latest
    BY <1>2 DEF NothingResurrected, ChunksAreCaptured
  <1>4. Latest \in Int /\ Latest <= Len(stream.captured)
    BY <1>1 DEF Latest
  <1>5. gate.ring[1].seq - 1 \in Nat /\ gate.ring[1].seq - 1 < Latest
    BY <1>3, <1>4
  <1>6. gate.ring[1].seq - 1 = stream.cut \/ gate.ring[1].seq - 1 \in 1..Len(stream.captured)
    BY <1>1, <1>3, <1>4
  <1>. QED  BY <1>1, <1>2, <1>5, <1>6

\* A chunk of another format.
LEMMA RejectFormatKeeps ==
    ASSUME GateIsSound, RejectFormat
    PROVE  GateIsSound'
  <1>1. TypeOK /\ perform.plan = <<>> /\ perform.pc = "idle"
    BY DEF GateIsSound, GateInv, RejectFormat, ChunksAreCaptured
  <1>2. det' = det /\ gate' = gate /\ stream' = stream
    BY DEF RejectFormat
  <1>3. /\ perform' \in [pc : {"idle", "scoring", "sending", "ended"},
                         chunk : [seq : Nat, len : Nat], windows : Nat,
                         events : Seq(Events), plan : Seq(Frame)]
        /\ perform'.pc = "ended" /\ perform'.plan = <<>>
    <2>1. perform' = [NoPerform EXCEPT !.pc = "ended"]
      BY DEF RejectFormat
    <2>. QED  BY <2>1, IdlePerform
  <1>4. Output' = Output /\ Latest' = Latest /\ InSpeech' = InSpeech
    BY <1>1, <1>2, <1>3 DEF Output, Latest, InSpeech
  <1>5. TypeOK'
    BY <1>1, <1>2, <1>3 DEF TypeOK
  <1>6. AlternateUnlessFailed' /\ DetectorAhead' /\ GateFollowsDetector'
    BY <1>1, <1>2, <1>3, <1>4
       DEF GateIsSound, GateInv, AlternateUnlessFailed, EdgesAlternate, DetectorAhead, GateFollowsDetector
  <1>7. ChunksAreCaptured' /\ GateIsWhereOutputEnds' /\ RingFull'
    BY <1>1, <1>2, <1>3, <1>4
       DEF GateIsSound, GateInv, ChunksAreCaptured, GateIsWhereOutputEnds, RingFull
  <1>8. UtterancesAreWhole'
    BY <1>2, <1>4 DEF GateIsSound, UtterancesAreWhole, Bracketed, NothingResurrected
  <1>. QED  BY <1>5, <1>6, <1>7, <1>8 DEF GateIsSound, GateInv

\* A failure of the scorer.
LEMMA ScoreFailsKeeps ==
    ASSUME GateIsSound, ScoreFails
    PROVE  GateIsSound'
  <1>1. TypeOK /\ perform.pc = "scoring" /\ perform.plan = <<>> /\ Latest + 1 = Len(stream.captured)
        /\ Latest \in Nat
    <2>1. TypeOK /\ perform.pc = "scoring" /\ ChunksAreCaptured
      BY DEF GateIsSound, GateInv, ScoreFails
    <2>. QED  BY <2>1, ChunkInHand
  <1>2. /\ det' = det /\ gate' = gate /\ perform' = NoPerform
        /\ stream' = [stream EXCEPT !.failed = TRUE]
    BY DEF ScoreFails
  <1>3. /\ stream'.captured = stream.captured /\ stream'.cut = stream.cut
        /\ stream'.edges = stream.edges /\ stream'.sent = stream.sent /\ stream'.failed
        /\ perform'.pc = "idle" /\ perform'.plan = <<>>
    BY <1>1, <1>2, IdlePerform DEF TypeOK
  <1>4. Output' = Output /\ Latest' = Latest + 1 /\ InSpeech' = InSpeech
    BY <1>1, <1>2, <1>3 DEF Output, Latest, InSpeech
  <1>5. TypeOK'
    BY <1>1, <1>2, IdlePerform DEF TypeOK
  <1>6. AlternateUnlessFailed' /\ DetectorAhead' /\ GateFollowsDetector'
    BY <1>3 DEF AlternateUnlessFailed, DetectorAhead, GateFollowsDetector
  <1>7. ChunksAreCaptured'
    <2>1. stream.cut <= Latest /\ stream.cut \in Nat
      BY <1>1, FieldTypes DEF GateIsSound, GateInv, ChunksAreCaptured
    <2>2. \A i \in 1..Len(gate.ring) :
            /\ gate.ring[i].seq \in 1..Latest
            /\ gate.ring[i].len = stream.captured[gate.ring[i].seq]
      BY DEF GateIsSound, GateInv, ChunksAreCaptured
    <2>. QED  BY <1>1, <1>2, <1>3, <1>4, <2>1, <2>2 DEF ChunksAreCaptured
  <1>8. GateIsWhereOutputEnds' /\ RingFull'
    BY <1>2, <1>3, <1>4 DEF GateIsSound, GateInv, GateIsWhereOutputEnds, RingFull
  <1>9. UtterancesAreWhole'
    BY <1>2, <1>3, <1>4 DEF GateIsSound, UtterancesAreWhole, Bracketed, NothingResurrected
  <1>. QED  BY <1>5, <1>6, <1>7, <1>8, <1>9 DEF GateIsSound, GateInv

\* A chunk arrives.
LEMMA DetectKeeps ==
    ASSUME GateIsSound, Detect
    PROVE  GateIsSound'
  <1>1. TypeOK /\ perform.pc = "idle" /\ perform.plan = <<>>
    BY DEF GateIsSound, GateInv, Detect, ChunksAreCaptured
  <1>2. PICK len \in Lengths :
          /\ det' = [det EXCEPT !.remainder = (det.remainder + len) % WindowLen]
          /\ perform' = [NoPerform EXCEPT !.pc = "scoring",
                           !.chunk = [seq |-> Len(stream.captured) + 1, len |-> len],
                           !.windows = (det.remainder + len) \div WindowLen]
          /\ stream' = [stream EXCEPT !.captured = Append(@, len)]
          /\ gate' = gate
    BY DEF Detect
  <1>. DEFINE N == Len(stream.captured)
              longer == Append(stream.captured, len)
              total == det.remainder + len
              chunk == [seq |-> N + 1, len |-> len]
  <1>3. /\ N \in Nat /\ len \in Nat /\ len \in Lengths /\ det.remainder \in Nat
        /\ stream.captured \in Seq(Lengths)
        /\ stream.cut \in Nat
    BY <1>1, FieldTypes, ConfigAssumption
  <1>4. /\ longer \in Seq(Lengths) /\ Len(longer) = N + 1 /\ longer[N + 1] = len
        /\ \A i \in 1..N : longer[i] = stream.captured[i]
    BY <1>3
  <1>5. total % WindowLen \in 0..WindowLen - 1 /\ total \div WindowLen \in Nat
    <2>1. total \in Nat /\ WindowLen \in Nat /\ WindowLen > 0
      BY <1>3, ConfigAssumption
    <2>. HIDE DEF total
    <2>. QED  BY ONLY <2>1
  <1>6. chunk \in [seq : Nat, len : Nat]
    BY <1>3
  <1>. HIDE DEF N, longer, total, chunk
  <1>7. /\ perform'.pc = "scoring" /\ perform'.chunk = chunk /\ perform'.plan = <<>>
        /\ perform'.events = <<>>
        /\ perform' \in [pc : {"idle", "scoring", "sending", "ended"},
                         chunk : [seq : Nat, len : Nat], windows : Nat,
                         events : Seq(Events), plan : Seq(Frame)]
    <2>1. perform' = [NoPerform EXCEPT !.pc = "scoring", !.chunk = chunk,
                                       !.windows = total \div WindowLen]
      BY <1>2 DEF chunk, N, total
    <2>2. NoPerform.events = <<>>
      BY DEF NoPerform
    <2>. QED  BY <1>5, <1>6, <2>1, <2>2, IdlePerform
  <1>8. /\ det' = [det EXCEPT !.remainder = total % WindowLen]
        /\ stream' = [stream EXCEPT !.captured = longer]
        /\ gate' = gate
    BY <1>2 DEF total, longer
  <1>9. /\ stream'.captured = longer /\ stream'.cut = stream.cut
        /\ stream'.edges = stream.edges /\ stream'.sent = stream.sent
        /\ stream'.failed = stream.failed /\ det'.inSpeech = det.inSpeech
    BY <1>1, <1>8 DEF TypeOK
  <1>10. Output' = Output /\ Latest' = Latest /\ InSpeech' = InSpeech /\ Latest = N
    <2>1. Latest = N
      BY <1>1 DEF Latest, N
    <2>2. Latest' = N
      BY <1>3, <1>4, <1>7, <1>9 DEF Latest
    <2>. QED  BY <1>1, <1>7, <1>8, <1>9, <2>1, <2>2 DEF Output, InSpeech
  <1>11. TypeOK'
    BY <1>1, <1>4, <1>5, <1>7, <1>8 DEF TypeOK
  <1>12. AlternateUnlessFailed' /\ DetectorAhead' /\ GateFollowsDetector'
    <2>1. AlternateUnlessFailed'
      BY <1>9 DEF GateIsSound, GateInv, AlternateUnlessFailed, EdgesAlternate
    <2>2. InSpeech \in BOOLEAN /\ det.inSpeech \in BOOLEAN
      BY <1>1, FieldTypes DEF InSpeech
    <2>3. Alternate(<<>>, InSpeech) /\ Toggled(InSpeech, <<>>) = InSpeech
      BY <2>2, EmptySequences
    <2>4. ~stream.failed => InSpeech = det.inSpeech /\ InSpeech = Toggled(FALSE, stream.edges)
      <3>1. ~stream.failed => (InSpeech <=> det.inSpeech)
        BY <1>1 DEF GateIsSound, GateInv, GateFollowsDetector
      <3>2. ~stream.failed => InSpeech = Toggled(FALSE, stream.edges)
        BY DEF GateIsSound, GateInv, DetectorAhead
      <3>3. ~stream.failed => InSpeech = det.inSpeech
        BY <2>2, <3>1 DEF InSpeech
      <3>. QED  BY <3>2, <3>3, Zenon
    <2>5. DetectorAhead'
      BY <1>7, <1>9, <1>10, <2>3, <2>4 DEF DetectorAhead
    <2>. QED  BY <1>7, <2>1, <2>5 DEF GateFollowsDetector
  <1>13. ChunksAreCaptured'
    <2>1. stream.cut <= Latest
      BY DEF GateIsSound, GateInv, ChunksAreCaptured
    <2>2. \A i \in 1..Len(gate.ring) :
            /\ gate.ring[i].seq \in 1..Latest
            /\ gate.ring[i].len = stream.captured[gate.ring[i].seq]
      BY DEF GateIsSound, GateInv, ChunksAreCaptured
    <2>3. chunk = [seq |-> Len(longer), len |-> longer[Len(longer)]]
      BY <1>4 DEF chunk
    <2>. QED  BY <1>4, <1>7, <1>8, <1>9, <1>10, <2>1, <2>2, <2>3 DEF ChunksAreCaptured
  <1>14. GateIsWhereOutputEnds'
    BY <1>7, <1>8, <1>9, <1>10 DEF GateIsSound, GateInv, GateIsWhereOutputEnds
  <1>15. RingFull'
    <2>1. gate.ring /= <<>> =>
            LET before == gate.ring[1].seq - 1
            IN  before = stream.cut \/ longer[before] = stream.captured[before]
      BY <1>1, <1>4, RingStarts DEF GateIsSound, GateInv, UtterancesAreWhole, N
    <2>2. RingFull
      BY DEF GateIsSound, GateInv
    <2>. QED  BY <1>8, <1>9, <2>1, <2>2 DEF RingFull
  <1>16. UtterancesAreWhole'
    BY <1>8, <1>9, <1>10 DEF GateIsSound, UtterancesAreWhole, Bracketed, NothingResurrected
  <1>. QED  BY <1>11, <1>12, <1>13, <1>14, <1>15, <1>16 DEF GateIsSound, GateInv

\* Edges that alternate and one more, which they leave room for.
LEMMA OneMoreEdge ==
    ASSUME NEW events \in Seq(Events), NEW inSpeech \in BOOLEAN, Alternate(events, inSpeech),
           NEW event, event = IF Toggled(inSpeech, events) THEN "stopped" ELSE "started"
    PROVE  LET more == events \o <<event>> IN
           /\ more \in Seq(Events) /\ Alternate(more, inSpeech)
           /\ Toggled(inSpeech, more) = ~Toggled(inSpeech, events)
  <1>. DEFINE more == events \o <<event>>
              N == Len(events)
  <1>0. event \in Events
    BY DEF Events
  <1>1. /\ more \in Seq(Events) /\ Len(more) = N + 1 /\ more[N + 1] = event /\ N \in Nat
        /\ \A i \in 1..N : more[i] = events[i]
    BY <1>0
  <1>2. (N + 1) % 2 = 1 <=> ~(N % 2 = 1)
    BY <1>1
  <1>. HIDE DEF more
  <1>3. Alternate(more, inSpeech)
    <2>1. ASSUME NEW i \in 1..N + 1
          PROVE  more[i] = IF (i % 2 = 1) = inSpeech THEN "stopped" ELSE "started"
      <3>1. CASE i \in 1..N
        BY <1>1, <3>1 DEF Alternate
      <3>2. CASE i = N + 1
        BY <1>1, <1>2, <3>2 DEF Toggled
      <3>. QED  BY <1>1, <3>1, <3>2
    <2>. QED  BY <1>1, <2>1 DEF Alternate
  <1>4. Toggled(inSpeech, more) = ~Toggled(inSpeech, events)
    BY <1>1, <1>2 DEF Toggled
  <1>. QED  BY <1>1, <1>3, <1>4 DEF more

\* A verdict.
LEMMA ObserveEffect ==
    ASSUME NEW isSpeech \in BOOLEAN, TypeOK
    PROVE  LET d == Observe(det, isSpeech) IN
           /\ d \in [remainder : 0..WindowLen - 1, inSpeech : BOOLEAN, against : Nat]
           /\ \/ d.inSpeech = det.inSpeech /\ Flip(det, d) = <<>>
              \/ /\ d.inSpeech = ~det.inSpeech
                 /\ Flip(det, d) = <<IF det.inSpeech THEN "stopped" ELSE "started">>
  <1>. DEFINE d == Observe(det, isSpeech)
  <1>1. det \in [remainder : 0..WindowLen - 1, inSpeech : BOOLEAN, against : Nat]
    BY DEF TypeOK
  <1>2. \/ d = [det EXCEPT !.against = 0]
        \/ d = [det EXCEPT !.against = @ + 1]
        \/ d = [det EXCEPT !.inSpeech = isSpeech, !.against = 0]
    BY DEF Observe
  <1>. HIDE DEF d
  <1>3. d \in [remainder : 0..WindowLen - 1, inSpeech : BOOLEAN, against : Nat]
    <2>1. CASE d = [det EXCEPT !.against = 0]
      BY <1>1, <2>1
    <2>2. CASE d = [det EXCEPT !.against = @ + 1]
      <3>1. det.against + 1 \in Nat
        BY <1>1
      <3>. QED  BY <1>1, <2>2, <3>1
    <2>3. CASE d = [det EXCEPT !.inSpeech = isSpeech, !.against = 0]
      BY <1>1, <2>3
    <2>. QED  BY <1>2, <2>1, <2>2, <2>3
  <1>4. d.inSpeech \in BOOLEAN /\ det.inSpeech \in BOOLEAN
    BY <1>1, <1>3
  <1>5. \/ d.inSpeech = det.inSpeech /\ Flip(det, d) = <<>>
        \/ /\ d.inSpeech = ~det.inSpeech
           /\ Flip(det, d) = <<IF det.inSpeech THEN "stopped" ELSE "started">>
    <2>0. d.inSpeech = det.inSpeech => Flip(det, d) = <<>>
      BY DEF Flip
    <2>1. CASE d.inSpeech = det.inSpeech
      BY <2>0, <2>1, Zenon
    <2>2. CASE d.inSpeech = TRUE /\ det.inSpeech = FALSE
      BY <2>2 DEF Flip
    <2>3. CASE d.inSpeech = FALSE /\ det.inSpeech = TRUE
      BY <2>3 DEF Flip
    <2>. QED  BY <1>4, <2>1, <2>2, <2>3
  <1>. QED  BY <1>3, <1>5 DEF d

LEMMA ScoreKeeps ==
    ASSUME GateIsSound, Score
    PROVE  GateIsSound'
  <1>1. TypeOK /\ perform.pc = "scoring" /\ perform.windows > 0
    BY DEF GateIsSound, GateInv, Score
  <1>2. PICK isSpeech \in BOOLEAN :
          /\ det' = Observe(det, isSpeech)
          /\ perform' = [perform EXCEPT !.windows = @ - 1, !.events = @ \o Flip(det, det')]
    BY DEF Score
  <1>3. gate' = gate /\ stream' = stream
    BY DEF Score
  <1>. DEFINE events == perform.events
              more == events \o Flip(det, det')
  <1>4. events \in Seq(Events) /\ InSpeech \in BOOLEAN
    BY <1>1, FieldTypes DEF InSpeech
  <1>5. /\ det' \in [remainder : 0..WindowLen - 1, inSpeech : BOOLEAN, against : Nat]
        /\ \/ det'.inSpeech = det.inSpeech /\ Flip(det, det') = <<>>
           \/ /\ det'.inSpeech = ~det.inSpeech
              /\ Flip(det, det') = <<IF det.inSpeech THEN "stopped" ELSE "started">>
    BY <1>1, <1>2, ObserveEffect
  <1>6. more \in Seq(Events)
    <2>1. Flip(det, det') \in Seq(Events)
      <3>1. <<"started">> \in Seq(Events) /\ <<"stopped">> \in Seq(Events)
        BY DEF Events
      <3>. QED  BY <1>5, <3>1, EmptySequences
    <2>. QED  BY <1>4, <2>1
  <1>7. ASSUME ~stream.failed
        PROVE  Alternate(more, InSpeech) /\ det'.inSpeech = Toggled(InSpeech, more)
    <2>1. Alternate(events, InSpeech) /\ det.inSpeech = Toggled(InSpeech, events)
      BY <1>1, <1>7 DEF GateIsSound, GateInv, DetectorAhead
    <2>2. CASE det'.inSpeech = det.inSpeech /\ Flip(det, det') = <<>>
      <3>1. more = events
        BY <1>4, <2>2
      <3>. QED  BY <2>1, <2>2, <3>1
    <2>3. CASE /\ det'.inSpeech = ~det.inSpeech
               /\ Flip(det, det') = <<IF det.inSpeech THEN "stopped" ELSE "started">>
      <3>. DEFINE event == IF Toggled(InSpeech, events) THEN "stopped" ELSE "started"
                  talking == InSpeech
      <3>1. more = events \o <<event>>
        BY <2>1, <2>3
      <3>2. talking \in BOOLEAN /\ Alternate(events, talking)
        BY <1>4, <2>1
      <3>3. event = IF Toggled(talking, events) THEN "stopped" ELSE "started"
        OBVIOUS
      <3>. HIDE DEF event, events, talking, more
      <3>4. /\ Alternate(events \o <<event>>, talking)
            /\ Toggled(talking, events \o <<event>>) = ~Toggled(talking, events)
        BY <1>4, <3>2, <3>3, OneMoreEdge
      <3>. QED  BY <2>1, <2>3, <3>1, <3>4 DEF talking
    <2>. QED  BY <1>5, <2>2, <2>3
  <1>. HIDE DEF more
  <1>8. /\ perform' = [perform EXCEPT !.windows = perform.windows - 1, !.events = more]
        /\ perform.windows - 1 \in Nat
    BY <1>1, <1>2, FieldTypes DEF more
  <1>9. /\ perform'.pc = "scoring" /\ perform'.plan = perform.plan /\ perform'.events = more
        /\ perform'.chunk = perform.chunk
    BY <1>1, <1>8 DEF TypeOK
  <1>10. TypeOK'
    BY <1>1, <1>3, <1>5, <1>6, <1>8 DEF TypeOK
  <1>11. Output' = Output /\ Latest' = Latest /\ InSpeech' = InSpeech
    BY <1>1, <1>3, <1>9 DEF Output, Latest, InSpeech
  <1>12. AlternateUnlessFailed' /\ DetectorAhead' /\ GateFollowsDetector'
    <2>1. AlternateUnlessFailed' /\ GateFollowsDetector'
      BY <1>3, <1>9
         DEF GateIsSound, GateInv, AlternateUnlessFailed, EdgesAlternate, GateFollowsDetector
    <2>2. DetectorAhead'
      BY <1>3, <1>7, <1>9, <1>11 DEF GateIsSound, GateInv, DetectorAhead
    <2>. QED  BY <2>1, <2>2
  <1>13. ChunksAreCaptured' /\ GateIsWhereOutputEnds' /\ RingFull'
    BY <1>1, <1>3, <1>9, <1>11
       DEF GateIsSound, GateInv, ChunksAreCaptured, GateIsWhereOutputEnds, RingFull
  <1>14. UtterancesAreWhole'
    BY <1>3, <1>11 DEF GateIsSound, UtterancesAreWhole, Bracketed, NothingResurrected
  <1>. QED  BY <1>10, <1>12, <1>13, <1>14 DEF GateIsSound, GateInv

\* A frame of the plan is emitted.
LEMMA HeadMoved ==
    ASSUME NEW s \in Seq(Frame), NEW t \in Seq(Frame), t /= <<>>
    PROVE  /\ Append(s, Head(t)) \in Seq(Frame) /\ Tail(t) \in Seq(Frame)
           /\ Append(s, Head(t)) \o Tail(t) = s \o t
           /\ Len(t) = 1 <=> Tail(t) = <<>>
           /\ Len(Append(s, Head(t))) = Len(s) + 1
           /\ \A i \in 1..Len(s) : Append(s, Head(t))[i] = s[i]
  <1>. DEFINE a == Append(s, Head(t))
              b == Tail(t)
  <1>1. /\ a \in Seq(Frame) /\ b \in Seq(Frame) /\ Len(t) \in Nat /\ Len(t) > 0 /\ Len(s) \in Nat
        /\ Len(a) = Len(s) + 1 /\ Len(b) = Len(t) - 1
        /\ \A i \in 1..Len(s) : a[i] = s[i]
        /\ a[Len(s) + 1] = t[1]
        /\ \A i \in 1..Len(b) : b[i] = t[i + 1]
    OBVIOUS
  <1>. HIDE DEF a, b
  <1>2. /\ a \o b \in Seq(Frame) /\ s \o t \in Seq(Frame)
        /\ Len(a \o b) = Len(s) + Len(t) /\ Len(s \o t) = Len(s) + Len(t)
    <2>1. a \o b \in Seq(Frame) /\ s \o t \in Seq(Frame)
      BY <1>1
    <2>0. a \in Seq(Frame) /\ b \in Seq(Frame)
      BY <1>1
    <2>2. Len(a \o b) = Len(a) + Len(b) /\ Len(s \o t) = Len(s) + Len(t)
      BY ONLY <2>0, s \in Seq(Frame), t \in Seq(Frame), ConcatProperties
    <2>. QED  BY <1>1, <2>1, <2>2
  <1>3. ASSUME NEW i \in 1..Len(s) + Len(t)
        PROVE  (a \o b)[i] = (s \o t)[i]
    <2>1. CASE i <= Len(s)
      BY <1>1, <2>1
    <2>2. CASE i = Len(s) + 1
      BY <1>1, <2>2
    <2>3. CASE i > Len(s) + 1
      <3>1. i - Len(a) \in 1..Len(b) /\ (i - Len(a)) + 1 = i - Len(s)
        BY <1>1, <2>3
      <3>2. (a \o b)[i] = b[i - Len(a)] /\ (s \o t)[i] = t[i - Len(s)]
        BY <1>1, <2>3
      <3>. QED  BY <1>1, <3>1, <3>2
    <2>. QED  BY <1>1, <2>1, <2>2, <2>3
  <1>4. a \o b = s \o t
    BY <1>2, <1>3, SeqEqual
  <1>5. Len(t) = 1 <=> b = <<>>
    BY <1>1
  <1>. QED  BY <1>1, <1>4, <1>5 DEF a, b

LEMMA SendKeeps ==
    ASSUME GateIsSound, Send
    PROVE  GateIsSound'
  <1>1. TypeOK /\ perform.pc = "sending" /\ perform.plan /= <<>>
    BY DEF GateIsSound, GateInv, Send, ChunksAreCaptured
  <1>2. /\ det' = det /\ gate' = gate
        /\ stream' = [stream EXCEPT !.sent = Append(stream.sent, Head(perform.plan))]
        /\ perform' = IF Len(perform.plan) = 1 THEN NoPerform
                      ELSE [perform EXCEPT !.plan = Tail(perform.plan)]
    BY DEF Send
  <1>. DEFINE s == stream.sent
              t == perform.plan
              longer == Append(s, Head(t))
              rest == Tail(t)
  <1>3. s \in Seq(Frame) /\ t \in Seq(Frame)
    BY <1>1, FieldTypes
  <1>4. /\ longer \in Seq(Frame) /\ rest \in Seq(Frame) /\ longer \o rest = s \o t
        /\ Len(t) = 1 <=> rest = <<>>
        /\ Len(longer) = Len(s) + 1
        /\ \A i \in 1..Len(s) : longer[i] = s[i]
    BY <1>1, <1>3, HeadMoved
  <1>. HIDE DEF longer, rest
  <1>5. /\ stream' = [stream EXCEPT !.sent = longer]
        /\ perform' = IF rest = <<>> THEN NoPerform ELSE [perform EXCEPT !.plan = rest]
    BY <1>2, <1>4 DEF longer, rest
  <1>6. /\ stream'.captured = stream.captured /\ stream'.cut = stream.cut
        /\ stream'.edges = stream.edges /\ stream'.sent = longer
        /\ stream'.failed = stream.failed
        /\ perform'.plan = rest
        /\ perform'.pc = IF rest = <<>> THEN "idle" ELSE "sending"
    BY <1>1, <1>5, IdlePerform DEF TypeOK
  <1>60. perform'.pc \in {"idle", "sending"} /\ (perform'.plan = <<>> <=> perform'.pc # "sending")
    BY <1>6
  <1>7. TypeOK'
    <2>1. perform' \in [pc : {"idle", "scoring", "sending", "ended"},
                        chunk : [seq : Nat, len : Nat], windows : Nat,
                        events : Seq(Events), plan : Seq(Frame)]
      <3>1. CASE rest = <<>>
        BY <1>5, <3>1, IdlePerform
      <3>2. CASE rest /= <<>>
        BY <1>1, <1>4, <1>5, <3>2 DEF TypeOK
      <3>. QED  BY <3>1, <3>2
    <2>2. stream' \in [captured : Seq(Lengths), cut : Nat, edges : Seq(Events),
                       sent : Seq(Frame), failed : BOOLEAN]
      BY <1>1, <1>4, <1>5 DEF TypeOK
    <2>. QED  BY <1>1, <1>2, <2>1, <2>2 DEF TypeOK
  <1>8. Output' = Output /\ Latest' = Latest /\ InSpeech' = InSpeech
    <2>1. Output' = stream'.sent \o perform'.plan
      BY DEF Output
    <2>2. Output' = Output
      BY <1>4, <1>6, <2>1 DEF Output
    <2>3. Latest' = Latest
      BY <1>1, <1>6, <1>60 DEF Latest
    <2>. QED  BY <1>2, <2>2, <2>3 DEF InSpeech
  <1>9. AlternateUnlessFailed' /\ DetectorAhead' /\ GateFollowsDetector'
    <2>1. AlternateUnlessFailed'
      BY <1>6 DEF GateIsSound, GateInv, AlternateUnlessFailed, EdgesAlternate
    <2>2. DetectorAhead'
      BY <1>6, <1>8, <1>60 DEF GateIsSound, GateInv, DetectorAhead
    <2>3. GateFollowsDetector'
      BY <1>1, <1>2, <1>6, <1>8 DEF GateIsSound, GateInv, GateFollowsDetector
    <2>. QED  BY <2>1, <2>2, <2>3
  <1>10. ChunksAreCaptured'
    BY <1>2, <1>6, <1>8, <1>60 DEF GateIsSound, GateInv, ChunksAreCaptured
  <1>11. GateIsWhereOutputEnds'
    BY <1>1, <1>2, <1>6, <1>8 DEF GateIsSound, GateInv, GateIsWhereOutputEnds
  <1>12. RingFull'
    <2>1. ASSUME NEW before, \E i \in 1..Len(s) : Carries(s[i], before)
          PROVE  \E i \in 1..Len(longer) : Carries(longer[i], before)
      <3>1. PICK i \in 1..Len(s) : Carries(s[i], before)
        BY <2>1
      <3>2. i \in 1..Len(longer) /\ longer[i] = s[i]
        BY <1>3, <1>4
      <3>. QED  BY <3>1, <3>2
    <2>2. RingFull
      BY DEF GateIsSound, GateInv
    <2>. HIDE DEF s
    <2>. QED  BY <1>2, <1>6, <2>1, <2>2 DEF RingFull, s
  <1>13. UtterancesAreWhole'
    BY <1>2, <1>6, <1>8 DEF GateIsSound, UtterancesAreWhole, Bracketed, NothingResurrected
  <1>. QED  BY <1>7, <1>9, <1>10, <1>11, <1>12, <1>13 DEF GateIsSound, GateInv

\* Edges that alternate, and a batch that alternates after them.
LEMMA EdgesJoined ==
    ASSUME NEW edges \in Seq(Events), NEW events \in Seq(Events), Alternate(edges, FALSE),
           Alternate(events, Toggled(FALSE, edges))
    PROVE  /\ Alternate(edges \o events, FALSE)
           /\ Toggled(FALSE, edges \o events) = Toggled(Toggled(FALSE, edges), events)
  <1>. DEFINE all == edges \o events
              N == Len(edges)
              M == Len(events)
  <1>1. /\ N \in Nat /\ M \in Nat /\ Len(all) = N + M
        /\ \A i \in 1..N : all[i] = edges[i]
        /\ \A i \in N + 1..N + M : all[i] = events[i - N]
    BY ConcatProperties
  <1>2. ASSUME NEW i \in Nat
        PROVE  (N + i) % 2 = 1 <=> ~((N % 2 = 1) <=> (i % 2 = 1))
    BY <1>1
  <1>. HIDE DEF all
  <1>3. ASSUME NEW i \in 1..N + M
        PROVE  all[i] = IF (i % 2 = 1) = FALSE THEN "stopped" ELSE "started"
    <2>1. CASE i \in 1..N
      BY <1>1, <2>1 DEF Alternate
    <2>2. CASE i > N
      <3>. DEFINE j == i - N
      <3>1. j \in 1..M /\ j \in Nat /\ N + j = i /\ all[i] = events[j]
        BY <1>1, <2>2
      <3>2. events[j] = IF (j % 2 = 1) = Toggled(FALSE, edges) THEN "stopped" ELSE "started"
        BY <3>1 DEF Alternate
      <3>3. i % 2 = 1 <=> ~((N % 2 = 1) <=> (j % 2 = 1))
        BY <1>2, <3>1
      <3>. HIDE DEF j
      <3>4. Toggled(FALSE, edges) = (N % 2 = 1)
        BY DEF Toggled
      <3>. HIDE DEF N
      <3>5. CASE N % 2 = 1
        BY <3>1, <3>2, <3>3, <3>4, <3>5
      <3>6. CASE ~(N % 2 = 1)
        BY <3>1, <3>2, <3>3, <3>4, <3>6
      <3>. QED  BY <3>5, <3>6
    <2>3. i \in 1..N \/ i > N
      BY <1>1
    <2>. HIDE DEF N, M
    <2>. QED  BY <2>1, <2>2, <2>3
  <1>4. Alternate(all, FALSE)
    BY <1>1, <1>3 DEF Alternate
  <1>5. (N + M) % 2 = 1 <=> ~((N % 2 = 1) <=> (M % 2 = 1))
    BY <1>1, <1>2
  <1>6. Toggled(FALSE, all) = Toggled(Toggled(FALSE, edges), events)
    BY <1>1, <1>5 DEF Toggled
  <1>. QED  BY <1>4, <1>6 DEF all

\* process returns: what all its outcomes have in common.
LEMMA EdgesCommitted ==
    ASSUME GateIsSound, Commit
    PROVE  /\ TypeOK /\ perform.pc = "scoring" /\ ChunksAreCaptured
           /\ det' = det /\ stream' = [stream EXCEPT !.edges = stream.edges \o perform.events]
           /\ stream' \in [captured : Seq(Lengths), cut : Nat, edges : Seq(Events),
                           sent : Seq(Frame), failed : BOOLEAN]
           /\ stream'.captured = stream.captured /\ stream'.cut = stream.cut
           /\ stream'.sent = stream.sent /\ stream'.failed = stream.failed
           /\ AlternateUnlessFailed'
           /\ ~stream.failed => /\ Toggled(FALSE, stream'.edges) = Toggled(InSpeech, perform.events)
                                /\ det'.inSpeech = Toggled(InSpeech, perform.events)
  <1>1. /\ TypeOK /\ perform.pc = "scoring" /\ ChunksAreCaptured
        /\ det' = det /\ stream' = [stream EXCEPT !.edges = stream.edges \o perform.events]
    BY DEF GateIsSound, GateInv, Commit
  <1>. DEFINE more == stream.edges \o perform.events
  <1>2. /\ stream.edges \in Seq(Events) /\ perform.events \in Seq(Events) /\ more \in Seq(Events)
    BY <1>1, FieldTypes
  <1>3. ~stream.failed =>
          /\ Alternate(stream.edges, FALSE) /\ InSpeech = Toggled(FALSE, stream.edges)
          /\ Alternate(perform.events, InSpeech) /\ det.inSpeech = Toggled(InSpeech, perform.events)
    BY <1>1 DEF GateIsSound, GateInv, AlternateUnlessFailed, EdgesAlternate, DetectorAhead
  <1>4. ~stream.failed => Alternate(more, FALSE) /\ Toggled(FALSE, more) = Toggled(InSpeech, perform.events)
    <2>. DEFINE edges == stream.edges
                events == perform.events
                before == Toggled(FALSE, edges)
    <2>1. SUFFICES ASSUME ~stream.failed
                   PROVE  Alternate(more, FALSE) /\ Toggled(FALSE, more) = Toggled(InSpeech, events)
      OBVIOUS
    <2>2. InSpeech = before /\ Alternate(edges, FALSE) /\ Alternate(events, before)
      BY <1>3, <2>1
    <2>3. edges \in Seq(Events) /\ events \in Seq(Events)
      BY <1>2
    <2>. HIDE DEF edges, events
    <2>4. /\ Alternate(edges \o events, FALSE)
          /\ Toggled(FALSE, edges \o events) = Toggled(before, events)
      BY <2>2, <2>3, EdgesJoined
    <2>. QED  BY <2>2, <2>4 DEF edges, events
  <1>. HIDE DEF more
  <1>5. stream' = [stream EXCEPT !.edges = more]
    BY <1>1 DEF more
  <1>6. /\ stream' \in [captured : Seq(Lengths), cut : Nat, edges : Seq(Events),
                        sent : Seq(Frame), failed : BOOLEAN]
        /\ stream'.captured = stream.captured /\ stream'.cut = stream.cut
        /\ stream'.sent = stream.sent /\ stream'.failed = stream.failed /\ stream'.edges = more
    BY <1>1, <1>2, <1>5 DEF TypeOK
  <1>7. AlternateUnlessFailed'
    BY <1>4, <1>6 DEF AlternateUnlessFailed, EdgesAlternate
  <1>. QED  BY <1>1, <1>3, <1>4, <1>6, <1>7

\* A batch of events.
LEMMA BatchKeeps ==
    ASSUME GateIsSound, Commit, perform.events /= <<>>
    PROVE  GateIsSound'
  <1>. DEFINE p == PlanOf(perform.events, perform.chunk)
              n == Len(perform.events)
              chunk == perform.chunk
              out == stream.sent \o p.plan
  <1>1. /\ TypeOK /\ perform.pc = "scoring" /\ ChunksAreCaptured
        /\ det' = det
        /\ stream' \in [captured : Seq(Lengths), cut : Nat, edges : Seq(Events),
                        sent : Seq(Frame), failed : BOOLEAN]
        /\ stream'.captured = stream.captured /\ stream'.cut = stream.cut
        /\ stream'.sent = stream.sent /\ stream'.failed = stream.failed
        /\ AlternateUnlessFailed'
        /\ ~stream.failed => /\ Toggled(FALSE, stream'.edges) = Toggled(InSpeech, perform.events)
                             /\ det'.inSpeech = Toggled(InSpeech, perform.events)
    BY EdgesCommitted
  <1>2. /\ gate' = [mode |-> p.mode, ring |-> p.ring]
        /\ perform' = [perform EXCEPT !.pc = "sending", !.plan = p.plan]
    BY DEF Commit
  <1>3. /\ p \in Plans /\ n > 0 /\ Sane(p, n, gate.ring, chunk, stream.cut)
        /\ ~stream.failed => Planned(p, n, stream.sent, chunk, InSpeech)
    BY <1>1, BatchPlanned
  <1>4. chunk.seq = Latest + 1 /\ Latest \in Nat /\ chunk.seq > stream.cut
        /\ chunk.seq = Len(stream.captured) /\ stream.cut \in Nat /\ stream.sent \in Seq(Frame)
        /\ gate.ring \in Seq(Chunk) /\ perform.plan = <<>>
    BY <1>1, ChunkInHand, FieldTypes
  <1>5. (InSpeech \in BOOLEAN) /\ Toggled(InSpeech, perform.events) = ((n % 2 = 1) /= InSpeech)
    BY DEF InSpeech, Toggled
  <1>. HIDE DEF p, n
  <1>6. /\ p.mode \in {"idle", "speech"} /\ p.ring \in Seq(Chunk) /\ p.plan \in Seq(Frame)
        /\ p.ring \in {gate.ring, <<>>} /\ p.plan /= <<>> /\ Fresh(p.plan, stream.cut)
        /\ p.mode = "speech" => p.ring = <<>>
    BY <1>3 DEF Plans, Sane
  <1>7. /\ perform'.pc = "sending" /\ perform'.plan = p.plan
        /\ perform' \in [pc : {"idle", "scoring", "sending", "ended"},
                         chunk : [seq : Nat, len : Nat], windows : Nat,
                         events : Seq(Events), plan : Seq(Frame)]
    BY <1>1, <1>2, <1>6 DEF TypeOK
  <1>8. /\ gate'.mode = p.mode /\ gate'.ring = p.ring
        /\ gate' \in [mode : {"idle", "speech"}, ring : Seq(Chunk)]
    BY <1>2, <1>6
  <1>9. Output' = out /\ Latest' = Latest + 1 /\ InSpeech' = (p.mode = "speech")
    BY <1>1, <1>4, <1>7, <1>8 DEF Output, Latest, InSpeech
  <1>10. ASSUME ~stream.failed
         PROVE  /\ InSpeech' = Toggled(InSpeech, perform.events)
                /\ Utterances(out) /\ p.ring = <<>>
                /\ \E i \in 1..Len(out) : Carries(out[i], Latest + 1)
                /\ p.mode = "speech" => out /= <<>> /\ Carries(out[Len(out)], Latest + 1)
                /\ p.mode /= "speech" /\ out /= <<>> => out[Len(out)].kind = "stopped"
    BY <1>3, <1>4, <1>5, <1>6, <1>9, <1>10 DEF Planned
  <1>. HIDE DEF out
  <1>11. TypeOK'
    BY <1>1, <1>7, <1>8 DEF TypeOK
  <1>12. DetectorAhead'
    BY <1>1, <1>7, <1>10 DEF DetectorAhead
  <1>13. GateFollowsDetector'
    <2>1. ~stream.failed => InSpeech' = det'.inSpeech
      BY <1>1, <1>10, Zenon
    <2>. QED  BY <1>1, <2>1 DEF GateFollowsDetector
  <1>14. ChunksAreCaptured'
    <2>1. stream.cut <= Latest + 1
      BY <1>1, <1>4 DEF ChunksAreCaptured
    <2>2. \A i \in 1..Len(p.ring) :
            /\ p.ring[i].seq \in 1..(Latest + 1)
            /\ p.ring[i].len = stream.captured[p.ring[i].seq]
      <3>1. CASE p.ring = <<>>
        BY <3>1, EmptySequences
      <3>2. CASE p.ring = gate.ring
        BY <1>1, <1>4, <3>2 DEF ChunksAreCaptured
      <3>. QED  BY <1>6, <3>1, <3>2
    <2>. QED  BY <1>1, <1>6, <1>7, <1>8, <1>9, <2>1, <2>2 DEF ChunksAreCaptured
  <1>15. GateIsWhereOutputEnds'
    BY <1>1, <1>6, <1>8, <1>9, <1>10 DEF GateIsWhereOutputEnds
  <1>16. RingFull'
    <2>1. CASE p.ring = <<>>
      BY <1>8, <2>1 DEF RingFull
    <2>2. CASE p.ring = gate.ring /\ gate.ring /= <<>>
      <3>1. stream.failed
        BY <1>10, <2>2
      <3>. QED  BY <1>1, <1>8, <2>2, <3>1 DEF GateIsSound, GateInv, RingFull
    <2>. QED  BY <1>6, <2>1, <2>2
  <1>17. UtterancesAreWhole'
    <2>1. Bracketed'
      BY <1>1, <1>9, <1>10 DEF Bracketed
    <2>2. NothingResurrected
      BY DEF GateIsSound, UtterancesAreWhole
    <2>3. Output = stream.sent
      BY <1>4, NothingPlanned DEF Output
    <2>4. Fresh(stream.sent, stream.cut)
      BY <2>2, <2>3 DEF NothingResurrected, Fresh
    <2>5. Fresh(out, stream.cut)
      BY <1>4, <1>6, <2>4, FreshConcat DEF out
    <2>6. \A i \in 1..Len(p.ring) : p.ring[i].seq > stream.cut
      <3>1. CASE p.ring = <<>>
        BY <3>1, EmptySequences
      <3>2. CASE p.ring = gate.ring
        BY <2>2, <3>2 DEF NothingResurrected
      <3>. QED  BY <1>6, <3>1, <3>2
    <2>7. NothingResurrected'
      BY <1>1, <1>8, <1>9, <2>5, <2>6 DEF NothingResurrected, Fresh
    <2>. QED  BY <2>1, <2>7 DEF UtterancesAreWhole
  <1>. QED  BY <1>1, <1>11, <1>12, <1>13, <1>14, <1>15, <1>16, <1>17 DEF GateIsSound, GateInv

\* A chunk within an utterance.
LEMMA LiveChunkKeeps ==
    ASSUME GateIsSound, Commit, perform.events = <<>>, gate.mode = "speech"
    PROVE  GateIsSound'
  <1>. DEFINE chunk == perform.chunk
              one == <<Audio(chunk)>>
              emitted == stream.sent
              out == emitted \o one
  <1>1. /\ TypeOK /\ perform.pc = "scoring" /\ ChunksAreCaptured
        /\ det' = det
        /\ stream' \in [captured : Seq(Lengths), cut : Nat, edges : Seq(Events),
                        sent : Seq(Frame), failed : BOOLEAN]
        /\ stream'.captured = stream.captured /\ stream'.cut = stream.cut
        /\ stream'.sent = stream.sent /\ stream'.failed = stream.failed
        /\ AlternateUnlessFailed'
        /\ ~stream.failed => /\ Toggled(FALSE, stream'.edges) = Toggled(InSpeech, perform.events)
                             /\ det'.inSpeech = Toggled(InSpeech, perform.events)
    BY EdgesCommitted
  <1>2. /\ gate' = gate
        /\ perform' = [perform EXCEPT !.pc = "sending", !.plan = one]
    BY DEF Commit
  <1>3. chunk.seq = Latest + 1 /\ Latest \in Nat /\ chunk.seq > stream.cut
        /\ chunk.seq = Len(stream.captured) /\ stream.cut \in Nat /\ emitted \in Seq(Frame)
        /\ gate.ring \in Seq(Chunk) /\ perform.plan = <<>> /\ chunk \in Chunk
    BY <1>1, ChunkInHand, FieldTypes
  <1>4. InSpeech = TRUE /\ gate.ring = <<>> /\ Toggled(InSpeech, perform.events) = TRUE
    <2>1. InSpeech = TRUE
      BY DEF InSpeech
    <2>2. Toggled(TRUE, <<>>) = TRUE
      BY EmptySequences
    <2>. QED  BY <2>1, <2>2 DEF GateIsSound, GateInv, GateIsWhereOutputEnds
  <1>5. Audio(chunk) \in Frame /\ Audio(chunk).kind = "audio" /\ Audio(chunk).chunk = chunk
    BY <1>3, FrameFields
  <1>6. /\ one \in Seq(Frame) /\ one /= <<>> /\ Len(one) = 1 /\ one[1] = Audio(chunk)
    BY <1>5
  <1>. HIDE DEF one
  <1>7. /\ out \in Seq(Frame) /\ out /= <<>> /\ Len(out) = Len(emitted) + 1
        /\ out[Len(out)] = Audio(chunk)
    <2>1. emitted \in Seq(Frame) /\ Len(emitted) \in Nat
      BY <1>3
    <2>. HIDE DEF emitted, chunk
    <2>2. /\ emitted \o one \in Seq(Frame) /\ Len(emitted \o one) = Len(emitted) + Len(one)
          /\ \A i \in 1..Len(emitted) + Len(one) :
               (emitted \o one)[i] = IF i <= Len(emitted) THEN emitted[i] ELSE one[i - Len(emitted)]
      <3>1. one \in Seq(Frame)
        BY <1>6
      <3>. QED  BY ONLY <2>1, <3>1, ConcatProperties
    <2>. DEFINE j == Len(emitted) + 1
    <2>3. j \in 1..Len(emitted) + Len(one) /\ j - Len(emitted) = 1 /\ ~(j <= Len(emitted))
      <3>1. Len(one) = 1 /\ Len(emitted) \in Nat
        BY <1>6, <2>1
      <3>. QED  BY ONLY <3>1
    <2>. HIDE DEF j
    <2>30. (emitted \o one)[j] = one[j - Len(emitted)]
      BY <2>2, <2>3
    <2>4. out[j] = one[1]
      BY <2>3, <2>30
    <2>5. out \in Seq(Frame) /\ Len(out) = Len(emitted) + 1
      BY <1>6, <2>1, <2>2
    <2>. HIDE DEF out
    <2>. QED  BY <1>6, <2>1, <2>4, <2>5 DEF j
  <1>8. Output = emitted
    BY <1>3, NothingPlanned DEF Output
  <1>9. /\ perform'.pc = "sending" /\ perform'.plan = one
        /\ perform' \in [pc : {"idle", "scoring", "sending", "ended"},
                         chunk : [seq : Nat, len : Nat], windows : Nat,
                         events : Seq(Events), plan : Seq(Frame)]
    BY <1>1, <1>2, <1>6 DEF TypeOK
  <1>10. Output' = out /\ Latest' = Latest + 1 /\ InSpeech' = InSpeech
    BY <1>1, <1>2, <1>3, <1>9 DEF Output, Latest, InSpeech
  <1>11. ASSUME ~stream.failed
         PROVE  Utterances(out)
    <2>1. Utterances(emitted) /\ emitted /= <<>> /\ Carries(emitted[Len(emitted)], Latest)
      BY <1>4, <1>8, <1>11
         DEF GateIsSound, GateInv, UtterancesAreWhole, Bracketed, GateIsWhereOutputEnds
    <2>2. Follows(emitted[Len(emitted)], one[1])
      BY <1>3, <1>5, <1>6, <2>1 DEF Follows, Carries
    <2>3. Linked(one)
      BY <1>6 DEF Linked
    <2>. QED  BY <1>3, <1>6, <2>1, <2>2, <2>3, PiecesJoin
  <1>12. Carries(out[Len(out)], Latest + 1)
    BY <1>3, <1>5, <1>7 DEF Carries
  <1>. HIDE DEF out
  <1>13. TypeOK'
    BY <1>1, <1>2, <1>9 DEF TypeOK
  <1>14. DetectorAhead' /\ GateFollowsDetector'
    BY <1>1, <1>4, <1>9, <1>10 DEF DetectorAhead, GateFollowsDetector
  <1>15. ChunksAreCaptured'
    BY <1>1, <1>2, <1>3, <1>4, <1>6, <1>9, <1>10, EmptySequences DEF ChunksAreCaptured
  <1>16. GateIsWhereOutputEnds' /\ RingFull'
    BY <1>1, <1>2, <1>4, <1>7, <1>10, <1>12 DEF GateIsWhereOutputEnds, RingFull
  <1>17. UtterancesAreWhole'
    <2>1. Bracketed'
      BY <1>1, <1>10, <1>11 DEF Bracketed
    <2>2. Fresh(emitted, stream.cut)
      BY <1>8 DEF GateIsSound, UtterancesAreWhole, NothingResurrected, Fresh
    <2>3. Fresh(one, stream.cut)
      BY <1>3, <1>5, <1>6 DEF Fresh
    <2>4. Fresh(out, stream.cut)
      BY <1>3, <1>6, <2>2, <2>3, FreshConcat DEF out
    <2>5. NothingResurrected'
      BY <1>1, <1>2, <1>4, <1>10, <2>4, EmptySequences DEF NothingResurrected, Fresh
    <2>. QED  BY <2>1, <2>5 DEF UtterancesAreWhole
  <1>. QED  BY <1>1, <1>13, <1>14, <1>15, <1>16, <1>17 DEF GateIsSound, GateInv

\* The ring after a push: from some chunk of the ring and the new one on, all of them.
LEMMA RingAfterPush ==
    ASSUME NEW ring \in Seq(Chunk), NEW chunk \in Chunk
    PROVE  LET all == Append(ring, chunk)
               r   == Pushed(ring, chunk)
           IN  \E k \in 1..Len(ring) + 1 :
                 /\ r \in Seq(Chunk) /\ r /= <<>> /\ Len(r) = Len(ring) + 2 - k
                 /\ \A i \in 1..Len(r) : k + i - 1 \in 1..Len(ring) + 1 /\ r[i] = all[k + i - 1]
                 /\ Duration(r) \in Nat
                 /\ Len(r) > 1 => Duration(r) <= Preroll
                 /\ k = 1 => r = all
                 /\ k > 1 => all[k - 1].len + Duration(r) > Preroll
  <1>. DEFINE all == Append(ring, chunk)
              r == Pushed(ring, chunk)
              N == Len(ring)
  <1>1. all \in Seq(Chunk) /\ Len(all) = N + 1 /\ N \in Nat
    OBVIOUS
  <1>2. PICK k \in 1..Len(all) :
          /\ r = SubSeq(all, k, Len(all))
          /\ k < Len(all) => Duration(r) <= Preroll
          /\ k > 1 => all[k - 1].len + Duration(r) > Preroll
    BY PushedEffect
  <1>. HIDE DEF all, r
  <1>3. k \in Nat /\ k >= 1 /\ k <= N + 1 /\ r = SubSeq(all, k, N + 1)
    BY <1>1, <1>2
  <1>4. /\ r \in Seq(Chunk) /\ Len(r) = N + 2 - k
        /\ \A i \in 1..(N + 2 - k) : r[i] = all[k + i - 1]
    <2>1. \A i \in k..(N + 1) : all[i] \in Chunk
      BY <1>1, <1>3
    <2>2. k \in Int /\ N + 1 \in Int
      BY <1>1, <1>3
    <2>3. /\ SubSeq(all, k, N + 1) \in Seq(Chunk)
          /\ Len(SubSeq(all, k, N + 1)) = IF k <= N + 1 THEN N + 1 - k + 1 ELSE 0
          /\ \A i \in 1..N + 1 - k + 1 : SubSeq(all, k, N + 1)[i] = all[k + i - 1]
      BY <2>1, <2>2, SubSeqProperties
    <2>4. N + 1 - k + 1 = N + 2 - k
      BY <1>1, <1>3
    <2>. QED  BY <1>3, <2>3, <2>4
  <1>5. \A i \in 1..Len(r) : k + i - 1 \in 1..N + 1 /\ r[i] = all[k + i - 1]
    BY <1>1, <1>3, <1>4
  <1>6. Duration(r) \in Nat
    <2>1. PICK g \in [0..Len(r) -> Nat] : Totals(g, r)
      BY <1>4, TotalSteps
    <2>2. Len(r) \in 0..Len(r)
      BY <1>4
    <2>. QED  BY <2>1, <2>2 DEF Totals
  <1>7. r /= <<>>
    <2>1. Len(r) > 0
      BY <1>1, <1>3, <1>4
    <2>2. Len(<<>>) = 0
      OBVIOUS
    <2>. QED  BY ONLY <2>1, <2>2
  <1>8. Len(r) > 1 => Duration(r) <= Preroll
    BY <1>1, <1>2, <1>3, <1>4
  <1>9. ASSUME k = 1
        PROVE  r = all
    <2>1. ASSUME NEW i \in 1..N + 1
          PROVE  r[i] = all[i]
      <3>1. i \in 1..Len(r) /\ k + i - 1 = i
        BY <1>1, <1>4, <1>9
      <3>. QED  BY <1>5, <3>1
    <2>2. Len(r) = N + 1
      BY <1>1, <1>4, <1>9
    <2>. QED  BY <1>1, <1>4, <2>1, <2>2, SeqEqual
  <1>10. k > 1 => all[k - 1].len + Duration(r) > Preroll
    BY <1>2
  <1>. QED  BY <1>1, <1>3, <1>4, <1>5, <1>6, <1>7, <1>8, <1>9, <1>10 DEF all, r

\* A chunk held in the ring.
LEMMA HeldChunkKeeps ==
    ASSUME GateIsSound, Commit, perform.events = <<>>, gate.mode = "idle"
    PROVE  GateIsSound'
  <1>. DEFINE chunk == perform.chunk
              ring == gate.ring
              all == Append(ring, chunk)
              r == Pushed(ring, chunk)
              N == Len(ring)
              lens == stream.captured
              emitted == stream.sent
  <1>1. /\ TypeOK /\ perform.pc = "scoring" /\ ChunksAreCaptured
        /\ det' = det
        /\ stream' \in [captured : Seq(Lengths), cut : Nat, edges : Seq(Events),
                        sent : Seq(Frame), failed : BOOLEAN]
        /\ stream'.captured = stream.captured /\ stream'.cut = stream.cut
        /\ stream'.sent = stream.sent /\ stream'.failed = stream.failed
        /\ AlternateUnlessFailed'
        /\ ~stream.failed => /\ Toggled(FALSE, stream'.edges) = Toggled(InSpeech, perform.events)
                             /\ det'.inSpeech = Toggled(InSpeech, perform.events)
    BY EdgesCommitted
  <1>2. gate' = [gate EXCEPT !.ring = r] /\ perform' = NoPerform
    BY DEF Commit
  <1>3. chunk.seq = Latest + 1 /\ Latest \in Nat /\ chunk.seq > stream.cut
        /\ chunk.seq = Len(lens) /\ stream.cut \in Nat /\ emitted \in Seq(Frame)
        /\ ring \in Seq(Chunk) /\ perform.plan = <<>> /\ chunk \in Chunk
        /\ chunk.len = lens[Len(lens)] /\ chunk.len \in Nat
    BY <1>1, ChunkInHand, FieldTypes, ChunkFields
  <1>4. PICK k \in 1..Len(ring) + 1 :
          /\ r \in Seq(Chunk) /\ r /= <<>> /\ Len(r) = Len(ring) + 2 - k
          /\ \A i \in 1..Len(r) : k + i - 1 \in 1..Len(ring) + 1 /\ r[i] = all[k + i - 1]
          /\ Duration(r) \in Nat
          /\ Len(r) > 1 => Duration(r) <= Preroll
          /\ k = 1 => r = all
          /\ k > 1 => all[k - 1].len + Duration(r) > Preroll
    BY <1>3, RingAfterPush
  <1>5. /\ all \in Seq(Chunk) /\ all[N + 1] = chunk /\ N \in Nat
        /\ \A i \in 1..N : all[i] = ring[i]
    BY <1>3
  <1>. HIDE DEF r, all
  <1>6. /\ gate'.mode = "idle" /\ gate'.ring = r
        /\ gate' \in [mode : {"idle", "speech"}, ring : Seq(Chunk)]
    BY <1>1, <1>2, <1>4 DEF TypeOK
  <1>7. perform'.pc = "idle" /\ perform'.plan = <<>>
    BY <1>2, IdlePerform
  <1>8. Output' = Output /\ Latest' = Latest + 1 /\ InSpeech' = FALSE /\ InSpeech = FALSE
    BY <1>1, <1>3, <1>6, <1>7 DEF Output, Latest, InSpeech
  <1>9. Output = emitted /\ Toggled(InSpeech, perform.events) = FALSE
    BY <1>3, <1>8, NothingPlanned, EmptySequences DEF Output
  <1>. DEFINE Captured(c) == /\ c.seq \in 1..(Latest + 1) /\ c.len = lens[c.seq]
                             /\ c.seq > stream.cut
  <1>10. ASSUME NEW i \in 1..N + 1
         PROVE  Captured(all[i])
    <2>1. CASE i = N + 1
      <3>1. all[i] = chunk
        BY <1>5, <2>1
      <3>2. /\ chunk.seq = Latest + 1 /\ Latest \in Nat /\ chunk.seq > stream.cut
            /\ chunk.len = lens[chunk.seq]
        BY <1>3
      <3>. HIDE DEF chunk, lens
      <3>. QED  BY ONLY <3>1, <3>2
    <2>2. CASE i \in 1..N
      <3>. DEFINE c == ring[i]
      <3>1. c.seq \in 1..Latest /\ c.len = lens[c.seq]
        BY <1>1, <2>2 DEF ChunksAreCaptured
      <3>2. c.seq > stream.cut
        BY <2>2 DEF GateIsSound, UtterancesAreWhole, NothingResurrected
      <3>3. all[i] = c /\ Latest \in Nat
        BY <1>3, <1>5, <2>2
      <3>. HIDE DEF c, lens
      <3>. QED  BY ONLY <3>1, <3>2, <3>3
    <2>. QED  BY <1>5, <2>1, <2>2
  <1>11. ASSUME ~stream.failed
         PROVE  \A i \in 1..N : all[i + 1].seq = all[i].seq + 1
    <2>. SUFFICES ASSUME NEW i \in 1..N
                  PROVE  all[i + 1].seq = all[i].seq + 1
      OBVIOUS
    <2>0. ring /= <<>>
      BY <1>5
    <2>1. CASE i = N
      <3>1. ring[N].seq = Latest
        BY <1>8, <1>11, <2>0 DEF GateIsSound, GateInv, GateIsWhereOutputEnds
      <3>. QED  BY <1>3, <1>5, <2>1, <3>1
    <2>2. CASE i \in 1..N - 1
      <3>1. ring[i + 1].seq = ring[i].seq + 1
        BY <1>11, <2>0, <2>2 DEF GateIsSound, GateInv, RingFull
      <3>2. i + 1 \in 1..N
        BY <1>5, <2>2
      <3>. QED  BY <1>5, <3>1, <3>2
    <2>. QED  BY <1>5, <2>1, <2>2
  <1>12. /\ r[Len(r)] = chunk /\ r[1] = all[k] /\ 1 \in 1..Len(r)
         /\ \A i \in 1..Len(r) : r[i] = all[k + i - 1] /\ k + i - 1 \in 1..N + 1
    <2>1. Len(r) \in 1..Len(r) /\ k + Len(r) - 1 = N + 1 /\ 1 \in 1..Len(r) /\ k + 1 - 1 = k
      BY <1>4, <1>5
    <2>. QED  BY <1>4, <1>5, <2>1
  <1>13. TypeOK'
    BY <1>1, <1>2, <1>6, IdlePerform DEF TypeOK
  <1>14. DetectorAhead' /\ GateFollowsDetector'
    BY <1>1, <1>7, <1>8, <1>9 DEF DetectorAhead, GateFollowsDetector
  <1>15. ChunksAreCaptured'
    <2>1. stream.cut <= Latest + 1
      BY <1>1, <1>3 DEF ChunksAreCaptured
    <2>2. \A i \in 1..Len(r) :
            /\ r[i].seq \in 1..(Latest + 1)
            /\ r[i].len = lens[r[i].seq]
      BY <1>10, <1>12
    <2>. QED  BY <1>1, <1>6, <1>7, <1>8, <2>1, <2>2 DEF ChunksAreCaptured
  <1>16. GateIsWhereOutputEnds'
    <2>1. ~stream.failed => (Output /= <<>> => Output[Len(Output)].kind = "stopped")
      BY <1>8 DEF GateIsSound, GateInv, GateIsWhereOutputEnds
    <2>2. r /= <<>> /\ r[Len(r)].seq = Latest + 1
      BY <1>3, <1>4, <1>12
    <2>. QED  BY <1>1, <1>6, <1>7, <1>8, <2>1, <2>2 DEF GateIsWhereOutputEnds
  <1>17. RingFull'
    <2>. DEFINE before == r[1].seq - 1
    <2>1. ASSUME ~stream.failed
          PROVE  \A i \in 1..Len(r) - 1 : r[i + 1].seq = r[i].seq + 1
      <3>. SUFFICES ASSUME NEW i \in 1..Len(r) - 1
                    PROVE  r[i + 1].seq = r[i].seq + 1
        OBVIOUS
      <3>. DEFINE j == k + i - 1
      <3>1. i \in 1..Len(r) /\ i + 1 \in 1..Len(r) /\ j \in 1..N /\ k + (i + 1) - 1 = j + 1
        BY <1>4, <1>5
      <3>2. r[i] = all[j] /\ r[i + 1] = all[k + (i + 1) - 1]
        BY <1>12, <3>1
      <3>. HIDE DEF j
      <3>. QED  BY <1>11, <2>1, <3>1, <3>2
    <2>2. ASSUME ~stream.failed
          PROVE  \/ before = stream.cut
                 \/ \E i \in 1..Len(emitted) : Carries(emitted[i], before)
                 \/ Duration(r) + lens[before] > Preroll
      <3>1. CASE k = 1 /\ ring = <<>>
        <4>1. before = Latest
          <5>1. N = 0
            BY <3>1
          <5>2. all[1] = chunk /\ r[1] = all[1]
            BY <1>5, <1>12, <3>1, <5>1
          <5>3. chunk.seq = Latest + 1 /\ Latest \in Nat
            BY <1>3
          <5>. HIDE DEF chunk
          <5>. QED  BY ONLY <5>2, <5>3
        <4>2. \/ Latest = stream.cut
              \/ \E i \in 1..Len(Output) : Carries(Output[i], Latest)
          BY <1>8, <2>2, <3>1 DEF GateIsSound, GateInv, GateIsWhereOutputEnds
        <4>. QED  BY <1>9, <4>1, <4>2
      <3>2. CASE k = 1 /\ ring /= <<>>
        <4>1. 1 \in 1..N
          BY <1>3, <3>2
        <4>2. before = ring[1].seq - 1
          BY <1>5, <1>12, <3>2, <4>1
        <4>3. \/ before = stream.cut
              \/ \E i \in 1..Len(emitted) : Carries(emitted[i], before)
              \/ Duration(ring) + lens[before] > Preroll
          BY <2>2, <3>2, <4>2 DEF GateIsSound, GateInv, RingFull
        <4>4. Duration(r) = Duration(ring) + chunk.len /\ Duration(ring) \in Nat
          BY <1>3, <1>4, <3>2, DurationOfAppend DEF all
        <4>5. before = stream.cut \/ lens[before] \in Nat
          <5>1. before = stream.cut \/ before \in 1..Len(lens)
            BY <1>1, <3>2, <4>2, RingStarts DEF GateIsSound, UtterancesAreWhole
          <5>2. lens \in Seq(Lengths)
            BY <1>1, FieldTypes
          <5>3. before \in 1..Len(lens) => lens[before] \in Lengths
            BY <5>2
          <5>. QED  BY <5>1, <5>3, ConfigAssumption
        <4>6. /\ Preroll \in Nat /\ chunk.len \in Nat
          BY <1>3, ConfigAssumption
        <4>. HIDE DEF before, chunk, ring
        <4>7. lens[before] \in Nat /\ Duration(ring) + lens[before] > Preroll
                => Duration(r) + lens[before] > Preroll
          BY <4>4, <4>6
        <4>. QED  BY <4>3, <4>5, <4>7
      <3>3. CASE k > 1
        <4>1. k - 1 \in 1..N /\ (k - 1) + 1 = k /\ k - 1 \in 1..N + 1
          BY <1>5, <3>3
        <4>2. all[k].seq = all[k - 1].seq + 1
          BY <1>11, <2>2, <4>1
        <4>3. all[k - 1].seq \in 1..(Latest + 1) /\ all[k - 1].len = lens[all[k - 1].seq]
          BY <1>10, <4>1
        <4>4. before = all[k - 1].seq
          BY <1>3, <1>12, <4>2, <4>3
        <4>5. all[k - 1].len + Duration(r) > Preroll /\ all[k - 1].len \in Nat
          <5>1. all[k - 1].len + Duration(r) > Preroll
            BY <1>4, <3>3
          <5>2. all[k - 1] = ring[k - 1] /\ ring[k - 1] \in Chunk
            BY <1>3, <1>5, <4>1
          <5>. QED  BY <5>1, <5>2, ChunkFields
        <4>6. Duration(r) + all[k - 1].len > Preroll
          BY <1>4, <4>5
        <4>. QED  BY <4>3, <4>4, <4>6
      <3>. QED  BY <1>4, <1>5, <3>1, <3>2, <3>3
    <2>3. Len(r) > 1 => Duration(r) <= Preroll
      BY <1>4
    <2>. QED  BY <1>1, <1>6, <2>1, <2>2, <2>3 DEF RingFull
  <1>18. UtterancesAreWhole'
    <2>1. Bracketed'
      BY <1>1, <1>8 DEF GateIsSound, UtterancesAreWhole, Bracketed
    <2>2. \A i \in 1..Len(r) : r[i].seq > stream.cut
      BY <1>10, <1>12
    <2>3. NothingResurrected'
      BY <1>1, <1>6, <1>8, <2>2 DEF GateIsSound, UtterancesAreWhole, NothingResurrected
    <2>. QED  BY <2>1, <2>3 DEF UtterancesAreWhole
  <1>. QED  BY <1>1, <1>13, <1>14, <1>15, <1>16, <1>17, <1>18 DEF GateIsSound, GateInv

LEMMA CommitKeeps ==
    ASSUME GateIsSound, Commit
    PROVE  GateIsSound'
  <1>1. gate.mode \in {"idle", "speech"}
    BY FieldTypes DEF GateIsSound, GateInv
  <1>. QED  BY <1>1, BatchKeeps, LiveChunkKeeps, HeldChunkKeeps

LEMMA GateStarts ==
    ASSUME Init
    PROVE  GateIsSound
  <1>1. /\ det = IdleDet /\ gate = IdleGate /\ perform = NoPerform /\ stream = NewStream(<<>>)
    BY DEF Init
  <1>2. /\ gate.mode = "idle" /\ gate.ring = <<>> /\ det.inSpeech = FALSE
        /\ stream.captured = <<>> /\ stream.cut = 0
        /\ stream.edges = <<>> /\ stream.sent = <<>> /\ stream.failed = FALSE
        /\ perform.pc = "idle" /\ perform.plan = <<>>
    BY <1>1, IdlePerform, EmptySequences DEF IdleGate, IdleDet, NewStream
  <1>3. TypeOK
    <2>1. det \in [remainder : 0..WindowLen - 1, inSpeech : BOOLEAN, against : Nat]
      BY <1>1, ConfigAssumption DEF IdleDet
    <2>2. gate \in [mode : {"idle", "speech"}, ring : Seq(Chunk)]
      BY <1>1, EmptySequences DEF IdleGate
    <2>3. stream \in [captured : Seq(Lengths), cut : Nat, edges : Seq(Events),
                      sent : Seq(Frame), failed : BOOLEAN]
      BY <1>1, EmptySequences DEF NewStream
    <2>. QED  BY <1>1, <2>1, <2>2, <2>3, IdlePerform DEF TypeOK
  <1>4. Output = <<>> /\ Latest = 0 /\ InSpeech = FALSE
    <2>1. <<>> \o <<>> = <<>>
      BY EmptySequences, NothingPlanned
    <2>. QED  BY <1>2, <2>1, EmptySequences DEF Output, Latest, InSpeech
  <1>5. AlternateUnlessFailed /\ DetectorAhead /\ GateFollowsDetector
    BY <1>2, <1>4, EmptySequences
       DEF AlternateUnlessFailed, EdgesAlternate, DetectorAhead, GateFollowsDetector
  <1>6. ChunksAreCaptured /\ GateIsWhereOutputEnds /\ RingFull
    BY <1>2, <1>4, EmptySequences DEF ChunksAreCaptured, GateIsWhereOutputEnds, RingFull
  <1>7. UtterancesAreWhole
    BY <1>2, <1>4, EmptySequences DEF UtterancesAreWhole, Bracketed, NothingResurrected
  <1>. QED  BY <1>3, <1>5, <1>6, <1>7 DEF GateIsSound, GateInv

LEMMA GateStutters ==
    ASSUME GateIsSound, UNCHANGED vars
    PROVE  GateIsSound'
  <1>1. det' = det /\ gate' = gate /\ perform' = perform /\ stream' = stream
    BY DEF vars
  <1>2. Output' = Output /\ Latest' = Latest /\ InSpeech' = InSpeech
    BY <1>1 DEF Output, Latest, InSpeech
  <1>3. TypeOK' /\ AlternateUnlessFailed' /\ DetectorAhead' /\ GateFollowsDetector'
    BY <1>1, <1>2
       DEF GateIsSound, GateInv, TypeOK, AlternateUnlessFailed, EdgesAlternate, DetectorAhead,
           GateFollowsDetector
  <1>4. ChunksAreCaptured' /\ GateIsWhereOutputEnds' /\ RingFull'
    BY <1>1, <1>2 DEF GateIsSound, GateInv, ChunksAreCaptured, GateIsWhereOutputEnds, RingFull
  <1>5. UtterancesAreWhole'
    BY <1>1, <1>2 DEF GateIsSound, UtterancesAreWhole, Bracketed, NothingResurrected
  <1>. QED  BY <1>3, <1>4, <1>5 DEF GateIsSound, GateInv

\* The gate keeps its contract (pipecrab-vad, VadStage and Debounced), for every window
\* length, debounce and pre-roll budget, whatever lengths the chunks come in: as long as
\* the scorer does not fail, its edges alternate and what is emitted is a sequence of whole
\* utterances; the ring holds what an onset needs and fits the budget; and nothing from
\* before an Interrupt is emitted after it.
THEOREM GateInvariant == Spec => []GateIsSound
  <1>1. Init => GateIsSound
    BY GateStarts
  <1>2. GateIsSound /\ [Next]_vars => GateIsSound'
    BY DetectKeeps, ScoreKeeps, ScoreFailsKeeps, CommitKeeps, SendKeeps, InterruptKeeps,
       RejectFormatKeeps, GateStutters DEF Next
  <1>. QED  BY <1>1, <1>2, PTL DEF Spec

-----------------------------------------------------------------------------
(***************************************************************************)
(* The resampler: what a sequence of chunks holds.                         *)
(***************************************************************************)

\* g[n] is what the first n sequences are, one after the other.
Flattens(g, seqs) ==
    /\ g[0] = <<>>
    /\ \A i \in 1..Len(seqs) : g[i] = g[i - 1] \o seqs[i]
    /\ FlattenSeq(seqs) = g[Len(seqs)]

LEMMA FlattenIterates ==
    ASSUME NEW N \in Nat, NEW seqs, \A i \in 1..N : seqs[i] \in Seq(Nat)
    PROVE  \E g \in [0..N -> Seq(Nat)] : g[0] = <<>> /\ \A i \in 1..N : g[i] = g[i - 1] \o seqs[i]
  <1>. DEFINE H == [i \in 1..N |-> [t \in Seq(Nat) |-> t \o seqs[i]]]
  <1>1. \A i \in 1..N, t \in Seq(Nat) : t \o seqs[i] \in Seq(Nat)
    OBVIOUS
  <1>2. H \in [1..N -> [Seq(Nat) -> Seq(Nat)]]
    BY <1>1
  <1>3. \A i \in 1..N, t \in Seq(Nat) : H[i][t] = t \o seqs[i]
    OBVIOUS
  <1>. HIDE DEF H
  <1>4. PICK g \in [0..N -> Seq(Nat)] : g[0] = <<>> /\ \A i \in 1..N : g[i] = H[i][g[i - 1]]
    <2>. DEFINE A == Seq(Nat)
                a == <<>>
    <2>1. a \in A /\ H \in [1..N -> [A -> A]] /\ N \in Nat
      BY <1>2
    <2>. HIDE DEF A, a
    <2>2. \E g \in [0..N -> A] : g[0] = a /\ \A i \in 1..N : g[i] = H[i][g[i - 1]]
      BY ONLY <2>1, Data!Iteration
    <2>. QED  BY <2>2 DEF A, a
  <1>5. ASSUME NEW i \in 1..N
        PROVE  g[i] = g[i - 1] \o seqs[i]
    <2>1. i - 1 \in 0..N
      OBVIOUS
    <2>. QED  BY <1>3, <1>4, <2>1
  <1>. QED  BY <1>4, <1>5

LEMMA FlattenSteps ==
    ASSUME NEW seqs \in Seq(Seq(Nat))
    PROVE  \E g \in [0..Len(seqs) -> Seq(Nat)] : Flattens(g, seqs)
  <1>. DEFINE N == Len(seqs)
              Body(k) == [i \in 1..N |-> IF i = 1 THEN seqs[i] ELSE k[i - 1] \o seqs[i]]
              f == CHOOSE k : k = Body(k)
  <1>1. N \in Nat /\ \A i \in 1..N : seqs[i] \in Seq(Nat)
    OBVIOUS
  <1>. HIDE DEF N
  <1>5. PICK g \in [0..N -> Seq(Nat)] : g[0] = <<>> /\ \A i \in 1..N : g[i] = g[i - 1] \o seqs[i]
    BY <1>1, FlattenIterates
  <1>6. ASSUME NEW i \in 1..N
        PROVE  g[i] = g[i - 1] \o seqs[i]
    BY <1>5
  <1>7. ASSUME N /= 0
        PROVE  FlattenSeq(seqs) = g[N]
    <2>. DEFINE h == [i \in 1..N |-> g[i]]
    <2>1. ASSUME NEW i \in 1..N
          PROVE  h[i] = IF i = 1 THEN seqs[i] ELSE h[i - 1] \o seqs[i]
      <3>1. CASE i = 1
        <4>1. 1 \in 1..N /\ 1 - 1 = 0
          BY <3>1
        <4>2. g[1] = g[0] \o seqs[1]
          BY <1>6, <4>1, Zenon
        <4>3. seqs[1] \in Seq(Nat)
          BY <1>1, <4>1
        <4>. QED  BY <1>5, <3>1, <4>2, <4>3, ConcatEmptySeq
      <3>2. CASE i /= 1
        <4>1. i - 1 \in 1..N
          BY <1>1, <3>2
        <4>. QED  BY <1>6, <3>2, <4>1
      <3>. QED  BY <3>1, <3>2
    <2>2. h = Body(h)
      BY <2>1
    <2>. HIDE DEF h, Body
    <2>3. f = Body(f)
      BY <2>2
    <2>. HIDE DEF f
    <2>4. \A i \in 1..N : f[i] = IF i = 1 THEN seqs[i] ELSE f[i - 1] \o seqs[i]
      BY <2>3 DEF Body
    <2>. DEFINE T == {n \in 0..N : n # 0 => f[n] = g[n]}
    <2>5. 0 \in T
      BY <1>1
    <2>6. ASSUME NEW n \in 0..N, n + 1 <= N, n \in T
          PROVE  n + 1 \in T
      <3>1. n + 1 \in 1..N /\ n + 1 \in 0..N /\ (n + 1) - 1 = n
        BY <1>1, <2>6
      <3>2. CASE n = 0
        <4>0. 1 \in 1..N /\ 1 - 1 = 0
          BY <3>1, <3>2
        <4>1. f[1] = seqs[1]
          BY <2>4, <4>0
        <4>2. g[1] = g[0] \o seqs[1]
          BY <1>6, <4>0, Zenon
        <4>3. seqs[1] \in Seq(Nat)
          BY <1>1, <4>0
        <4>4. f[1] = g[1]
          BY <1>5, <4>1, <4>2, <4>3, ConcatEmptySeq
        <4>. QED  BY <3>1, <3>2, <4>4
      <3>3. CASE n # 0
        <4>1. f[n] = g[n] /\ n + 1 # 1
          BY <2>6, <3>3
        <4>2. f[n + 1] = f[n] \o seqs[n + 1] /\ g[n + 1] = g[n] \o seqs[n + 1]
          BY <1>6, <2>4, <3>1, <4>1
        <4>. QED  BY <3>1, <4>1, <4>2
      <3>. QED  BY <3>2, <3>3
    <2>. HIDE DEF T
    <2>7. \A n \in 0..N : n \in T
      BY <1>1, <2>5, <2>6, Data!CountingUp
    <2>8. f[N] = g[N]
      BY <1>1, <1>7, <2>7 DEF T
    <2>9. FlattenSeq(seqs) = f[N]
      BY <1>7 DEF FlattenSeq, f, Body, N
    <2>. QED  BY <2>8, <2>9
  <1>8. FlattenSeq(seqs) = g[N]
    <2>1. CASE N = 0
      <3>1. seqs = <<>>
        BY <2>1 DEF N
      <3>2. FlattenSeq(seqs) = seqs
        BY <2>1 DEF FlattenSeq, N
      <3>. QED  BY <1>5, <2>1, <3>1, <3>2
    <2>. QED  BY <1>7, <2>1
  <1>. QED  BY <1>5, <1>6, <1>8 DEF N, Flattens

LEMMA FlattenAppend ==
    ASSUME NEW seqs \in Seq(Seq(Nat)), NEW s \in Seq(Nat)
    PROVE  /\ FlattenSeq(seqs) \in Seq(Nat)
           /\ FlattenSeq(Append(seqs, s)) = FlattenSeq(seqs) \o s
  <1>. DEFINE all == Append(seqs, s)
              N == Len(seqs)
  <1>1. /\ N \in Nat /\ all \in Seq(Seq(Nat)) /\ Len(all) = N + 1 /\ all[N + 1] = s
        /\ \A i \in 1..N : all[i] = seqs[i]
    BY AppendProperties
  <1>. HIDE DEF all
  <1>2. PICK g \in [0..N -> Seq(Nat)] : Flattens(g, seqs)
    BY FlattenSteps
  <1>3. PICK h \in [0..Len(all) -> Seq(Nat)] : Flattens(h, all)
    BY <1>1, FlattenSteps
  <1>. HIDE DEF N
  <1>4. /\ g[0] = <<>> /\ h[0] = <<>>
        /\ \A i \in 1..N : g[i] = g[i - 1] \o seqs[i]
        /\ \A i \in 1..(N + 1) : h[i] = h[i - 1] \o all[i]
        /\ FlattenSeq(seqs) = g[N] /\ FlattenSeq(all) = h[N + 1]
    BY <1>1, <1>2, <1>3 DEF Flattens, N
  <1>5. g[N] = h[N]
    <2>. DEFINE T == {n \in 0..N : g[n] = h[n]}
    <2>1. 0 \in T
      BY <1>1, <1>4
    <2>2. ASSUME NEW n \in 0..N, n + 1 <= N, n \in T
          PROVE  n + 1 \in T
      <3>1. n + 1 \in 1..N /\ n + 1 \in 1..(N + 1) /\ (n + 1) - 1 = n /\ g[n] = h[n]
        BY <1>1, <2>2
      <3>2. g[n + 1] = g[n] \o seqs[n + 1] /\ h[n + 1] = h[n] \o all[n + 1]
        BY <1>4, <3>1
      <3>3. all[n + 1] = seqs[n + 1]
        BY <1>1, <3>1
      <3>4. g[n + 1] = h[n + 1]
        BY <3>1, <3>2, <3>3, Zenon
      <3>. QED  BY <1>1, <3>1, <3>4
    <2>. HIDE DEF T
    <2>3. \A n \in 0..N : n \in T
      BY <1>1, <2>1, <2>2, Data!CountingUp
    <2>. QED  BY <1>1, <2>3 DEF T
  <1>6. N + 1 \in 1..(N + 1) /\ (N + 1) - 1 = N /\ N \in 0..N
    BY <1>1
  <1>7. h[N + 1] = h[N] \o all[N + 1]
    BY <1>4, <1>6
  <1>8. g[N] \in Seq(Nat)
    BY <1>2, <1>6
  <1>. QED  BY <1>1, <1>4, <1>5, <1>7, <1>8 DEF all

LEMMA ChunksFlatten ==
    ASSUME NEW chunks \in Seq(ChunkRecord), NEW chunk \in ChunkRecord
    PROVE  /\ FramesOf(chunks) \in Seq(Nat)
           /\ FramesOf(Append(chunks, chunk)) = FramesOf(chunks) \o chunk.frames
  <1>. DEFINE all == Append(chunks, chunk)
              seqs == [i \in DOMAIN chunks |-> chunks[i].frames]
              more == [i \in DOMAIN all |-> all[i].frames]
  <1>1. /\ all \in Seq(ChunkRecord) /\ Len(all) = Len(chunks) + 1 /\ all[Len(chunks) + 1] = chunk
        /\ \A i \in 1..Len(chunks) : all[i] = chunks[i]
        /\ Len(chunks) \in Nat /\ DOMAIN chunks = 1..Len(chunks) /\ DOMAIN all = 1..(Len(chunks) + 1)
    BY AppendProperties, LenProperties
  <1>. HIDE DEF all
  <1>2. ASSUME NEW i \in 1..Len(chunks)
        PROVE  chunks[i].frames \in Seq(Nat)
    <2>1. chunks[i] \in ChunkRecord
      BY ElementOfSeq
    <2>. QED  BY ONLY <2>1 DEF ChunkRecord
  <1>3. chunk.frames \in Seq(Nat)
    BY DEF ChunkRecord
  <1>4. seqs \in Seq(Seq(Nat)) /\ Len(seqs) = Len(chunks)
    BY <1>1, <1>2
  <1>5. Append(seqs, chunk.frames) = more
    <2>1. /\ Append(seqs, chunk.frames) \in Seq(Seq(Nat))
          /\ Len(Append(seqs, chunk.frames)) = Len(chunks) + 1
          /\ \A i \in 1..Len(chunks) : Append(seqs, chunk.frames)[i] = seqs[i]
          /\ Append(seqs, chunk.frames)[Len(chunks) + 1] = chunk.frames
      BY <1>3, <1>4, AppendProperties
    <2>2. more \in Seq(Seq(Nat)) /\ Len(more) = Len(chunks) + 1
      BY <1>1, <1>2, <1>3
    <2>3. ASSUME NEW i \in 1..(Len(chunks) + 1)
          PROVE  Append(seqs, chunk.frames)[i] = more[i]
      <3>1. CASE i = Len(chunks) + 1
        BY <1>1, <2>1, <3>1
      <3>2. CASE i \in 1..Len(chunks)
        BY <1>1, <2>1, <3>2
      <3>. QED  BY <1>1, <3>1, <3>2
    <2>. HIDE DEF seqs, more
    <2>. QED  BY <2>1, <2>2, <2>3, SeqEqual
  <1>. HIDE DEF seqs, more
  <1>6. FlattenSeq(seqs) \in Seq(Nat) /\ FlattenSeq(more) = FlattenSeq(seqs) \o chunk.frames
    BY <1>3, <1>4, <1>5, FlattenAppend
  <1>. QED  BY <1>6 DEF FramesOf, seqs, more, all

LEMMA NoChunks == FramesOf(<<>>) = <<>>
  BY DEF FramesOf, FlattenSeq

-----------------------------------------------------------------------------
(***************************************************************************)
(* What the loop over whole blocks takes, and what it leaves.              *)
(***************************************************************************)

LEMMA Division ==
    \A n \in Nat : /\ n \div BlockFrames \in Nat
                   /\ (n \div BlockFrames) * BlockFrames \in 0..n
                   /\ n < (n \div BlockFrames) * BlockFrames + BlockFrames
  BY FormatAssumption

LEMMA Multiples ==
    \A n \in Nat : \A k \in 1..(n \div BlockFrames) :
        (k - 1) * BlockFrames \in 0..n /\ k * BlockFrames \in 0..n
  <1>. SUFFICES ASSUME NEW n \in Nat, NEW k \in 1..(n \div BlockFrames)
                PROVE  (k - 1) * BlockFrames \in 0..n /\ k * BlockFrames \in 0..n
    OBVIOUS
  <1>1. n \div BlockFrames \in Nat /\ (n \div BlockFrames) * BlockFrames <= n /\ BlockFrames \in Nat
    BY Division, FormatAssumption
  <1>2. k \in Nat /\ k - 1 \in Nat /\ k <= n \div BlockFrames
    BY <1>1
  <1>3. \A p, q \in Nat : p <= q => p * BlockFrames \in Nat /\ p * BlockFrames <= q * BlockFrames
    BY FormatAssumption
  <1>. QED  BY <1>1, <1>2, <1>3

LEMMA BlocksTaken ==
    ASSUME NEW frames \in Seq(Nat)
    PROVE  /\ Taken(frames) \in Seq(Nat) /\ Left(frames) \in Seq(Nat)
           /\ Taken(frames) \o Left(frames) = frames
           /\ Len(Left(frames)) < BlockFrames
  <1>. DEFINE w == WholeBlocks(frames)
  <1>1. w \in 0..Len(frames) /\ Len(frames) < w + BlockFrames /\ Len(frames) \in Nat
    BY Division DEF WholeBlocks
  <1>. HIDE DEF w
  <1>2. SubSeq(frames, 1, w) \in Seq(Nat)
    BY <1>1, SubSeqProperties
  <1>3. SubSeq(frames, w + 1, Len(frames)) \in Seq(Nat)
        /\ Len(SubSeq(frames, w + 1, Len(frames))) = Len(frames) - w
    BY <1>1, SubSeqProperties
  <1>4. SubSeq(frames, 1, w) \o SubSeq(frames, w + 1, Len(frames)) = SubSeq(frames, 1, Len(frames))
    <2>1. 1 \in 1..(Len(frames) + 1) /\ w \in (1 - 1)..Len(frames) /\ Len(frames) \in w..Len(frames)
      BY <1>1
    <2>. QED  BY <2>1, ConcatAdjacentSubSeq
  <1>5. SubSeq(frames, 1, Len(frames)) = frames
    BY SubSeqFull
  <1>6. BlockFrames \in Nat
    BY FormatAssumption
  <1>7. /\ Taken(frames) = SubSeq(frames, 1, w)
        /\ Left(frames) = SubSeq(frames, w + 1, Len(frames))
    BY DEF Taken, Left, w
  <1>8. Len(frames) - w < BlockFrames
    BY <1>1, <1>6
  <1>. QED  BY <1>2, <1>3, <1>4, <1>5, <1>7, <1>8

\* The frames captured after the first b, up to the first c.
Run(b, c) == [i \in 1..(c - b) |-> b + i]

LEMMA RunGrows ==
    ASSUME NEW c \in Nat, NEW b \in 0..c, NEW len \in Nat
    PROVE  /\ Run(b, c) \in Seq(Nat) /\ Run(c, c) = <<>>
           /\ [i \in 1..len |-> c + i] \in Seq(Nat)
           /\ Run(b, c) \o [i \in 1..len |-> c + i] = Run(b, c + len)
  <1>. DEFINE s == Run(b, c)
              t == [i \in 1..len |-> c + i]
              u == Run(b, c + len)
  <1>1. s \in Seq(Nat) /\ Len(s) = c - b /\ \A i \in 1..(c - b) : s[i] = b + i
    BY DEF Run
  <1>2. t \in Seq(Nat) /\ Len(t) = len /\ \A i \in 1..len : t[i] = c + i
    OBVIOUS
  <1>3. u \in Seq(Nat) /\ Len(u) = c - b + len /\ \A i \in 1..(c - b + len) : u[i] = b + i
    BY DEF Run
  <1>4. Run(c, c) = <<>>
    BY DEF Run
  <1>. HIDE DEF s, t, u
  <1>5. s \o t \in Seq(Nat) /\ Len(s \o t) = c - b + len
        /\ \A i \in 1..(c - b + len) : (s \o t)[i] = IF i <= c - b THEN s[i] ELSE t[i - (c - b)]
    <2>1. c - b \in Nat
      OBVIOUS
    <2>2. /\ s \o t \in Seq(Nat) /\ Len(s \o t) = Len(s) + Len(t)
          /\ \A i \in 1..(Len(s) + Len(t)) : (s \o t)[i] = IF i <= Len(s) THEN s[i] ELSE t[i - Len(s)]
      BY <1>1, <1>2, ConcatProperties
    <2>. QED  BY ONLY <1>1, <1>2, <2>1, <2>2
  <1>6. ASSUME NEW i \in 1..(c - b + len)
        PROVE  (s \o t)[i] = u[i]
    <2>1. CASE i <= c - b
      BY <1>1, <1>3, <1>5, <2>1
    <2>2. CASE i > c - b
      <3>1. i - (c - b) \in 1..len
        BY <2>2
      <3>2. t[i - (c - b)] = c + (i - (c - b))
        BY <1>2, <3>1
      <3>. QED  BY <1>3, <1>5, <2>2, <3>2
    <2>3. i <= c - b \/ i > c - b
      OBVIOUS
    <2>. QED  BY <2>1, <2>2, <2>3
  <1>7. s \o t = u
    BY <1>3, <1>5, <1>6, SeqEqual
  <1>. QED  BY <1>1, <1>2, <1>4, <1>7 DEF s, t, u

-----------------------------------------------------------------------------
(***************************************************************************)
(* A chunk is converted.                                                   *)
(***************************************************************************)

RateRecord == [rate : Nat, channels : Nat, history : Seq(Nat), pending : Seq(Nat)]

LEMMA FormatFields ==
    \A format \in Formats :
        /\ format # NoFormat /\ format.rate \in Nat /\ WorkingChannels(format) \in Nat
  <1>. TAKE format \in Formats
  <1>1. format.rate \in Rates /\ format.channels \in ChannelCounts
    BY DEF Formats
  <1>2. format.rate \in Nat \ {0} /\ format.channels \in Nat
    BY <1>1, FormatAssumption
  <1>3. NoFormat.rate = 0
    BY DEF NoFormat
  <1>. QED  BY <1>2, <1>3 DEF WorkingChannels

LEMMA RateCleared ==
    ASSUME NEW rate \in RateRecord, NEW none \in Seq(Nat)
    PROVE  LET r == [rate EXCEPT !.history = none, !.pending = none]
           IN  r \in RateRecord /\ r.history = none /\ r.pending = none
  BY DEF RateRecord

LEMMA RecordFields ==
    \A frames, after \in Seq(Nat) :
        /\ [frames |-> frames, after |-> after] \in ChunkRecord
        /\ [frames |-> frames, after |-> after].frames = frames
        /\ [frames |-> frames, after |-> after].after = after
        /\ <<>> \in Seq(Nat)
  BY DEF ChunkRecord

LEMMA RateFields ==
    ASSUME NEW rate \in RateRecord, NEW format \in Formats
    PROVE  /\ NoRate \in RateRecord
           /\ Forgotten(rate) \in RateRecord
           /\ Forgotten(rate).history = <<>> /\ Forgotten(rate).pending = <<>>
           /\ NewRate(format) \in RateRecord
           /\ NewRate(format).history = <<>> /\ NewRate(format).pending = <<>>
           /\ NewRate(format).rate = format.rate
           /\ NewRate(format).channels = WorkingChannels(format)
           /\ Matching(rate, format) \in RateRecord
           /\ Matching(rate, format).rate = format.rate
           /\ Matching(rate, format).channels = WorkingChannels(format)
           /\ Matching(rate, format) = rate \/ Matching(rate, format) = NewRate(format)
  <1>0. <<>> \in Seq(Nat)
    OBVIOUS
  <1>1. NoRate \in RateRecord
    BY <1>0 DEF NoRate, RateRecord
  <1>2. /\ Forgotten(rate) \in RateRecord
        /\ Forgotten(rate).history = <<>> /\ Forgotten(rate).pending = <<>>
    BY <1>0, RateCleared DEF Forgotten
  <1>3. /\ NewRate(format) \in RateRecord
        /\ NewRate(format).history = <<>> /\ NewRate(format).pending = <<>>
        /\ NewRate(format).rate = format.rate
        /\ NewRate(format).channels = WorkingChannels(format)
    <2>1. format.rate \in Nat /\ WorkingChannels(format) \in Nat
      BY FormatFields
    <2>2. NoRate.history = <<>> /\ NoRate.pending = <<>>
      BY DEF NoRate
    <2>3. /\ NewRate(format) \in RateRecord /\ NewRate(format).history = NoRate.history
          /\ NewRate(format).pending = NoRate.pending
          /\ NewRate(format).rate = format.rate /\ NewRate(format).channels = WorkingChannels(format)
      <3>. DEFINE hz == format.rate
                  channels == WorkingChannels(format)
                  r == NewRate(format)
      <3>1. r = [NoRate EXCEPT !.rate = hz, !.channels = channels]
        BY DEF NewRate
      <3>2. hz \in Nat /\ channels \in Nat
        BY <2>1
      <3>. HIDE DEF hz, channels, r
      <3>3. /\ r \in RateRecord /\ r.history = NoRate.history /\ r.pending = NoRate.pending
            /\ r.rate = hz /\ r.channels = channels
        BY ONLY <1>1, <3>1, <3>2 DEF RateRecord
      <3>. QED  BY <3>3 DEF hz, channels, r
    <2>. QED  BY <2>2, <2>3
  <1>. QED  BY <1>1, <1>2, <1>3 DEF Matching

\* What a session has emitted, of which the filter saw at each chunk what came before it.
Chained(chunks) == \A i \in DOMAIN chunks : chunks[i].after = FramesOf(SubSeq(chunks, 1, i - 1))

LEMMA ChainGrows ==
    ASSUME NEW chunks \in Seq(ChunkRecord), NEW chunk \in ChunkRecord,
           Chained(chunks), chunk.after = FramesOf(chunks)
    PROVE  Chained(Append(chunks, chunk))
  <1>. DEFINE all == Append(chunks, chunk)
              n == Len(chunks)
  <1>1. /\ all \in Seq(ChunkRecord) /\ Len(all) = n + 1 /\ all[n + 1] = chunk
        /\ \A i \in 1..n : all[i] = chunks[i]
        /\ n \in Nat /\ DOMAIN chunks = 1..n /\ DOMAIN all = 1..(n + 1)
    BY AppendProperties, LenProperties
  <1>2. ASSUME NEW i \in 1..(n + 1)
        PROVE  SubSeq(all, 1, i - 1) = SubSeq(chunks, 1, i - 1)
    <2>1. 1 \in Int /\ i - 1 \in Int /\ i - 1 <= n
      BY <1>1
    <2>2. \A j \in 1..(i - 1) : all[j] = chunks[j] /\ chunks[j] \in ChunkRecord
      BY <1>1, <2>1, ElementOfSeq
    <2>. HIDE DEF all, n
    <2>3. /\ SubSeq(all, 1, i - 1) \in Seq(ChunkRecord) /\ SubSeq(chunks, 1, i - 1) \in Seq(ChunkRecord)
          /\ Len(SubSeq(all, 1, i - 1)) = Len(SubSeq(chunks, 1, i - 1))
      BY <2>1, <2>2, SubSeqProperties
    <2>4. Len(SubSeq(chunks, 1, i - 1)) = i - 1
      BY <2>1, <2>2, SubSeqProperties
    <2>5. \A j \in 1..(i - 1) : SubSeq(all, 1, i - 1)[j] = SubSeq(chunks, 1, i - 1)[j]
      BY <2>1, <2>2
    <2>. QED  BY <2>3, <2>4, <2>5, SeqEqual
  <1>. HIDE DEF all
  <1>3. SubSeq(chunks, 1, n) = chunks
    BY SubSeqFull
  <1>. HIDE DEF n
  <1>4. ASSUME NEW i \in 1..(n + 1)
        PROVE  all[i].after = FramesOf(SubSeq(all, 1, i - 1))
    <2>1. CASE i = n + 1
      <3>1. i - 1 = n
        BY <1>1, <2>1
      <3>. QED  BY <1>1, <1>2, <1>3, <2>1, <3>1
    <2>2. CASE i \in 1..n
      BY <1>1, <1>2, <2>2 DEF Chained
    <2>. QED  BY <1>1, <2>1, <2>2
  <1>. QED  BY <1>1, <1>4 DEF Chained, all

\* A chunk goes on with the session of its format, or begins one.
LEMMA SessionGoesOn ==
    ASSUME ResamplerInv, NEW format \in Formats, NEW len \in ChunkLengths, Captures(format, len)
    PROVE  /\ Prepared(format) \in RateRecord
           /\ session' \in [before : 0..captured, sent : Seq(ChunkRecord)]
           /\ FramesOf(session'.sent) \o Prepared(format).pending = Run(session'.before, captured)
           /\ Len(Prepared(format).pending) < BlockFrames
           /\ Passes(format) => Prepared(format).history = <<>> /\ Prepared(format).pending = <<>>
           /\ ~Passes(format) =>
                /\ Matching(Prepared(format), format).pending = Prepared(format).pending
                /\ Matching(Prepared(format), format).history = FramesOf(session'.sent)
                /\ Chained(session'.sent)
  <1>1. /\ emission = "idle" /\ captured \in Nat /\ rateState \in RateRecord /\ format # NoFormat
        /\ session' = IF currentInput \in {NoFormat, format} THEN session ELSE NewSession(captured)
    BY FormatFields DEF Captures, ResamplerInv, ResamplerType, RateRecord
  <1>2. CASE currentInput = format
    <2>1. session' = session /\ Prepared(format) = rateState /\ Chunks = session.sent
      BY <1>1, <1>2 DEF Prepared, Chunks
    <2>2. session \in [before : 0..captured, sent : Seq(ChunkRecord)]
      BY DEF ResamplerInv, ResamplerType
    <2>3. /\ FramesOf(session.sent) \o rateState.pending = Run(session.before, captured)
          /\ Len(rateState.pending) < BlockFrames
          /\ ~Passes(format) => Chained(session.sent)
      BY <1>1, <1>2, <2>1 DEF ResamplerInv, SessionsAreIndependent, Run, Chained
    <2>4. /\ Passes(format) => rateState.history = <<>> /\ rateState.pending = <<>>
          /\ ~Passes(format) => /\ Matching(rateState, format) = rateState
                                /\ rateState.history = FramesOf(session.sent)
      BY <1>1, <1>2, <2>1 DEF ResamplerInv, FilterFollowsSession, Filtering, Matching
    <2>. QED  BY <1>1, <2>1, <2>2, <2>3, <2>4
  <1>3. CASE currentInput # format
    <2>1. session' = NewSession(captured) /\ Prepared(format) = Forgotten(rateState)
      BY <1>1, <1>3 DEF Prepared, ResamplerInv, FilterFollowsSession
    <2>2. /\ session' \in [before : 0..captured, sent : Seq(ChunkRecord)]
          /\ session'.sent = <<>> /\ session'.before = captured
      <3>1. captured \in 0..captured /\ <<>> \in Seq(ChunkRecord)
        BY <1>1
      <3>. QED  BY ONLY <2>1, <3>1 DEF NewSession
    <2>3. /\ Forgotten(rateState) \in RateRecord
          /\ Forgotten(rateState).history = <<>> /\ Forgotten(rateState).pending = <<>>
      BY <1>1, RateFields
    <2>4. /\ Matching(Forgotten(rateState), format).history = <<>>
          /\ Matching(Forgotten(rateState), format).pending = <<>>
      <3>. DEFINE rate == Forgotten(rateState)
      <3>1. rate \in RateRecord
        BY <2>3
      <3>. HIDE DEF rate
      <3>2. /\ Matching(rate, format) = rate \/ Matching(rate, format) = NewRate(format)
            /\ NewRate(format).history = <<>> /\ NewRate(format).pending = <<>>
        BY <3>1, RateFields
      <3>. QED  BY <2>3, <3>2 DEF rate
    <2>5. Len(<<>>) < BlockFrames /\ <<>> \o <<>> = <<>> /\ Run(captured, captured) = <<>>
      BY <1>1, FormatAssumption, RunGrows
    <2>6. Chained(<<>>)
      BY DEF Chained
    <2>. QED  BY <2>1, <2>2, <2>3, <2>4, <2>5, <2>6, NoChunks
  <1>. QED  BY <1>2, <1>3

\* decide_data: what the chunk makes of the session, and what it leaves for the next.
LEMMA ConvertKeeps ==
    ASSUME ResamplerInv, DecideAudio
    PROVE  ResamplerInv'
  <1>1. PICK format \in Formats, len \in ChunkLengths :
          Captures(format, len) /\ Convert(format, [i \in 1..len |-> captured + i])
    BY DEF DecideAudio
  <1>. DEFINE frames   == [i \in 1..len |-> captured + i]
              prepared == Prepared(format)
              state    == IF Passes(format) THEN prepared ELSE Matching(prepared, format)
              waiting  == state.pending \o frames
              chunk    == IF Passes(format) THEN [frames |-> frames, after |-> <<>>]
                          ELSE [frames |-> Taken(waiting), after |-> state.history]
              rest     == IF Passes(format) THEN <<>> ELSE Left(waiting)
              emitted     == session'.sent
              before   == session'.before
  <1>2. /\ emission = "idle" /\ captured \in Nat /\ len \in Nat
        /\ captured' = captured + len /\ currentInput' = format /\ format # NoFormat
    BY <1>1, FormatAssumption, FormatFields DEF Captures, ResamplerInv, ResamplerType
  <1>3. /\ rateState' = IF Passes(format) THEN state
                        ELSE [state EXCEPT !.history = @ \o Taken(waiting), !.pending = Left(waiting)]
        /\ IF Sends(format, chunk.frames)
             THEN emission' = "sending" /\ converted' = chunk
             ELSE emission' = "idle" /\ converted' = converted
    BY <1>1, <1>2 DEF Convert
  <1>4. /\ prepared \in RateRecord /\ before \in 0..captured /\ emitted \in Seq(ChunkRecord)
        /\ session' = [before |-> before, sent |-> emitted]
        /\ FramesOf(emitted) \o prepared.pending = Run(before, captured)
        /\ Len(prepared.pending) < BlockFrames
        /\ Passes(format) => prepared.history = <<>> /\ prepared.pending = <<>>
        /\ ~Passes(format) => /\ Matching(prepared, format).pending = prepared.pending
                              /\ Matching(prepared, format).history = FramesOf(emitted)
                              /\ Chained(emitted)
    BY <1>1, SessionGoesOn
  <1>5. /\ state \in RateRecord /\ state.pending = prepared.pending
        /\ ~Passes(format) => state.rate = format.rate /\ state.channels = WorkingChannels(format)
                              /\ state.history = FramesOf(emitted)
    BY <1>4, RateFields
  <1>6. /\ frames \in Seq(Nat) /\ Len(frames) = len
        /\ Run(before, captured) \o frames = Run(before, captured + len)
        /\ Run(before, captured + len) \in Seq(Nat)
    <2>1. len \in Nat /\ captured + len \in Nat /\ before \in 0..(captured + len)
      BY <1>2, <1>4
    <2>2. Run(before, captured + len) \in Seq(Nat)
      BY <2>1, RunGrows
    <2>3. frames \in Seq(Nat) /\ Run(before, captured) \o frames = Run(before, captured + len)
      BY <1>2, <1>4, <2>1, RunGrows
    <2>4. Len(frames) = len
      BY <2>1
    <2>. QED  BY <2>2, <2>3, <2>4
  <1>7. state.pending \in Seq(Nat) /\ state.history \in Seq(Nat) /\ FramesOf(emitted) \in Seq(Nat)
    <2>1. FramesOf(emitted) \in Seq(Nat)
      <3>1. [frames |-> <<>>, after |-> <<>>] \in ChunkRecord
        BY DEF ChunkRecord
      <3>. QED  BY <1>4, <3>1, ChunksFlatten
    <2>. HIDE DEF state
    <2>. QED  BY <1>5, <2>1 DEF RateRecord
  <1>. HIDE DEF frames, prepared, state, emitted, before
  <1>8. /\ waiting \in Seq(Nat)
        /\ Taken(waiting) \in Seq(Nat) /\ Left(waiting) \in Seq(Nat)
        /\ Taken(waiting) \o Left(waiting) = waiting /\ Len(Left(waiting)) < BlockFrames
    BY <1>6, <1>7, ConcatProperties, BlocksTaken
  <1>9. /\ chunk \in ChunkRecord /\ rest \in Seq(Nat) /\ Len(rest) < BlockFrames
        /\ chunk.frames \in Seq(Nat)
        /\ state.pending \o frames = chunk.frames \o rest
        /\ ~Passes(format) => chunk.after = FramesOf(emitted) /\ rest = Left(waiting) /\ chunk.frames = Taken(waiting)
        /\ Passes(format) => rest = <<>>
    <2>1. CASE Passes(format)
      <3>1. chunk = [frames |-> frames, after |-> <<>>] /\ rest = <<>>
        BY <2>1
      <3>2. chunk.frames = frames /\ chunk \in ChunkRecord
        BY <1>6, <3>1, RecordFields
      <3>3. state.pending = <<>> /\ <<>> \o frames = frames /\ frames \o <<>> = frames
        BY <1>4, <1>5, <1>6, <2>1, ConcatEmptySeq
      <3>4. Len(<<>>) < BlockFrames /\ <<>> \in Seq(Nat)
        BY FormatAssumption
      <3>. QED  BY <1>6, <2>1, <3>1, <3>2, <3>3, <3>4
    <2>2. CASE ~Passes(format)
      <3>1. chunk = [frames |-> Taken(waiting), after |-> state.history] /\ rest = Left(waiting)
        BY <2>2
      <3>2. chunk.frames = Taken(waiting) /\ chunk.after = state.history /\ chunk \in ChunkRecord
        BY <1>7, <1>8, <3>1, RecordFields
      <3>. QED  BY <1>5, <1>8, <2>2, <3>1, <3>2
    <2>. QED  BY <2>1, <2>2
  <1>. HIDE DEF chunk, rest
  <1>10. /\ rateState' \in RateRecord /\ rateState'.pending = rest
         /\ ~Passes(format) => /\ rateState'.rate = format.rate
                               /\ rateState'.channels = WorkingChannels(format)
                               /\ rateState'.history = FramesOf(emitted) \o chunk.frames
         /\ Passes(format) => rateState'.history = <<>>
    <2>1. CASE Passes(format)
      BY <1>3, <1>4, <1>5, <1>9, <2>1 DEF state
    <2>2. CASE ~Passes(format)
      <3>1. rateState' = [state EXCEPT !.history = state.history \o Taken(waiting), !.pending = Left(waiting)]
        BY <1>3, <2>2
      <3>2. state.history \o Taken(waiting) \in Seq(Nat)
        BY <1>7, <1>8, ConcatProperties
      <3>3. /\ rateState' \in RateRecord /\ rateState'.pending = Left(waiting)
            /\ rateState'.history = state.history \o Taken(waiting)
            /\ rateState'.rate = state.rate /\ rateState'.channels = state.channels
        <4>. DEFINE seen == state.history \o Taken(waiting)
                    left == Left(waiting)
                    r == rateState'
        <4>1. r = [state EXCEPT !.history = seen, !.pending = left]
          BY <3>1
        <4>2. seen \in Seq(Nat) /\ left \in Seq(Nat)
          BY <1>8, <3>2
        <4>. HIDE DEF seen, left, r
        <4>3. /\ r \in RateRecord /\ r.pending = left /\ r.history = seen
              /\ r.rate = state.rate /\ r.channels = state.channels
          BY ONLY <1>5, <4>1, <4>2 DEF RateRecord
        <4>. QED  BY <4>3 DEF seen, left, r
      <3>. QED  BY <1>5, <1>9, <2>2, <3>3
    <2>. QED  BY <2>1, <2>2
  <1>11. (FramesOf(emitted) \o chunk.frames) \o rest = Run(before, captured + len)
    <2>0. \A s, t, u \in Seq(Nat) : (s \o t) \o u = s \o (t \o u)
      BY Associates
    <2>1. (FramesOf(emitted) \o chunk.frames) \o rest = FramesOf(emitted) \o (chunk.frames \o rest)
      BY <1>7, <1>9, <2>0
    <2>2. FramesOf(emitted) \o (state.pending \o frames) = (FramesOf(emitted) \o state.pending) \o frames
      BY <1>6, <1>7, <2>0
    <2>3. FramesOf(emitted) \o state.pending = Run(before, captured)
      BY <1>4, <1>5
    <2>. QED  BY <1>6, <1>9, <2>1, <2>2, <2>3, Zenon
  <1>12. /\ Chunks' \in Seq(ChunkRecord) /\ FramesOf(Chunks') = FramesOf(emitted) \o chunk.frames
         /\ ~Passes(format) => Chained(Chunks')
    <2>1. CASE Sends(format, chunk.frames)
      <3>1. Chunks' = Append(emitted, chunk)
        BY <1>3, <2>1 DEF Chunks, emitted, chunk
      <3>2. Append(emitted, chunk) \in Seq(ChunkRecord)
        BY <1>4, <1>9, AppendProperties
      <3>3. FramesOf(Append(emitted, chunk)) = FramesOf(emitted) \o chunk.frames
        BY <1>4, <1>9, ChunksFlatten
      <3>4. ~Passes(format) => Chained(Append(emitted, chunk))
        BY <1>4, <1>9, ChainGrows
      <3>. QED  BY <3>1, <3>2, <3>3, <3>4
    <2>2. CASE ~Sends(format, chunk.frames)
      <3>1. Chunks' = emitted /\ chunk.frames = <<>>
        BY <1>3, <2>2 DEF Chunks, emitted, chunk, Sends
      <3>2. FramesOf(emitted) \o <<>> = FramesOf(emitted)
        BY <1>7, ConcatEmptySeq
      <3>. QED  BY <1>4, <3>1, <3>2
    <2>. QED  BY <2>1, <2>2
  <1>13. ResamplerType'
    <2>1. converted' \in ChunkRecord /\ emission' \in {"idle", "sending"}
      BY <1>3, <1>9 DEF ResamplerInv, ResamplerType, chunk
    <2>2. captured' \in Nat /\ session' \in [before : 0..captured', sent : Seq(ChunkRecord)]
      BY <1>2, <1>4
    <2>. QED  BY <1>2, <1>10, <2>1, <2>2 DEF ResamplerType, RateRecord
  <1>14. SessionsAreIndependent'
    <2>1. FramesOf(Chunks') \o rateState'.pending = Run(session'.before, captured')
      BY <1>2, <1>10, <1>11, <1>12 DEF before
    <2>2. ~Passes(format) => \A i \in DOMAIN Chunks' : Chunks'[i].after = FramesOf(SubSeq(Chunks', 1, i - 1))
      BY <1>12 DEF Chained
    <2>. QED  BY <1>2, <1>9, <1>10, <2>1, <2>2 DEF SessionsAreIndependent, Run
  <1>15. FilterFollowsSession'
    BY <1>2, <1>9, <1>10, <1>12 DEF FilterFollowsSession, Filtering
  <1>. QED  BY <1>13, <1>14, <1>15 DEF ResamplerInv

\* A refused block: what the chunk was, the frames a session holds stay frames.
LEMMA FailureKeeps ==
    ASSUME ResamplerInv, DecideFails
    PROVE  ResamplerInv'
  <1>1. PICK format \in Formats, len \in ChunkLengths :
          /\ Captures(format, len)
          /\ LET state   == Matching(Prepared(format), format)
                 waiting == state.pending \o [i \in 1..len |-> captured + i]
             IN  \/ rateState' = Prepared(format)
                 \/ \E k \in 1..(Len(waiting) \div BlockFrames) :
                      rateState' = [state EXCEPT
                        !.history = @ \o SubSeq(waiting, 1, (k - 1) * BlockFrames),
                        !.pending = SubSeq(waiting, k * BlockFrames + 1, Len(waiting))]
    BY DEF DecideFails
  <1>2. emission' = "failing" /\ converted' = converted
    BY DEF DecideFails
  <1>. DEFINE state   == Matching(Prepared(format), format)
              frames  == [i \in 1..len |-> captured + i]
              waiting == state.pending \o frames
  <1>3. \/ rateState' = Prepared(format)
        \/ \E k \in 1..(Len(waiting) \div BlockFrames) :
             rateState' = [state EXCEPT
               !.history = state.history \o SubSeq(waiting, 1, (k - 1) * BlockFrames),
               !.pending = SubSeq(waiting, k * BlockFrames + 1, Len(waiting))]
    BY <1>1
  <1>4. /\ captured \in Nat /\ len \in Nat
        /\ captured' = captured + len /\ currentInput' = format
    BY <1>1, FormatAssumption DEF Captures, ResamplerInv, ResamplerType
  <1>5. /\ Prepared(format) \in RateRecord
        /\ session' \in [before : 0..captured, sent : Seq(ChunkRecord)]
    BY <1>1, SessionGoesOn
  <1>6. state \in RateRecord
    <2>. DEFINE prepared == Prepared(format)
    <2>1. prepared \in RateRecord
      BY <1>5
    <2>. HIDE DEF prepared
    <2>2. Matching(prepared, format) \in RateRecord
      BY <2>1, RateFields
    <2>. QED  BY <2>2 DEF prepared
  <1>7. frames \in Seq(Nat)
    BY <1>4
  <1>. HIDE DEF state, frames
  <1>8. waiting \in Seq(Nat) /\ Len(waiting) \in Nat /\ state.history \in Seq(Nat)
    <2>1. state.pending \in Seq(Nat) /\ state.history \in Seq(Nat)
      BY <1>6 DEF RateRecord
    <2>. QED  BY <1>7, <2>1, ConcatProperties, LenProperties
  <1>. HIDE DEF waiting
  <1>9. ASSUME NEW k \in 1..(Len(waiting) \div BlockFrames),
               rateState' = [state EXCEPT
                 !.history = state.history \o SubSeq(waiting, 1, (k - 1) * BlockFrames),
                 !.pending = SubSeq(waiting, k * BlockFrames + 1, Len(waiting))]
        PROVE  rateState' \in RateRecord
    <2>. DEFINE m == (k - 1) * BlockFrames
                n == k * BlockFrames
                used == SubSeq(waiting, 1, m)
                seen == state.history \o used
                left == SubSeq(waiting, n + 1, Len(waiting))
                r == rateState'
    <2>1. m \in 0..Len(waiting) /\ n \in 0..Len(waiting)
      BY <1>8, Multiples
    <2>2. r = [state EXCEPT !.history = seen, !.pending = left]
      BY <1>9
    <2>. HIDE DEF m, n, r
    <2>3. used \in Seq(Nat)
      BY <1>8, <2>1, SubSeqProperties
    <2>4. left \in Seq(Nat)
      BY <1>8, <2>1, SubSeqProperties
    <2>. HIDE DEF used, left
    <2>5. seen \in Seq(Nat)
      BY <1>8, <2>3, ConcatProperties
    <2>. HIDE DEF seen
    <2>6. r \in RateRecord
      BY ONLY <1>6, <2>2, <2>4, <2>5 DEF RateRecord
    <2>. QED  BY <2>6 DEF r
  <1>10. rateState' \in RateRecord
    BY <1>3, <1>5, <1>9
  <1>11. captured' \in Nat /\ session' \in [before : 0..captured', sent : Seq(ChunkRecord)]
    BY <1>4, <1>5
  <1>12. ResamplerType'
    BY <1>2, <1>4, <1>10, <1>11 DEF ResamplerInv, ResamplerType, RateRecord
  <1>. QED
    BY <1>2, <1>12 DEF ResamplerInv, SessionsAreIndependent, FilterFollowsSession

LEMMA NothingSent ==
    \A c \in Nat :
        /\ NewSession(c).before = c /\ NewSession(c).sent = <<>>
        /\ NewSession(c) \in [before : 0..c, sent : Seq(ChunkRecord)]
        /\ FramesOf(<<>>) \o <<>> = Run(c, c) /\ Len(<<>>) < BlockFrames
  <1>. TAKE c \in Nat
  <1>1. c \in 0..c /\ <<>> \in Seq(ChunkRecord) /\ <<>> \o <<>> = <<>>
    OBVIOUS
  <1>2. /\ NewSession(c).before = c /\ NewSession(c).sent = <<>>
        /\ NewSession(c) \in [before : 0..c, sent : Seq(ChunkRecord)]
    BY ONLY <1>1 DEF NewSession
  <1>3. Run(c, c) = <<>>
    BY RunGrows
  <1>4. Len(<<>>) < BlockFrames
    BY FormatAssumption
  <1>. QED  BY <1>1, <1>2, <1>3, <1>4, NoChunks

\* What perform sends was in line to be emitted.
LEMMA SentKeeps ==
    ASSUME ResamplerInv, PerformSends
    PROVE  ResamplerInv'
  <1>1. /\ emission = "sending" /\ emission' = "idle" /\ converted' = NoChunk
        /\ session' = [session EXCEPT !.sent = Append(@, converted)]
        /\ currentInput' = currentInput /\ rateState' = rateState /\ captured' = captured
    BY DEF PerformSends
  <1>2. /\ converted \in ChunkRecord
        /\ session \in [before : 0..captured, sent : Seq(ChunkRecord)]
    BY DEF ResamplerInv, ResamplerType
  <1>3. /\ session'.before = session.before /\ session'.sent = Append(session.sent, converted)
        /\ session' \in [before : 0..captured, sent : Seq(ChunkRecord)]
    <2>1. session.sent \in Seq(ChunkRecord) /\ session.before \in 0..captured
      BY <1>2
    <2>2. Append(session.sent, converted) \in Seq(ChunkRecord)
      BY <1>2, <2>1, AppendProperties
    <2>. QED  BY <1>1, <1>2, <2>1, <2>2
  <1>4. Chunks' = Chunks
    BY <1>1, <1>3 DEF Chunks
  <1>5. NoChunk \in ChunkRecord
    <2>1. <<>> \in Seq(Nat)
      OBVIOUS
    <2>. QED  BY ONLY <2>1 DEF NoChunk, ChunkRecord
  <1>6. currentInput # NoFormat
    BY <1>1 DEF ResamplerInv, FilterFollowsSession
  <1>7. ResamplerType'
    BY <1>1, <1>3, <1>5 DEF ResamplerInv, ResamplerType
  <1>8. SessionsAreIndependent'
    BY <1>1, <1>3, <1>4 DEF ResamplerInv, SessionsAreIndependent
  <1>9. FilterFollowsSession'
    BY <1>1, <1>4, <1>6 DEF ResamplerInv, FilterFollowsSession, Filtering
  <1>. QED  BY <1>7, <1>8, <1>9 DEF ResamplerInv

\* An Interrupt begins a session that holds nothing.
LEMMA ResetKeeps ==
    ASSUME ResamplerInv, ResetByInterrupt
    PROVE  ResamplerInv'
  <1>1. /\ emission' = "idle" /\ converted' = NoChunk /\ session' = NewSession(captured)
        /\ currentInput' = NoFormat /\ rateState' = Forgotten(rateState) /\ captured' = captured
    BY DEF ResetByInterrupt
  <1>2. captured \in Nat /\ rateState \in RateRecord
    BY DEF ResamplerInv, ResamplerType, RateRecord
  <1>3. /\ rateState' \in RateRecord /\ rateState'.history = <<>> /\ rateState'.pending = <<>>
    <2>. DEFINE none == <<>>
                r == rateState'
    <2>1. none \in Seq(Nat) /\ r = [rateState EXCEPT !.history = none, !.pending = none]
      BY <1>1 DEF Forgotten
    <2>. HIDE DEF none, r
    <2>2. r \in RateRecord /\ r.history = none /\ r.pending = none
      BY ONLY <1>2, <2>1 DEF RateRecord
    <2>. QED  BY <2>2 DEF none, r
  <1>4. /\ NewSession(captured).before = captured /\ NewSession(captured).sent = <<>>
        /\ NewSession(captured) \in [before : 0..captured, sent : Seq(ChunkRecord)]
    BY <1>2, NothingSent
  <1>5. ResamplerType'
    BY <1>1, <1>2, <1>3, <1>4, RecordFields DEF ResamplerType, RateRecord, NoChunk
  <1>6. Chunks' = <<>>
    BY <1>1, <1>4 DEF Chunks
  <1>7. SessionsAreIndependent'
    <2>1. /\ FramesOf(Chunks') \o rateState'.pending = Run(session'.before, captured')
          /\ Len(rateState'.pending) < BlockFrames
      BY <1>1, <1>2, <1>3, <1>4, <1>6, NothingSent
    <2>. QED  BY <1>1, <2>1 DEF SessionsAreIndependent, Run
  <1>8. FilterFollowsSession'
    BY <1>1, <1>3 DEF FilterFollowsSession, Filtering
  <1>. QED  BY <1>5, <1>7, <1>8 DEF ResamplerInv

LEMMA ResamplerBegins ==
    ASSUME ResamplerInit
    PROVE  ResamplerInv
  <1>1. /\ emission = "idle" /\ converted = NoChunk /\ session = NewSession(captured)
        /\ currentInput = NoFormat /\ rateState = NoRate /\ captured = 0 /\ captured \in Nat
    BY DEF ResamplerInit
  <1>2. /\ NewSession(captured).before = captured /\ NewSession(captured).sent = <<>>
        /\ NewSession(captured) \in [before : 0..captured, sent : Seq(ChunkRecord)]
    BY <1>1, NothingSent
  <1>3. rateState \in RateRecord /\ rateState.history = <<>> /\ rateState.pending = <<>>
    BY <1>1, RecordFields DEF NoRate, RateRecord
  <1>4. ResamplerType
    BY <1>1, <1>2, <1>3, RecordFields DEF ResamplerType, RateRecord, NoChunk
  <1>5. Chunks = <<>>
    BY <1>1, <1>2 DEF Chunks
  <1>6. SessionsAreIndependent
    <2>1. /\ FramesOf(Chunks) \o rateState.pending = Run(session.before, captured)
          /\ Len(rateState.pending) < BlockFrames
      BY <1>1, <1>2, <1>3, <1>5, NothingSent
    <2>. QED  BY <1>1, <2>1 DEF SessionsAreIndependent, Run
  <1>7. FilterFollowsSession
    BY <1>1, <1>3 DEF FilterFollowsSession, Filtering
  <1>. QED  BY <1>4, <1>6, <1>7 DEF ResamplerInv

\* ResamplerStage and its backend (pipecrab-audio): reset "must discard buffered input and
\* filter history so audio processed afterward is independent of audio processed before".
\* For every format, chunk length and block size, through refused blocks, torn frames and
\* Interrupts between any two steps: what a session has emitted and holds back is its own
\* frames, each once and in order, and at every chunk it converts the filter has seen what
\* the session emitted before it and nothing else.
THEOREM SessionsIndependent == ResamplerSpec => []SessionsAreIndependent
  <1>1. ResamplerInit => ResamplerInv
    BY ResamplerBegins
  <1>2. ResamplerInv /\ [ResamplerNext]_resamplerVars => ResamplerInv'
    <2>. SUFFICES ASSUME ResamplerInv, [ResamplerNext]_resamplerVars
                  PROVE  ResamplerInv'
      OBVIOUS
    <2>1. CASE DecideAudio
      BY <2>1, ConvertKeeps
    <2>2. CASE DecideFails
      BY <2>2, FailureKeeps
    <2>3. CASE RejectChunk \/ PerformFails
      BY <2>3 DEF RejectChunk, PerformFails, ResamplerInv, ResamplerType,
                  SessionsAreIndependent, FilterFollowsSession
    <2>4. CASE PerformSends
      BY <2>4, SentKeeps
    <2>5. CASE ResetByInterrupt
      BY <2>5, ResetKeeps
    <2>6. CASE UNCHANGED resamplerVars
      BY <2>6 DEF resamplerVars, ResamplerInv, ResamplerType, SessionsAreIndependent,
                  FilterFollowsSession, Filtering, Chunks
    <2>. QED  BY <2>1, <2>2, <2>3, <2>4, <2>5, <2>6 DEF ResamplerNext
  <1>3. ResamplerInv => SessionsAreIndependent
    BY DEF ResamplerInv
  <1>. QED  BY <1>1, <1>2, <1>3, PTL DEF ResamplerSpec
-----------------------------------------------------------------------------
(***************************************************************************)
(* The engines behind speech to text.  What the caller may rely on names   *)
(* the same operators as the engines do.                                   *)
(***************************************************************************)

Streams  == {s \in [open : BOOLEAN, audio : Seq(Session!Chunks)] : ~s.open => s.audio = <<>>}
Commands == [op : Session!Ops, generation : Nat, awaited : BOOLEAN]
EventRecords   == [final : {TRUE}, text : Seq(Session!Chunks)] \cup [final : {FALSE}, text : SUBSET Nat]
Answers  == [is : {"ok"}, events : Seq(EventRecords)] \cup {Protocol}
Workers  == [pc : {"idle", "decode", "reply", "dead"}, generation : Nat, stream : Streams,
             shown : SUBSET Nat, command : Commands \cup {NoCommand}, local : Streams, reply : Answers]

LEMMA OpFields ==
    \A op \in Session!Ops :
      /\ op.op \in {"begin", "feed", "end"}
      /\ op.op = "feed" => op.chunk \in Session!Chunks
  BY DEF Session!Ops

LEMMA FreshIs ==
    /\ NoStream = Session!Closed /\ NoStream \in Streams /\ Session!Opened(<<>>) \in Streams
    /\ NoStream.open = FALSE /\ NoStream.audio = <<>>
    /\ \A e : Session!Fresh(e) = IF e = "vad" THEN Session!Opened(<<>>) ELSE NoStream
    /\ \A e : Session!Fresh(e) \in Streams
  BY DEF NoStream, Session!Closed, Streams, Session!Opened, Session!Fresh

LEMMA OpenedIs ==
    \A audio \in Seq(Session!Chunks) :
      /\ Session!Opened(audio) \in Streams
      /\ Session!Opened(audio).open = TRUE /\ Session!Opened(audio).audio = audio
  BY DEF Streams, Session!Opened

LEMMA StreamIs ==
    \A s \in Streams :
      /\ s.open \in BOOLEAN /\ s.audio \in Seq(Session!Chunks)
      /\ s = IF s.open THEN Session!Opened(s.audio) ELSE NoStream
  BY DEF Streams, Session!Opened, NoStream

\* What each operation makes of a session.
LEMMA AfterIs ==
    \A s \in Streams, op \in Session!Ops :
      /\ Session!After(s, op) \in Streams
      /\ op.op = "begin" => Session!After(s, op) = IF s.open THEN s ELSE Session!Opened(<<>>)
      /\ op.op = "feed" => Session!After(s, op) = IF s.open THEN Session!Opened(Append(s.audio, op.chunk)) ELSE s
      /\ op.op = "end" => Session!After(s, op) = NoStream
  <1>. SUFFICES ASSUME NEW s \in Streams, NEW op \in Session!Ops
                PROVE  /\ Session!After(s, op) \in Streams
                       /\ op.op = "begin" => Session!After(s, op) = IF s.open THEN s ELSE Session!Opened(<<>>)
                       /\ op.op = "feed" => Session!After(s, op) = IF s.open THEN Session!Opened(Append(s.audio, op.chunk)) ELSE s
                       /\ op.op = "end" => Session!After(s, op) = NoStream
    OBVIOUS
  <1>1. op.op = "begin" => Session!After(s, op) = IF s.open THEN s ELSE Session!Opened(<<>>)
    BY DEF Session!After
  <1>2. op.op = "feed" => Session!After(s, op) = IF s.open THEN Session!Opened(Append(s.audio, op.chunk)) ELSE s
    BY DEF Session!After
  <1>3. op.op = "end" => Session!After(s, op) = NoStream
    BY DEF Session!After, Session!Closed, NoStream
  <1>4. op.op = "feed" => Session!Opened(Append(s.audio, op.chunk)) \in Streams
    <2>1. op.op = "feed" => Append(s.audio, op.chunk) \in Seq(Session!Chunks)
      BY OpFields, StreamIs
    <2>. QED  BY <2>1, OpenedIs
  <1>5. Session!After(s, op) \in Streams
    BY <1>1, <1>2, <1>3, <1>4, OpFields, FreshIs
  <1>. QED  BY <1>1, <1>2, <1>3, <1>5

\* What a call answers.
LEMMA AnswerIs ==
    \A e, s, op :
      /\ op.op = "begin" => Session!Answer(e, s, op) = IF s.open THEN Protocol ELSE Nothing
      /\ op.op = "end" => Session!Answer(e, s, op) = IF s.open THEN Session!Events(<<Session!Final(s.audio)>>) ELSE Protocol
      /\ op.op = "feed" /\ ~s.open => Session!Answer(e, s, op) = Protocol
      /\ op.op = "feed" /\ s.open => Session!Answer(e, s, op) =
           IF e \in {"online", "vad"} /\ Session!Heard(e, Append(s.audio, op.chunk)) # Session!Heard(e, s.audio)
             THEN Session!Events(<<Session!Partial(Session!Heard(e, Append(s.audio, op.chunk)))>>) ELSE Nothing
  BY DEF Session!Answer, Protocol, Nothing, Session!Reports

LEMMA PromiseIsSession ==
    /\ Promise!Engines = Engines /\ Promise!Ops = Session!Ops /\ Promise!NoCall = NoAnswer /\ Promise!Ok = Nothing
    /\ Promise!EngineFailed = Session!EngineFailed /\ Promise!Discarded = Nothing
    /\ \A e : Promise!Fresh(e) = Session!Fresh(e)
    /\ \A s, op : Promise!After(s, op) = Session!After(s, op)
    /\ \A e, s, op : Promise!Answer(e, s, op) = Session!Answer(e, s, op)
  <1>1. \A e, a : Promise!Heard(e, a) = Session!Heard(e, a)
    BY DEF Promise!Heard, Session!Heard, Promise!Voiced, Session!Voiced
  <1>2. \A e : Promise!Fresh(e) = Session!Fresh(e)
    BY DEF Promise!Fresh, Session!Fresh, Promise!Opened, Session!Opened, Promise!Closed, Session!Closed
  <1>3. \A s, op : Promise!After(s, op) = Session!After(s, op)
    BY DEF Promise!After, Session!After, Promise!Opened, Session!Opened, Promise!Closed, Session!Closed
  <1>4. \A e, s, op : Promise!Answer(e, s, op) = Session!Answer(e, s, op)
    BY <1>1 DEF Promise!Answer, Session!Answer, Promise!Protocol, Session!Protocol, Promise!Ok, Session!Ok,
       Promise!Events, Session!Events, Promise!Partial, Session!Partial, Promise!Final, Session!Final,
       Promise!Reports, Session!Reports
  <1>5. Promise!Ops = Session!Ops /\ Promise!Engines = Engines
    BY DEF Promise!Ops, Session!Ops, Promise!Chunks, Session!Chunks, Promise!Engines, Engines, Session!Engines
  <1>6. /\ Promise!NoCall = NoAnswer /\ Promise!Ok = Nothing
        /\ Promise!EngineFailed = Session!EngineFailed /\ Promise!Discarded = Nothing
    BY DEF Promise!NoCall, NoAnswer, Promise!Ok, Nothing, Session!Ok, Promise!EngineFailed, Session!EngineFailed,
       Promise!Discarded
  <1>. QED  BY <1>1, <1>2, <1>3, <1>4, <1>5, <1>6

-----------------------------------------------------------------------------
(***************************************************************************)
(* The session behind a queue of commands.                                 *)
(***************************************************************************)

\* What command c makes of session s, and the session before each command of cs.
Moved(s, c, g) == IF c.generation = g THEN Session!After(s, c.op) ELSE s
Track(cs, g, s) ==
    CHOOSE f : f = [i \in 1..(Len(cs) + 1) |-> IF i = 1 THEN s ELSE Moved(f[i - 1], cs[i - 1], g)]

Caught(cs, g, s) == Track(cs, g, s)[Len(cs) + 1]
Before(cs, g, s) == Track(cs, g, s)[Len(cs)]

LEMMA MovedType ==
    \A g : \A s \in Streams, c \in Commands : Moved(s, c, g) \in Streams
  BY AfterIs DEF Moved, Commands

\* Two sequences that take the same steps from the same start are the same.
SameStart(N, f, h) == f[1] = h[1] /\ \A i \in 1..N : f[i] = h[i] => f[i + 1] = h[i + 1]
SameAll(N, f, h)   == \A i \in 1..(N + 1) : f[i] = h[i]

LEMMA SameSteps ==
    \A f, h : \A N \in Nat : SameStart(N, f, h) => SameAll(N, f, h)
  <1>. SUFFICES ASSUME NEW N \in Nat, NEW f, NEW h, SameStart(N, f, h)
                PROVE  \A i \in 1..(N + 1) : f[i] = h[i]
    BY DEF SameAll
  <1>0. f[1] = h[1] /\ \A i \in 1..N : f[i] = h[i] => f[i + 1] = h[i + 1]
    BY DEF SameStart
  <1>. DEFINE T == {n \in 0..N : f[n + 1] = h[n + 1]}
  <1>1. 0 \in T
    BY <1>0
  <1>2. ASSUME NEW n \in 0..N, n + 1 <= N, n \in T
        PROVE  n + 1 \in T
    <2>1. n + 1 \in 1..N /\ f[n + 1] = h[n + 1]
      BY <1>2
    <2>2. f[(n + 1) + 1] = h[(n + 1) + 1]
      BY <1>0, <2>1
    <2>. QED  BY <1>2, <2>2
  <1>3. \A n \in 0..N : n \in T
    <2>. HIDE DEF T
    <2>. QED  BY <1>1, <1>2, Data!CountingUp
  <1>4. ASSUME NEW i \in 1..(N + 1)
        PROVE  f[i] = h[i]
    <2>1. i - 1 \in 0..N /\ (i - 1) + 1 = i
      OBVIOUS
    <2>. QED  BY <1>3, <2>1
  <1>. QED  BY <1>4

LEMMA StreamsIterate ==
    ASSUME NEW a \in Streams, NEW N \in Nat, NEW H \in [1..N -> [Streams -> Streams]]
    PROVE  \E g \in [0..N -> Streams] : g[0] = a /\ \A i \in 1..N : g[i] = H[i][g[i - 1]]
  BY Data!Iteration

LEMMA TrackSteps ==
    ASSUME NEW cs \in Seq(Commands), NEW g \in Nat, NEW s \in Streams
    PROVE  /\ Track(cs, g, s)[1] = s
           /\ \A i \in 1..Len(cs) : Track(cs, g, s)[i + 1] = Moved(Track(cs, g, s)[i], cs[i], g)
           /\ \A i \in 1..(Len(cs) + 1) : Track(cs, g, s)[i] \in Streams
  <1>. DEFINE N == Len(cs)
              Body(k) == [i \in 1..(N + 1) |-> IF i = 1 THEN s ELSE Moved(k[i - 1], cs[i - 1], g)]
              H == [i \in 1..N |-> [t \in Streams |-> Moved(t, cs[i], g)]]
              f == CHOOSE k : k = Body(k)
  <1>1. N \in Nat /\ \A i \in 1..N : cs[i] \in Commands
    OBVIOUS
  <1>2. \A i \in 1..N, t \in Streams : Moved(t, cs[i], g) \in Streams
    BY <1>1, MovedType
  <1>3. H \in [1..N -> [Streams -> Streams]]
    BY <1>2
  <1>4. \A i \in 1..N, t \in Streams : H[i][t] = Moved(t, cs[i], g)
    OBVIOUS
  <1>. HIDE DEF N, H
  <1>5. PICK k \in [0..N -> Streams] : k[0] = s /\ \A i \in 1..N : k[i] = H[i][k[i - 1]]
    BY <1>1, <1>3, StreamsIterate
  <1>. DEFINE h == [i \in 1..(N + 1) |-> k[i - 1]]
  <1>6. /\ h[1] = s /\ \A i \in 1..(N + 1) : h[i] \in Streams
        /\ \A i \in 1..N : h[i + 1] = Moved(h[i], cs[i], g)
    <2>1. h[1] = s
      BY <1>1, <1>5
    <2>2. ASSUME NEW i \in 1..(N + 1)
          PROVE  h[i] \in Streams
      <3>1. i - 1 \in 0..N
        BY <1>1
      <3>. QED  BY <1>5, <3>1
    <2>3. ASSUME NEW i \in 1..N
          PROVE  h[i + 1] = Moved(h[i], cs[i], g)
      <3>1. i - 1 \in 0..N /\ i \in 1..(N + 1) /\ i + 1 \in 1..(N + 1) /\ (i + 1) - 1 = i
        BY <1>1
      <3>2. k[i - 1] \in Streams /\ k[i] = H[i][k[i - 1]]
        BY <1>5, <3>1
      <3>. QED  BY <1>4, <3>1, <3>2
    <2>. QED  BY <2>1, <2>2, <2>3
  <1>7. h = Body(h)
    <2>1. ASSUME NEW i \in 1..(N + 1)
          PROVE  h[i] = IF i = 1 THEN s ELSE Moved(h[i - 1], cs[i - 1], g)
      <3>1. CASE i = 1
        BY <1>6, <3>1
      <3>2. CASE i /= 1
        <4>1. i - 1 \in 1..N /\ (i - 1) + 1 = i
          BY <1>1, <3>2
        <4>2. h[(i - 1) + 1] = Moved(h[i - 1], cs[i - 1], g)
          BY <1>6, <4>1
        <4>. HIDE DEF h
        <4>. QED  BY <3>2, <4>1, <4>2
      <3>. QED  BY <3>1, <3>2
    <2>. QED  BY <2>1
  <1>. HIDE DEF Body, h
  <1>8. f = Body(f)
    BY <1>7
  <1>. HIDE DEF f
  <1>9. \A i \in 1..(N + 1) : f[i] = IF i = 1 THEN s ELSE Moved(f[i - 1], cs[i - 1], g)
    BY <1>8 DEF Body
  <1>10. f[1] = s
    BY <1>1, <1>9
  <1>11. ASSUME NEW i \in 1..N
         PROVE  f[i + 1] = Moved(f[i], cs[i], g)
    <2>1. i + 1 \in 1..(N + 1) /\ i + 1 /= 1 /\ (i + 1) - 1 = i
      BY <1>1
    <2>. QED  BY <1>9, <2>1
  <1>12. \A i \in 1..N : f[i] = h[i] => f[i + 1] = h[i + 1]
    BY <1>6, <1>11
  <1>13. f[1] = h[1]
    BY <1>6, <1>10
  <1>14. \A i \in 1..(N + 1) : f[i] = h[i]
    <2>1. N \in Nat
      BY <1>1
    <2>2. SameStart(N, f, h)
      BY <1>12, <1>13 DEF SameStart
    <2>3. SameAll(N, f, h)
      BY <2>1, <2>2, SameSteps
    <2>. QED  BY <2>3 DEF SameAll
  <1>15. Track(cs, g, s) = f
    BY DEF Track, f, Body, N
  <1>. QED  BY <1>6, <1>10, <1>11, <1>14, <1>15 DEF N

\* The session before each command, as Caught and Before give it.
LEMMA CaughtIs ==
    ASSUME NEW cs \in Seq(Commands), NEW g \in Nat, NEW s \in Streams
    PROVE  /\ Caught(cs, g, s) \in Streams
           /\ cs = <<>> => Caught(cs, g, s) = s
           /\ cs # <<>> => /\ Before(cs, g, s) \in Streams
                           /\ Caught(cs, g, s) = Moved(Before(cs, g, s), cs[Len(cs)], g)
           /\ Len(cs) = 1 => Before(cs, g, s) = s
  <1>1. Len(cs) \in Nat /\ Len(cs) + 1 \in 1..(Len(cs) + 1)
    OBVIOUS
  <1>2. cs # <<>> => Len(cs) \in 1..Len(cs) /\ Len(cs) \in 1..(Len(cs) + 1)
    OBVIOUS
  <1>3. cs = <<>> => Len(cs) = 0
    OBVIOUS
  <1>. QED  BY <1>1, <1>2, <1>3, TrackSteps DEF Caught, Before

\* A command more.
LEMMA CaughtAppend ==
    ASSUME NEW cs \in Seq(Commands), NEW g \in Nat, NEW s \in Streams, NEW c \in Commands
    PROVE  /\ Caught(Append(cs, c), g, s) = Moved(Caught(cs, g, s), c, g)
           /\ Before(Append(cs, c), g, s) = Caught(cs, g, s)
  <1>. DEFINE N == Len(cs)
              ds == Append(cs, c)
              f == Track(cs, g, s)
              h == Track(ds, g, s)
  <1>1. /\ N \in Nat /\ ds \in Seq(Commands) /\ Len(ds) = N + 1 /\ ds[N + 1] = c
        /\ \A i \in 1..N : ds[i] = cs[i]
    OBVIOUS
  <1>. HIDE DEF ds
  <1>2. f[1] = s /\ \A i \in 1..N : f[i + 1] = Moved(f[i], cs[i], g)
    BY TrackSteps
  <1>3. h[1] = s /\ \A i \in 1..(N + 1) : h[i + 1] = Moved(h[i], ds[i], g)
    <2>1. h[1] = s /\ \A i \in 1..Len(ds) : h[i + 1] = Moved(h[i], ds[i], g)
      BY <1>1, TrackSteps
    <2>. QED  BY <1>1, <2>1
  <1>. HIDE DEF f, h, N
  <1>4. \A i \in 1..N : f[i] = h[i] => f[i + 1] = h[i + 1]
    BY <1>1, <1>2, <1>3
  <1>5. f[1] = h[1]
    BY <1>2, <1>3
  <1>0. N \in Nat
    BY <1>1
  <1>6. \A i \in 1..(N + 1) : f[i] = h[i]
    <2>1. SameStart(N, f, h)
      BY <1>4, <1>5 DEF SameStart
    <2>2. SameAll(N, f, h)
      BY <1>0, <2>1, SameSteps
    <2>. QED  BY <2>2 DEF SameAll
  <1>7. N + 1 \in 1..(N + 1)
    BY <1>1
  <1>8. h[N + 1] = f[N + 1] /\ h[(N + 1) + 1] = Moved(h[N + 1], c, g)
    BY <1>1, <1>3, <1>6, <1>7
  <1>. QED  BY <1>1, <1>8 DEF Caught, Before, f, h, N, ds

\* The worker takes the first.
LEMMA CaughtTail ==
    ASSUME NEW cs \in Seq(Commands), NEW g \in Nat, NEW s \in Streams, cs # <<>>
    PROVE  /\ Head(cs) \in Commands /\ Tail(cs) \in Seq(Commands)
           /\ Caught(Tail(cs), g, Moved(s, Head(cs), g)) = Caught(cs, g, s)
           /\ Tail(cs) # <<>> => Before(Tail(cs), g, Moved(s, Head(cs), g)) = Before(cs, g, s)
           /\ Tail(cs) = <<>> => Before(cs, g, s) = s /\ cs[Len(cs)] = Head(cs)
           /\ Tail(cs) # <<>> => Tail(cs)[Len(Tail(cs))] = cs[Len(cs)]
           /\ \A i \in 1..Len(Tail(cs)) : i + 1 \in 1..Len(cs) /\ Tail(cs)[i] = cs[i + 1]
           /\ Len(cs) = Len(Tail(cs)) + 1 /\ Head(cs) = cs[1]
  <1>. DEFINE N == Len(Tail(cs))
              ds == Tail(cs)
              t == Moved(s, Head(cs), g)
              f == Track(cs, g, s)
              h == Track(ds, g, t)
  <1>1. /\ N \in Nat /\ ds \in Seq(Commands) /\ Len(cs) = N + 1 /\ Len(ds) = N
        /\ \A i \in 1..N : ds[i] = cs[i + 1]
        /\ Head(cs) = cs[1] /\ Head(cs) \in Commands
    OBVIOUS
  <1>2. t \in Streams
    BY <1>1, MovedType
  <1>. HIDE DEF t, ds
  <1>3. f[1] = s /\ \A i \in 1..(N + 1) : f[i + 1] = Moved(f[i], cs[i], g)
    BY <1>1, TrackSteps
  <1>4. h[1] = t /\ \A i \in 1..N : h[i + 1] = Moved(h[i], ds[i], g)
    BY <1>1, <1>2, TrackSteps
  <1>. HIDE DEF f, h, N
  <1>. DEFINE k == [i \in 1..(N + 1) |-> f[i + 1]]
  <1>5. \A i \in 1..(N + 1) : k[i] = f[i + 1]
    OBVIOUS
  <1>. HIDE DEF k
  <1>6. k[1] = h[1]
    <2>1. 1 \in 1..(N + 1)
      BY <1>1
    <2>2. f[1 + 1] = t
      BY <1>1, <1>3, <2>1 DEF t
    <2>. QED  BY <1>4, <1>5, <2>1, <2>2
  <1>7. ASSUME NEW i \in 1..N, k[i] = h[i]
        PROVE  k[i + 1] = h[i + 1]
    <2>1. i \in 1..(N + 1) /\ i + 1 \in 1..(N + 1)
      BY <1>1
    <2>2. k[i + 1] = Moved(f[i + 1], cs[i + 1], g)
      BY <1>3, <1>5, <2>1
    <2>. QED  BY <1>1, <1>4, <1>5, <1>7, <2>1, <2>2
  <1>8. \A i \in 1..(N + 1) : k[i] = h[i]
    <2>1. \A i \in 1..N : k[i] = h[i] => k[i + 1] = h[i + 1]
      BY <1>7
    <2>2. N \in Nat
      BY <1>1
    <2>3. SameStart(N, k, h)
      BY <1>6, <2>1 DEF SameStart
    <2>4. SameAll(N, k, h)
      BY <2>2, <2>3, SameSteps
    <2>. QED  BY <2>4 DEF SameAll
  <1>9. \A i \in 1..(N + 1) : h[i] = f[i + 1]
    BY <1>5, <1>8
  <1>10. N + 1 \in 1..(N + 1) /\ (ds # <<>> => N \in 1..(N + 1)) /\ (ds = <<>> => N = 0)
    <2>1. ds # <<>> => Len(ds) # 0
      BY <1>1
    <2>2. ds = <<>> => Len(ds) = 0
      OBVIOUS
    <2>. QED  BY <1>1, <2>1, <2>2
  <1>11. Caught(ds, g, t) = Caught(cs, g, s)
    BY <1>1, <1>9, <1>10 DEF Caught, f, h
  <1>12. ds # <<>> => Before(ds, g, t) = Before(cs, g, s)
    BY <1>1, <1>9, <1>10 DEF Before, f, h
  <1>13. ds = <<>> => Before(cs, g, s) = s /\ cs[Len(cs)] = Head(cs)
    BY <1>1, <1>3, <1>10 DEF Before, f
  <1>14. ds # <<>> => ds[Len(ds)] = cs[Len(cs)]
    <2>1. ds # <<>> => N \in 1..N
      BY <1>1, <1>10
    <2>. QED  BY <1>1, <2>1
  <1>15. \A i \in 1..Len(ds) : i + 1 \in 1..Len(cs)
    BY <1>1
  <1>. QED  BY <1>1, <1>11, <1>12, <1>13, <1>14, <1>15 DEF ds, t

\* Commands of another generation move nothing.
LEMMA CaughtStale ==
    ASSUME NEW cs \in Seq(Commands), NEW g \in Nat, NEW s \in Streams,
           \A i \in 1..Len(cs) : cs[i].generation # g
    PROVE  Caught(cs, g, s) = s
  <1>. DEFINE N == Len(cs)
              f == Track(cs, g, s)
              T == {n \in 0..N : f[n + 1] = s}
  <1>1. N \in Nat /\ f[1] = s /\ \A i \in 1..N : f[i + 1] = Moved(f[i], cs[i], g)
    BY TrackSteps
  <1>2. \A i \in 1..N : f[i + 1] = f[i]
    BY <1>1 DEF Moved
  <1>. HIDE DEF f, N
  <1>3. 0 \in T
    BY <1>1
  <1>4. ASSUME NEW n \in 0..N, n + 1 <= N, n \in T
        PROVE  n + 1 \in T
    <2>1. n + 1 \in 1..N
      BY <1>1, <1>4
    <2>. QED  BY <1>1, <1>2, <1>4, <2>1
  <1>5. \A n \in 0..N : n \in T
    <2>. HIDE DEF T
    <2>. QED  BY <1>1, <1>3, <1>4, Data!CountingUp
  <1>6. f[N + 1] = s
    BY <1>1, <1>5
  <1>. QED  BY <1>6 DEF Caught, f, N

\* Whether anybody awaits them makes no difference.
LEMMA UnwantedIs ==
    ASSUME NEW cs \in Seq(Commands)
    PROVE  /\ Unwanted(cs) \in Seq(Commands) /\ Len(Unwanted(cs)) = Len(cs)
           /\ (Unwanted(cs) = <<>>) <=> (cs = <<>>)
           /\ \A i \in 1..Len(cs) :
                /\ Unwanted(cs)[i].op = cs[i].op /\ Unwanted(cs)[i].generation = cs[i].generation
                /\ Unwanted(cs)[i].awaited = FALSE
  <1>1. ASSUME NEW c \in Commands
        PROVE  LET d == [c EXCEPT !.awaited = FALSE]
               IN  d \in Commands /\ d.op = c.op /\ d.generation = c.generation /\ d.awaited = FALSE
    BY DEF Commands
  <1>2. DOMAIN cs = 1..Len(cs) /\ Len(cs) \in Nat /\ \A i \in 1..Len(cs) : cs[i] \in Commands
    OBVIOUS
  <1>. DEFINE ds == [i \in 1..Len(cs) |-> [cs[i] EXCEPT !.awaited = FALSE]]
  <1>3. \A i \in 1..Len(cs) :
           /\ ds[i] \in Commands
           /\ ds[i].op = cs[i].op /\ ds[i].generation = cs[i].generation /\ ds[i].awaited = FALSE
    BY <1>1, <1>2
  <1>4. Unwanted(cs) = ds
    BY <1>2 DEF Unwanted
  <1>5. ds \in [1..Len(cs) -> Commands]
    BY <1>3
  <1>. HIDE DEF ds
  <1>6. ds \in Seq(Commands) /\ Len(ds) = Len(cs)
    BY <1>2, <1>5
  <1>7. ds = <<>> <=> cs = <<>>
    BY <1>6
  <1>. QED  BY <1>3, <1>4, <1>6, <1>7

LEMMA CaughtUnwanted ==
    ASSUME NEW cs \in Seq(Commands), NEW g \in Nat, NEW s \in Streams
    PROVE  Caught(Unwanted(cs), g, s) = Caught(cs, g, s)
  <1>. DEFINE N == Len(cs)
              ds == Unwanted(cs)
              f == Track(cs, g, s)
              h == Track(ds, g, s)
  <1>10. N \in Nat
    OBVIOUS
  <1>11. ds \in Seq(Commands) /\ Len(ds) = N
    BY UnwantedIs
  <1>12. \A i \in 1..N : ds[i].op = cs[i].op /\ ds[i].generation = cs[i].generation
    BY UnwantedIs
  <1>1. /\ N \in Nat /\ ds \in Seq(Commands) /\ Len(ds) = N
        /\ \A i \in 1..N : ds[i].op = cs[i].op /\ ds[i].generation = cs[i].generation
    BY <1>10, <1>11, <1>12
  <1>. HIDE DEF ds
  <1>2. f[1] = s /\ \A i \in 1..N : f[i + 1] = Moved(f[i], cs[i], g)
    BY TrackSteps
  <1>3. h[1] = s /\ \A i \in 1..N : h[i + 1] = Moved(h[i], ds[i], g)
    BY <1>1, TrackSteps
  <1>. HIDE DEF f, h, N
  <1>4. \A i \in 1..N : f[i] = h[i] => f[i + 1] = h[i + 1]
    BY <1>1, <1>2, <1>3 DEF Moved
  <1>5. f[1] = h[1]
    BY <1>2, <1>3
  <1>0. N \in Nat
    BY <1>1
  <1>6. \A i \in 1..(N + 1) : f[i] = h[i]
    <2>1. SameStart(N, f, h)
      BY <1>4, <1>5 DEF SameStart
    <2>2. SameAll(N, f, h)
      BY <1>0, <2>1, SameSteps
    <2>. QED  BY <2>2 DEF SameAll
  <1>7. N + 1 \in 1..(N + 1)
    BY <1>1
  <1>. QED  BY <1>1, <1>6, <1>7 DEF Caught, f, h, N, ds

-----------------------------------------------------------------------------
(***************************************************************************)
(* The inductive invariant of a handle and its worker.                     *)
(***************************************************************************)

\* What is what.
EngineTyped ==
    /\ engine \in Engines /\ generation \in Nat
    /\ commands \in Seq(Commands)
    /\ worker \in Workers
    /\ pending \in [generation : Nat, answer : Answers \cup {NoAnswer, Waiting, Session!EngineFailed}]

\* Nothing is ahead of the counter.
NoneAhead ==
    /\ worker.generation <= generation /\ pending.generation <= generation
    /\ \A i \in 1..Len(commands) : commands[i].generation <= generation

\* A call is awaited by the last command sent, or by the one the worker has taken, and by no
\* other; a worker that is gone owes nothing.
OneAwaited ==
    /\ pending.answer = NoAnswer => pending = NoPending
    /\ pending.answer = Session!EngineFailed => worker.pc = "dead"
    /\ \A i \in 1..Len(commands) : commands[i].awaited =>
         pending.answer = Waiting /\ i = Len(commands) /\ commands[i].generation = pending.generation
    /\ worker.command.awaited =>
         /\ pending.answer = Waiting /\ commands = <<>>
         /\ worker.pc \in {"decode", "reply"} /\ worker.command.generation = pending.generation
    /\ pending.answer = Waiting =>
         worker.command.awaited \/ (commands # <<>> /\ commands[Len(commands)].awaited)
    /\ worker.pc = "dead" => commands = <<>>
    /\ engine = "buffered" => commands = <<>> /\ worker.pc = "idle"

\* What a worker holds between commands, and while it decodes.
Holds(e, w) ==
    /\ w.pc \in {"idle", "reply"} =>
         /\ e = "vad" => w.stream.open
         /\ e \in {"online", "vad"} /\ w.stream.open => w.shown = Session!Heard(e, w.stream.audio)
    /\ w.pc = "decode" =>
         /\ w.command \in Commands /\ w.command.generation = w.generation
         /\ w.local.open /\ w.stream = NoStream
         /\ w.command.op.op = "begin" => w.local.audio = <<>> /\ w.shown = Session!Silent
         /\ e = "offline" => w.command.op.op = "end"
         /\ e = "vad" => w.command.op.op = "feed"

Served ==
    /\ Holds(engine, worker)
    /\ engine = "vad" => \A i \in 1..Len(commands) : commands[i].op.op = "feed"

EngineInv == EngineTyped /\ NoneAhead /\ OneAwaited /\ Served

-----------------------------------------------------------------------------
(***************************************************************************)
(* The fields of a worker under the operators of the model.                *)
(***************************************************************************)

LEMMA AnswersAre ==
    /\ Nothing \in Answers /\ Protocol \in Answers /\ Nothing.is = "ok" /\ Protocol.is = "protocol"
    /\ NoAnswer \notin Answers /\ Waiting \notin Answers /\ Session!EngineFailed \notin Answers
    /\ NoAnswer # Waiting /\ NoAnswer # Session!EngineFailed /\ Waiting # Session!EngineFailed
    /\ NoPending.answer = NoAnswer /\ NoPending.generation = 0
  BY DEF Answers, Nothing, Session!Ok, Protocol, Session!Protocol, NoAnswer, Waiting, Session!EngineFailed,
         NoPending

LEMMA ReportsAre ==
    /\ \A audio \in Seq(Session!Chunks) :
         /\ Session!Events(<<Session!Final(audio)>>) \in Answers
         /\ Session!Events(<<Session!Final(audio)>>).is = "ok"
         /\ Session!Events(<<Session!Final(audio)>>).events = <<Session!Final(audio)>>
         /\ Session!Final(audio) \in EventRecords
    /\ \A heard \in SUBSET Nat : Session!Events(<<Session!Partial(heard)>>) \in Answers
  <1>1. ASSUME NEW event \in EventRecords
        PROVE  Session!Events(<<event>>) \in Answers /\ Session!Events(<<event>>).is = "ok"
               /\ Session!Events(<<event>>).events = <<event>>
    BY DEF Session!Events, Answers
  <1>2. \A audio \in Seq(Session!Chunks) : Session!Final(audio) \in EventRecords
    BY DEF Session!Final, EventRecords
  <1>3. \A heard \in SUBSET Nat : Session!Partial(heard) \in EventRecords
    BY DEF Session!Partial, EventRecords
  <1>. QED  BY <1>1, <1>2, <1>3

LEMMA HeardType ==
    \A e : \A audio \in Seq(Session!Chunks) :
      /\ Session!Heard(e, audio) \in SUBSET Nat
      /\ audio = <<>> => Session!Heard(e, audio) = Session!Silent
  <1>. SUFFICES ASSUME NEW e, NEW audio \in Seq(Session!Chunks)
                PROVE  /\ Session!Heard(e, audio) \in SUBSET Nat
                       /\ audio = <<>> => Session!Heard(e, audio) = Session!Silent
    OBVIOUS
  <1>1. DOMAIN audio = 1..Len(audio) /\ Len(audio) \in Nat
    OBVIOUS
  <1>2. Session!Voiced(audio) \in SUBSET Nat
    BY <1>1 DEF Session!Voiced
  <1>3. audio = <<>> => Session!Voiced(audio) = {}
    BY DEF Session!Voiced
  <1>4. CASE e = "vad"
    BY <1>3, <1>4 DEF Session!Heard, Session!Silent
  <1>5. CASE e # "vad"
    BY <1>2, <1>3, <1>5 DEF Session!Heard, Session!Silent
  <1>. QED  BY <1>4, <1>5

LEMMA WorkerFields ==
    \A w \in Workers :
      /\ w.pc \in {"idle", "decode", "reply", "dead"} /\ w.generation \in Nat
      /\ w.stream \in Streams /\ w.shown \in SUBSET Nat /\ w.command \in Commands \cup {NoCommand}
      /\ w.local \in Streams /\ w.reply \in Answers
  BY DEF Workers

SamePc(n, w)      == n.pc = w.pc
SameHeld(n, w)    == n.stream = w.stream /\ n.shown = w.shown
SameWork(n, w)    == n.command = w.command /\ n.local = w.local /\ n.reply = w.reply
SameNumber(n, w)  == n.generation = w.generation

LEMMA SetPc ==
    \A w \in Workers, x \in {"idle", "decode", "reply", "dead"} :
      LET n == [w EXCEPT !.pc = x]
      IN  n \in Workers /\ n.pc = x /\ SameHeld(n, w) /\ SameWork(n, w) /\ SameNumber(n, w)
  BY DEF Workers, SameHeld, SameWork, SameNumber

LEMMA SetGeneration ==
    \A w \in Workers, x \in Nat :
      LET n == [w EXCEPT !.generation = x]
      IN  n \in Workers /\ n.generation = x /\ SamePc(n, w) /\ SameHeld(n, w) /\ SameWork(n, w)
  BY DEF Workers, SameHeld, SameWork, SamePc

LEMMA SetStream ==
    \A w \in Workers, x \in Streams :
      LET n == [w EXCEPT !.stream = x]
      IN  n \in Workers /\ n.stream = x /\ n.shown = w.shown /\ SamePc(n, w) /\ SameWork(n, w) /\ SameNumber(n, w)
  BY DEF Workers, SamePc, SameWork, SameNumber

LEMMA SetShown ==
    \A w \in Workers, x \in SUBSET Nat :
      LET n == [w EXCEPT !.shown = x]
      IN  n \in Workers /\ n.shown = x /\ n.stream = w.stream /\ SamePc(n, w) /\ SameWork(n, w) /\ SameNumber(n, w)
  BY DEF Workers, SamePc, SameWork, SameNumber

LEMMA SetCommand ==
    \A w \in Workers, x \in Commands \cup {NoCommand} :
      LET n == [w EXCEPT !.command = x]
      IN  n \in Workers /\ n.command = x /\ n.local = w.local /\ n.reply = w.reply
          /\ SamePc(n, w) /\ SameHeld(n, w) /\ SameNumber(n, w)
  BY DEF Workers, SamePc, SameHeld, SameNumber

LEMMA SetLocal ==
    \A w \in Workers, x \in Streams :
      LET n == [w EXCEPT !.local = x]
      IN  n \in Workers /\ n.local = x /\ n.command = w.command /\ n.reply = w.reply
          /\ SamePc(n, w) /\ SameHeld(n, w) /\ SameNumber(n, w)
  BY DEF Workers, SamePc, SameHeld, SameNumber

LEMMA SetReply ==
    \A w \in Workers, x \in Answers :
      LET n == [w EXCEPT !.reply = x]
      IN  n \in Workers /\ n.reply = x /\ n.command = w.command /\ n.local = w.local
          /\ SamePc(n, w) /\ SameHeld(n, w) /\ SameNumber(n, w)
  BY DEF Workers, SamePc, SameHeld, SameNumber

LEMMA AnsweredIs ==
    \A w \in Workers, a \in Answers :
      LET n == Answered(w, a)
      IN  n \in Workers /\ n.pc = "reply" /\ n.reply = a /\ n.command = w.command /\ n.local = w.local
          /\ SameHeld(n, w) /\ SameNumber(n, w)
  BY DEF Workers, SameHeld, SameNumber, Answered

LEMMA DecodesIs ==
    \A w \in Workers, audio \in Seq(Session!Chunks) :
      LET n == Decodes(w, audio)
      IN  n \in Workers /\ n.pc = "decode" /\ n.local = Session!Opened(audio) /\ n.stream = NoStream
          /\ n.shown = w.shown /\ n.command = w.command /\ n.reply = w.reply /\ SameNumber(n, w)
  <1>. SUFFICES ASSUME NEW w \in Workers, NEW audio \in Seq(Session!Chunks)
                PROVE  LET n == Decodes(w, audio)
                       IN  n \in Workers /\ n.pc = "decode" /\ n.local = Session!Opened(audio) /\ n.stream = NoStream
                           /\ n.shown = w.shown /\ n.command = w.command /\ n.reply = w.reply /\ SameNumber(n, w)
    OBVIOUS
  <1>1. Session!Opened(audio) \in Streams /\ NoStream \in Streams
    BY OpenedIs, FreshIs
  <1>. QED  BY <1>1 DEF Decodes, Workers, SameNumber

\* The stream of another generation is gone.
LEMMA ForgetsIs ==
    ASSUME NEW w \in Workers, engine \in Threaded
    PROVE  LET n == Forgets(w)
           IN  n \in Workers /\ n.stream = Session!Fresh(engine)
               /\ (engine # "offline" => n.shown = Session!Silent)
               /\ SamePc(n, w) /\ SameWork(n, w) /\ SameNumber(n, w)
  <1>. DEFINE v == [w EXCEPT !.stream = Session!Fresh(engine)]
              n == [v EXCEPT !.shown = Session!Silent]
  <1>1. Session!Fresh(engine) \in Streams /\ Session!Silent \in SUBSET Nat
    BY FreshIs DEF Session!Silent
  <1>2. /\ v \in Workers /\ v.stream = Session!Fresh(engine) /\ v.shown = w.shown
        /\ SamePc(v, w) /\ SameWork(v, w) /\ SameNumber(v, w)
    BY <1>1, SetStream
  <1>. HIDE DEF v
  <1>3. /\ n \in Workers /\ n.stream = v.stream /\ n.shown = Session!Silent
        /\ SamePc(n, v) /\ SameWork(n, v) /\ SameNumber(n, v)
    BY <1>1, <1>2, SetShown
  <1>. HIDE DEF n
  <1>4. Forgets(w) = IF engine = "offline" THEN v ELSE n
    <2>1. CASE engine = "online"
      <3>1. Session!Fresh(engine) = NoStream
        BY <2>1, FreshIs
      <3>2. Forgets(w) = OnlineForgets(w)
        BY <2>1, Zenon DEF Forgets
      <3>. QED  BY <2>1, <3>1, <3>2 DEF OnlineForgets, n, v
    <2>2. CASE engine = "offline"
      <3>1. Session!Fresh(engine) = NoStream
        BY <2>2, FreshIs
      <3>2. Forgets(w) = OfflineForgets(w)
        BY <2>2, Zenon DEF Forgets
      <3>. QED  BY <2>2, <3>1, <3>2 DEF OfflineForgets, v
    <2>3. CASE engine = "vad"
      <3>1. Forgets(w) = DetectorForgets(w)
        BY <2>3, Zenon DEF Forgets
      <3>. QED  BY <2>3, <3>1 DEF DetectorForgets, n, v
    <2>. QED  BY <2>1, <2>2, <2>3 DEF Threaded
  <1>. QED  BY <1>2, <1>3, <1>4 DEF SamePc, SameWork, SameNumber

LEMMA RefreshedIs ==
    ASSUME NEW w \in Workers, engine \in Threaded, generation \in Nat
    PROVE  LET n == Refreshed(w)
           IN  n \in Workers /\ n.generation = generation
               /\ (w.generation = generation => n = w)
               /\ (w.generation # generation => n.stream = Session!Fresh(engine))
               /\ (w.generation # generation /\ engine # "offline" => n.shown = Session!Silent)
               /\ SamePc(n, w) /\ SameWork(n, w)
  <1>1. CASE w.generation = generation
    BY <1>1 DEF Refreshed, SamePc, SameWork
  <1>2. CASE w.generation # generation
    <2>. DEFINE v == Forgets(w)
                n == [v EXCEPT !.generation = generation]
    <2>1. /\ v \in Workers /\ v.stream = Session!Fresh(engine)
          /\ (engine # "offline" => v.shown = Session!Silent)
          /\ SamePc(v, w) /\ SameWork(v, w) /\ SameNumber(v, w)
      BY ForgetsIs
    <2>. HIDE DEF v
    <2>2. n \in Workers /\ n.generation = generation /\ SamePc(n, v) /\ SameHeld(n, v) /\ SameWork(n, v)
      BY <2>1, SetGeneration
    <2>. HIDE DEF n
    <2>3. Refreshed(w) = n
      BY <1>2 DEF Refreshed, n, v
    <2>. QED  BY <1>2, <2>1, <2>2, <2>3 DEF SamePc, SameHeld, SameWork
  <1>. QED  BY <1>1, <1>2

-----------------------------------------------------------------------------
(***************************************************************************)
(* What a worker makes of a command.                                       *)
(***************************************************************************)

\* The session a worker holds, and what the command it decodes is going to be answered.
InWork(w) ==
    IF w.pc = "decode" THEN IF w.command.op.op = "end" THEN NoStream ELSE w.local ELSE w.stream
Owed(e, w) ==
    IF w.command.op.op = "end" THEN Session!Events(<<Session!Final(w.local.audio)>>)
    ELSE IF w.command.op.op = "begin" THEN Nothing
    ELSE IF Session!Heard(e, w.local.audio) # w.shown
      THEN Session!Events(<<Session!Partial(Session!Heard(e, w.local.audio))>>) ELSE Nothing

\* n is what a worker w that was free has made of op.
Serves(n, w, op) ==
    /\ n \in Workers /\ n.pc \in {"decode", "reply"}
    /\ n.command = w.command /\ n.generation = w.generation
    /\ Holds(engine, n)
    /\ InWork(n) = Session!After(w.stream, op)
    /\ (IF n.pc = "reply" THEN n.reply ELSE Owed(engine, n)) = Session!Answer(engine, w.stream, op)

\* A worker with a command of its own generation in hand.
Ready(w, op) ==
    /\ w \in Workers /\ w.pc = "idle" /\ engine \in Threaded
    /\ Holds(engine, w)
    /\ op \in Session!Ops /\ (engine = "vad" => op.op = "feed")
    /\ w.command \in Commands /\ w.command.op = op /\ w.command.generation = w.generation

LEMMA ServesRefusal ==
    ASSUME NEW w, NEW op, Ready(w, op), w.stream.open <=> op.op = "begin"
    PROVE  Serves(Answered(w, Protocol), w, op)
  <1>. DEFINE n == Answered(w, Protocol)
  <1>1. w \in Workers /\ w.pc = "idle" /\ op \in Session!Ops
    BY DEF Ready
  <1>2. /\ n \in Workers /\ n.pc = "reply" /\ n.reply = Protocol /\ n.command = w.command
        /\ n.stream = w.stream /\ n.shown = w.shown /\ n.generation = w.generation
    BY <1>1, AnsweredIs, AnswersAre DEF SameHeld, SameNumber
  <1>. HIDE DEF n
  <1>3. w.stream \in Streams /\ op.op \in {"begin", "feed", "end"}
    BY <1>1, OpFields, WorkerFields
  <1>4. Session!After(w.stream, op) = w.stream
    BY <1>1, <1>3, AfterIs, StreamIs
  <1>5. Session!Answer(engine, w.stream, op) = Protocol
    BY <1>1, <1>3, AnswerIs
  <1>6. Holds(engine, n)
    BY <1>1, <1>2 DEF Ready, Holds
  <1>. QED  BY <1>2, <1>4, <1>5, <1>6 DEF Serves, InWork, n

LEMMA OnlineServes ==
    ASSUME NEW w, NEW op, Ready(w, op), engine = "online"
    PROVE  Serves(OnlineCommand(w, op), w, op)
  <1>1. w \in Workers /\ w.pc = "idle" /\ op \in Session!Ops /\ w.stream \in Streams /\ w.command.op = op
    BY WorkerFields DEF Ready
  <1>2. op.op \in {"begin", "feed", "end"} /\ w.stream.open \in BOOLEAN /\ w.stream.audio \in Seq(Session!Chunks)
    BY <1>1, OpFields, StreamIs
  <1>3. CASE op.op = "begin"
    <2>1. OnlineCommand(w, op) = OnlineBegins(w)
      BY <1>3, Zenon DEF OnlineCommand
    <2>2. CASE w.stream.open
      BY <1>3, <2>1, <2>2, ServesRefusal DEF OnlineBegins
    <2>3. CASE ~w.stream.open
      <3>. DEFINE v == [w EXCEPT !.shown = Session!Silent]
                  n == Decodes(v, <<>>)
      <3>1. /\ v \in Workers /\ v.shown = Session!Silent /\ v.stream = w.stream /\ v.command = w.command
            /\ v.generation = w.generation
        BY <1>1, SetShown DEF Session!Silent, SamePc, SameWork, SameNumber
      <3>. HIDE DEF v
      <3>2. /\ n \in Workers /\ n.pc = "decode" /\ n.local = Session!Opened(<<>>) /\ n.stream = NoStream
            /\ n.shown = Session!Silent /\ n.command = w.command /\ n.generation = w.generation
        <4>1. <<>> \in Seq(Session!Chunks)
          OBVIOUS
        <4>. QED  BY <3>1, <4>1, DecodesIs DEF SameNumber
      <3>. HIDE DEF n
      <3>3. OnlineCommand(w, op) = n
        BY <2>1, <2>3 DEF OnlineBegins, n, v
      <3>4. n.local.open = TRUE /\ n.local.audio = <<>>
        BY <3>2 DEF Session!Opened
      <3>5. Holds(engine, n)
        BY <1>1, <1>3, <3>2, <3>4 DEF Ready, Holds
      <3>6. Session!After(w.stream, op) = Session!Opened(<<>>)
        BY <1>1, <1>3, <2>3, AfterIs
      <3>7. Session!Answer(engine, w.stream, op) = Nothing
        BY <1>3, <2>3, AnswerIs
      <3>. QED  BY <1>1, <1>3, <3>2, <3>3, <3>5, <3>6, <3>7 DEF Serves, InWork, Owed
    <2>. QED  BY <2>2, <2>3
  <1>4. CASE op.op = "feed"
    <2>1. OnlineCommand(w, op) = OnlineFeeds(w, op.chunk)
      BY <1>4, Zenon DEF OnlineCommand
    <2>2. CASE ~w.stream.open
      BY <1>4, <2>1, <2>2, ServesRefusal DEF OnlineFeeds
    <2>3. CASE w.stream.open
      <3>. DEFINE audio == Append(w.stream.audio, op.chunk)
                  n == Decodes(w, audio)
      <3>1. audio \in Seq(Session!Chunks)
        BY <1>1, <1>2, <1>4, OpFields
      <3>. HIDE DEF audio
      <3>2. /\ n \in Workers /\ n.pc = "decode" /\ n.local = Session!Opened(audio) /\ n.stream = NoStream
            /\ n.shown = w.shown /\ n.command = w.command /\ n.generation = w.generation
        BY <1>1, <3>1, DecodesIs DEF SameNumber
      <3>. HIDE DEF n
      <3>3. OnlineCommand(w, op) = n
        BY <2>1, <2>3 DEF OnlineFeeds, n, audio
      <3>4. n.local.open = TRUE /\ n.local.audio = audio
        BY <3>1, <3>2, OpenedIs
      <3>5. Holds(engine, n)
        BY <1>1, <1>4, <3>2, <3>4 DEF Ready, Holds
      <3>6. Session!After(w.stream, op) = Session!Opened(audio)
        BY <1>1, <1>4, <2>3, AfterIs DEF audio
      <3>7. Session!Answer(engine, w.stream, op) =
              IF Session!Heard(engine, audio) # Session!Heard(engine, w.stream.audio)
                THEN Session!Events(<<Session!Partial(Session!Heard(engine, audio))>>) ELSE Nothing
        BY <1>1, <1>4, <2>3, AnswerIs DEF audio
      <3>8. w.shown = Session!Heard(engine, w.stream.audio)
        BY <2>3 DEF Ready, Holds
      <3>9. Owed(engine, n) = Session!Answer(engine, w.stream, op)
        BY <1>1, <1>4, <3>2, <3>4, <3>7, <3>8 DEF Owed
      <3>. QED  BY <1>1, <1>4, <3>2, <3>3, <3>5, <3>6, <3>9 DEF Serves, InWork
    <2>. QED  BY <2>2, <2>3
  <1>5. CASE op.op = "end"
    <2>1. OnlineCommand(w, op) = OnlineEnds(w)
      BY <1>5, Zenon DEF OnlineCommand
    <2>2. CASE ~w.stream.open
      BY <1>5, <2>1, <2>2, ServesRefusal DEF OnlineEnds
    <2>3. CASE w.stream.open
      <3>. DEFINE n == Decodes(w, w.stream.audio)
      <3>2. /\ n \in Workers /\ n.pc = "decode" /\ n.local = Session!Opened(w.stream.audio) /\ n.stream = NoStream
            /\ n.shown = w.shown /\ n.command = w.command /\ n.generation = w.generation
        BY <1>1, <1>2, DecodesIs DEF SameNumber
      <3>. HIDE DEF n
      <3>3. OnlineCommand(w, op) = n
        BY <2>1, <2>3 DEF OnlineEnds, n
      <3>4. n.local.open = TRUE /\ n.local.audio = w.stream.audio
        BY <1>2, <3>2, OpenedIs
      <3>5. Holds(engine, n)
        BY <1>1, <1>5, <3>2, <3>4 DEF Ready, Holds
      <3>6. Session!After(w.stream, op) = NoStream
        BY <1>1, <1>5, AfterIs
      <3>8. Session!Answer(engine, w.stream, op) = Session!Events(<<Session!Final(w.stream.audio)>>)
        BY <1>5, <2>3, AnswerIs
      <3>7. Owed(engine, n) = Session!Answer(engine, w.stream, op)
        BY <1>1, <1>5, <3>2, <3>4, <3>8 DEF Owed
      <3>. QED  BY <1>1, <1>5, <3>2, <3>3, <3>5, <3>6, <3>7 DEF Serves, InWork
    <2>. QED  BY <2>2, <2>3
  <1>. QED  BY <1>2, <1>3, <1>4, <1>5

LEMMA MoreAudio ==
    ASSUME NEW s \in Streams, NEW audio \in Seq(Session!Chunks), s.open
    PROVE  [s EXCEPT !.audio = audio] = Session!Opened(audio)
  <1>. DEFINE A == Seq(Session!Chunks)
              n == [s EXCEPT !.audio = audio]
  <1>1. s \in [open : BOOLEAN, audio : A] /\ s.open = TRUE /\ audio \in A
    BY DEF Streams
  <1>. HIDE DEF A
  <1>2. n \in [open : BOOLEAN, audio : A] /\ n.open = TRUE /\ n.audio = audio
    BY <1>1
  <1>. HIDE DEF n
  <1>3. n = [open |-> n.open, audio |-> n.audio]
    BY <1>2
  <1>. QED  BY <1>2, <1>3 DEF Session!Opened, n

LEMMA OfflineServes ==
    ASSUME NEW w, NEW op, Ready(w, op), engine = "offline"
    PROVE  Serves(OfflineCommand(w, op), w, op)
  <1>1. w \in Workers /\ w.pc = "idle" /\ op \in Session!Ops /\ w.stream \in Streams /\ w.command.op = op
    BY WorkerFields DEF Ready
  <1>2. op.op \in {"begin", "feed", "end"} /\ w.stream.open \in BOOLEAN /\ w.stream.audio \in Seq(Session!Chunks)
    BY <1>1, OpFields, StreamIs
  <1>3. CASE op.op \in {"begin", "feed"} /\ (w.stream.open <=> op.op # "begin")
    <2>. DEFINE held == Session!After(w.stream, op)
                v == [w EXCEPT !.stream = held]
                n == Answered(v, Nothing)
    <2>1. held \in Streams
      BY <1>1, AfterIs
    <2>2. held = IF op.op = "begin" THEN Session!Opened(<<>>) ELSE Session!Opened(Append(w.stream.audio, op.chunk))
      BY <1>1, <1>3, AfterIs
    <2>3. Session!Answer(engine, w.stream, op) = Nothing
      BY <1>3, AnswerIs
    <2>4. OfflineCommand(w, op) = n
      <3>1. CASE op.op = "begin"
        <4>1. OfflineCommand(w, op) = OfflineBegins(w)
          BY <3>1, Zenon DEF OfflineCommand
        <4>. QED  BY <1>3, <2>2, <3>1, <4>1 DEF OfflineBegins
      <3>2. CASE op.op = "feed"
        <4>1. OfflineCommand(w, op) = OfflineFeeds(w, op.chunk)
          BY <3>2, Zenon DEF OfflineCommand
        <4>2. OfflineFeeds(w, op.chunk) = Answered([w EXCEPT !.stream.audio = Append(@, op.chunk)], Nothing)
          BY <1>3, <3>2 DEF OfflineFeeds
        <4>3. [w.stream EXCEPT !.audio = Append(@, op.chunk)] = held
          <5>1. w.stream.open
            BY <1>3, <3>2
          <5>2. Append(w.stream.audio, op.chunk) \in Seq(Session!Chunks)
            BY <1>1, <1>2, <3>2, OpFields
          <5>3. [w.stream EXCEPT !.audio = Append(w.stream.audio, op.chunk)]
                  = Session!Opened(Append(w.stream.audio, op.chunk))
            BY <1>1, <5>1, <5>2, MoreAudio
          <5>. QED  BY <2>2, <3>2, <5>3
        <4>4. [w EXCEPT !.stream.audio = Append(@, op.chunk)] = [w EXCEPT !.stream = [w.stream EXCEPT !.audio = Append(@, op.chunk)]]
          BY <1>1 DEF Workers
        <4>. HIDE DEF held
        <4>. QED  BY <4>1, <4>2, <4>3, <4>4
      <3>. QED  BY <1>3, <3>1, <3>2
    <2>. HIDE DEF held
    <2>5. /\ v \in Workers /\ v.stream = held /\ v.command = w.command /\ v.generation = w.generation
      BY <1>1, <2>1, SetStream DEF SameWork, SameNumber
    <2>. HIDE DEF v
    <2>6. /\ n \in Workers /\ n.pc = "reply" /\ n.reply = Nothing /\ n.command = w.command /\ n.stream = held
          /\ n.generation = w.generation
      BY <2>5, AnsweredIs, AnswersAre DEF SameHeld, SameNumber
    <2>. HIDE DEF n
    <2>7. Holds(engine, n)
      BY <2>6 DEF Holds
    <2>. QED  BY <2>3, <2>4, <2>6, <2>7 DEF Serves, InWork, held
  <1>4. CASE op.op = "end" /\ w.stream.open
    <2>. DEFINE n == Decodes(w, w.stream.audio)
    <2>1. OfflineCommand(w, op) = OfflineEnds(w)
      BY <1>4, Zenon DEF OfflineCommand
    <2>2. /\ n \in Workers /\ n.pc = "decode" /\ n.local = Session!Opened(w.stream.audio) /\ n.stream = NoStream
          /\ n.shown = w.shown /\ n.command = w.command /\ n.generation = w.generation
      BY <1>1, <1>2, DecodesIs DEF SameNumber
    <2>. HIDE DEF n
    <2>3. OfflineCommand(w, op) = n
      BY <1>4, <2>1 DEF OfflineEnds, n
    <2>4. n.local.open = TRUE /\ n.local.audio = w.stream.audio
      BY <1>2, <2>2, OpenedIs
    <2>5. Holds(engine, n)
      BY <1>1, <1>4, <2>2, <2>4 DEF Ready, Holds
    <2>6. Session!After(w.stream, op) = NoStream
      BY <1>1, <1>4, AfterIs
    <2>8. Session!Answer(engine, w.stream, op) = Session!Events(<<Session!Final(w.stream.audio)>>)
      BY <1>4, AnswerIs
    <2>7. Owed(engine, n) = Session!Answer(engine, w.stream, op)
      BY <1>1, <1>4, <2>2, <2>4, <2>8 DEF Owed
    <2>. QED  BY <1>1, <1>4, <2>2, <2>3, <2>5, <2>6, <2>7 DEF Serves, InWork
  <1>5. CASE w.stream.open <=> op.op = "begin"
    <2>1. Serves(Answered(w, Protocol), w, op)
      BY <1>5, ServesRefusal
    <2>2. OfflineCommand(w, op) = Answered(w, Protocol)
      <3>1. CASE op.op = "begin"
        <4>1. OfflineCommand(w, op) = OfflineBegins(w)
          BY <3>1, Zenon DEF OfflineCommand
        <4>. QED  BY <1>5, <3>1, <4>1 DEF OfflineBegins
      <3>2. CASE op.op = "feed"
        <4>1. OfflineCommand(w, op) = OfflineFeeds(w, op.chunk)
          BY <3>2, Zenon DEF OfflineCommand
        <4>. QED  BY <1>5, <3>2, <4>1 DEF OfflineFeeds
      <3>3. CASE op.op = "end"
        <4>1. OfflineCommand(w, op) = OfflineEnds(w)
          BY <3>3, Zenon DEF OfflineCommand
        <4>. QED  BY <1>5, <3>3, <4>1 DEF OfflineEnds
      <3>. QED  BY <1>2, <3>1, <3>2, <3>3
    <2>. QED  BY <2>1, <2>2
  <1>. QED  BY <1>2, <1>3, <1>4, <1>5

LEMMA DetectorServes ==
    ASSUME NEW w, NEW op, Ready(w, op), engine = "vad"
    PROVE  Serves(DetectorCommand(w, op), w, op)
  <1>1. /\ w \in Workers /\ w.pc = "idle" /\ op \in Session!Ops /\ w.stream \in Streams /\ w.command.op = op
        /\ op.op = "feed" /\ w.stream.open
    BY WorkerFields DEF Ready, Holds
  <1>. DEFINE audio == Append(w.stream.audio, op.chunk)
              n == Decodes(w, audio)
  <1>2. audio \in Seq(Session!Chunks)
    BY <1>1, OpFields, StreamIs
  <1>. HIDE DEF audio
  <1>3. /\ n \in Workers /\ n.pc = "decode" /\ n.local = Session!Opened(audio) /\ n.stream = NoStream
        /\ n.shown = w.shown /\ n.command = w.command /\ n.generation = w.generation
    BY <1>1, <1>2, DecodesIs DEF SameNumber
  <1>. HIDE DEF n
  <1>4. DetectorCommand(w, op) = n
    BY DEF DetectorCommand, DetectorFeeds, n, audio
  <1>5. n.local.open = TRUE /\ n.local.audio = audio
    BY <1>2, <1>3, OpenedIs
  <1>6. Holds(engine, n)
    BY <1>1, <1>3, <1>5 DEF Ready, Holds
  <1>7. Session!After(w.stream, op) = Session!Opened(audio)
    BY <1>1, AfterIs DEF audio
  <1>8. Session!Answer(engine, w.stream, op) =
          IF Session!Heard(engine, audio) # Session!Heard(engine, w.stream.audio)
            THEN Session!Events(<<Session!Partial(Session!Heard(engine, audio))>>) ELSE Nothing
    BY <1>1, AnswerIs DEF audio
  <1>9. w.shown = Session!Heard(engine, w.stream.audio)
    BY <1>1 DEF Ready, Holds
  <1>10. Owed(engine, n) = Session!Answer(engine, w.stream, op)
    BY <1>1, <1>3, <1>5, <1>8, <1>9 DEF Owed
  <1>. QED  BY <1>1, <1>3, <1>4, <1>6, <1>7, <1>10 DEF Serves, InWork

LEMMA CarriedServes ==
    ASSUME NEW w, NEW op, Ready(w, op)
    PROVE  Serves(Carried(w, op), w, op)
  <1>1. CASE engine = "online"
    <2>1. Carried(w, op) = OnlineCommand(w, op)
      BY <1>1, Zenon DEF Carried
    <2>. QED  BY <1>1, <2>1, OnlineServes
  <1>2. CASE engine = "offline"
    <2>1. Carried(w, op) = OfflineCommand(w, op)
      BY <1>2, Zenon DEF Carried
    <2>. QED  BY <1>2, <2>1, OfflineServes
  <1>3. CASE engine = "vad"
    <2>1. Carried(w, op) = DetectorCommand(w, op)
      BY <1>3, Zenon DEF Carried
    <2>. QED  BY <1>3, <2>1, DetectorServes
  <1>. QED  BY <1>1, <1>2, <1>3 DEF Ready, Threaded

\* What a decoded command leaves behind.
LEMMA FinishedIs ==
    ASSUME NEW w \in Workers, engine \in Threaded, w.pc = "decode", Holds(engine, w)
    PROVE  LET n == Finished(w)
           IN  /\ n \in Workers /\ n.pc = "reply" /\ n.command = w.command /\ n.generation = w.generation
               /\ n.reply = Owed(engine, w)
               /\ n.stream = InWork(w)
               /\ Holds(engine, n)
  <1>1. /\ w.command \in Commands /\ w.local.open /\ w.stream = NoStream /\ w.local \in Streams
        /\ w.local.audio \in Seq(Session!Chunks)
        /\ w.command.op.op \in {"begin", "feed", "end"}
    <2>1. /\ w.command \in Commands /\ w.local.open /\ w.stream = NoStream /\ w.local \in Streams
      BY WorkerFields DEF Holds
    <2>. QED  BY <2>1, OpFields, StreamIs DEF Commands
  <1>2. CASE w.command.op.op = "end" /\ engine # "vad"
    <2>. DEFINE v == IF engine = "online" THEN [w EXCEPT !.shown = Session!Silent] ELSE w
                answer == Session!Events(<<Session!Final(w.local.audio)>>)
                n == Answered(v, answer)
    <2>1. Finished(w) = n
      <3>1. CASE engine = "online"
        <4>1. Finished(w) = OnlineFinished(w)
          BY <3>1, Zenon DEF Finished
        <4>2. OnlineFinished(w) = Answered([w EXCEPT !.shown = Session!Silent], Reported(<<Session!Final(w.local.audio)>>))
          BY <1>2, Zenon DEF OnlineFinished
        <4>. QED  BY <3>1, <4>1, <4>2 DEF Reported
      <3>2. CASE engine = "offline"
        <4>1. Finished(w) = OfflineFinished(w)
          BY <3>2, Zenon DEF Finished
        <4>. QED  BY <3>2, <4>1 DEF OfflineFinished, Reported
      <3>. QED  BY <1>2, <3>1, <3>2 DEF Threaded
    <2>2. /\ v \in Workers /\ v.stream = w.stream /\ v.command = w.command /\ v.generation = w.generation
      BY SetShown DEF Session!Silent, SamePc, SameWork, SameNumber
    <2>3. answer \in Answers
      BY <1>1, ReportsAre
    <2>. HIDE DEF v, answer
    <2>4. /\ n \in Workers /\ n.pc = "reply" /\ n.reply = answer /\ n.command = w.command /\ n.stream = w.stream
          /\ n.generation = w.generation
      BY <2>2, <2>3, AnsweredIs DEF SameHeld, SameNumber
    <2>. HIDE DEF n
    <2>5. Holds(engine, n)
      <3>1. ~n.stream.open
        BY <1>1, <2>4, FreshIs
      <3>. QED  BY <1>2, <2>4, <3>1 DEF Holds
    <2>. QED  BY <1>1, <1>2, <2>1, <2>4, <2>5 DEF InWork, Owed, answer
  <1>3. CASE w.command.op.op = "begin" /\ engine = "online"
    <2>. DEFINE v == [w EXCEPT !.stream = w.local]
                n == Answered(v, Nothing)
    <2>1. Finished(w) = n
      <3>1. Finished(w) = OnlineFinished(w)
        BY <1>3, Zenon DEF Finished
      <3>2. OnlineFinished(w) = n
        BY <1>3, Zenon DEF OnlineFinished
      <3>. QED  BY <3>1, <3>2
    <2>2. /\ v \in Workers /\ v.stream = w.local /\ v.command = w.command /\ v.generation = w.generation
          /\ v.shown = w.shown
      BY <1>1, SetStream DEF SamePc, SameWork, SameNumber
    <2>. HIDE DEF v
    <2>3. /\ n \in Workers /\ n.pc = "reply" /\ n.reply = Nothing /\ n.command = w.command /\ n.stream = w.local
          /\ n.shown = w.shown /\ n.generation = w.generation
      BY <2>2, AnsweredIs, AnswersAre DEF SameHeld, SameNumber
    <2>. HIDE DEF n
    <2>4. w.shown = Session!Heard(engine, w.local.audio)
      <3>1. w.local.audio = <<>> /\ w.shown = Session!Silent
        BY <1>3 DEF Holds
      <3>. QED  BY <1>1, <3>1, HeardType
    <2>5. Holds(engine, n)
      BY <1>3, <2>3, <2>4 DEF Holds
    <2>. QED  BY <1>3, <2>1, <2>3, <2>5 DEF InWork, Owed
  <1>4. CASE w.command.op.op = "feed" /\ engine # "offline"
    <2>. DEFINE u == [w EXCEPT !.stream = w.local]
                heard == Session!Heard(engine, w.local.audio)
                v == [u EXCEPT !.shown = heard]
                answer == News(w)
                n == Answered(v, answer)
    <2>1. Finished(w) = n
      <3>1. CASE engine = "online"
        <4>1. Finished(w) = OnlineFinished(w)
          BY <3>1, Zenon DEF Finished
        <4>2. OnlineFinished(w) = Answered([w EXCEPT !.stream = w.local, !.shown = Heard(w.local.audio)], News(w))
          BY <1>4, Zenon DEF OnlineFinished
        <4>. QED  BY <4>1, <4>2 DEF Heard
      <3>2. CASE engine = "vad"
        <4>1. Finished(w) = DetectorFinished(w)
          BY <3>2, Zenon DEF Finished
        <4>. QED  BY <4>1 DEF DetectorFinished, Heard
      <3>. QED  BY <1>4, <3>1, <3>2 DEF Threaded
    <2>2. heard \in SUBSET Nat
      BY <1>1, HeardType
    <2>3. answer = IF heard # w.shown THEN Session!Events(<<Session!Partial(heard)>>) ELSE Nothing
      BY DEF News, Heard, Reported
    <2>. HIDE DEF heard
    <2>4. answer \in Answers
      BY <2>2, <2>3, ReportsAre, AnswersAre
    <2>. HIDE DEF answer
    <2>5. u \in Workers /\ u.stream = w.local /\ u.command = w.command /\ u.generation = w.generation
      BY <1>1, SetStream DEF SamePc, SameWork, SameNumber
    <2>. HIDE DEF u
    <2>6. v \in Workers /\ v.stream = w.local /\ v.command = w.command /\ v.generation = w.generation /\ v.shown = heard
      BY <2>2, <2>5, SetShown DEF SamePc, SameWork, SameNumber
    <2>. HIDE DEF v
    <2>7. /\ n \in Workers /\ n.pc = "reply" /\ n.reply = answer /\ n.command = w.command /\ n.stream = w.local
          /\ n.shown = heard /\ n.generation = w.generation
      BY <2>4, <2>6, AnsweredIs DEF SameHeld, SameNumber
    <2>. HIDE DEF n
    <2>8. Holds(engine, n)
      BY <1>1, <2>7 DEF Holds, heard
    <2>9. Owed(engine, w) = answer
      BY <1>4, <2>3 DEF Owed, heard
    <2>. QED  BY <1>4, <2>1, <2>7, <2>8, <2>9 DEF InWork
  <1>5. \/ w.command.op.op = "end" /\ engine # "vad"
        \/ w.command.op.op = "begin" /\ engine = "online"
        \/ w.command.op.op = "feed" /\ engine # "offline"
    BY <1>1 DEF Holds, Threaded
  <1>. QED  BY <1>2, <1>3, <1>4, <1>5

-----------------------------------------------------------------------------
(***************************************************************************)
(* The refinement mapping, as a function of the state.                     *)
(***************************************************************************)

HandOf(e, w, g) == IF e \in Threaded /\ w.generation # g THEN Session!Fresh(e) ELSE InWork(w)
SessionAs(e, w, cs, g) ==
    IF w.pc = "dead" THEN Session!Fresh(e) ELSE Caught(cs, g, HandOf(e, w, g))
CallAs(e, w, cs, g, p) ==
    IF p = NoPending THEN NoAnswer
    ELSE IF p.answer # Waiting THEN
      IF p.generation # g /\ p.answer # Session!EngineFailed THEN Nothing ELSE p.answer
    ELSE IF p.generation # g THEN Nothing
    ELSE IF cs # <<>> THEN Session!Answer(e, Before(cs, g, HandOf(e, w, g)), cs[Len(cs)].op)
    ELSE IF w.pc = "reply" THEN w.reply
    ELSE Owed(e, w)

\* The two expressions EngineWorkers gives for the variables of Utterances.
MySession == IF worker.pc = "dead" THEN Session!Fresh(engine) ELSE CaughtUp
MyCall    == IF pending = NoPending THEN NoAnswer ELSE Promised

LEMMA MapIs ==
    EngineInv =>
      /\ MySession = SessionAs(engine, worker, commands, generation)
      /\ MyCall = CallAs(engine, worker, commands, generation, pending)
  <1>. SUFFICES ASSUME EngineInv
                PROVE  /\ MySession = SessionAs(engine, worker, commands, generation)
                       /\ MyCall = CallAs(engine, worker, commands, generation, pending)
    OBVIOUS
  <1>1. InHand = HandOf(engine, worker, generation)
    BY DEF InHand, HandOf, InWork
  <1>2. Sessions = Track(commands, generation, InHand)
    BY DEF Sessions, Track, Step, Moved
  <1>3. CaughtUp = Caught(commands, generation, HandOf(engine, worker, generation))
    BY <1>1, <1>2 DEF CaughtUp, Caught
  <1>4. Sessions[Len(commands)] = Before(commands, generation, HandOf(engine, worker, generation))
    BY <1>1, <1>2 DEF Before
  <1>5. ASSUME pending.answer = Waiting, commands = <<>>, worker.pc # "reply"
        PROVE  Finished(worker).reply = Owed(engine, worker)
    <2>1. worker.pc = "decode"
      BY <1>5 DEF EngineInv, OneAwaited
    <2>2. engine \in Threaded
      BY <2>1 DEF EngineInv, OneAwaited, EngineTyped, Engines, Session!Engines, Threaded
    <2>3. worker \in Workers /\ Holds(engine, worker)
      BY DEF EngineInv, EngineTyped, Served
    <2>. QED  BY <2>1, <2>2, <2>3, FinishedIs
  <1>6. MySession = SessionAs(engine, worker, commands, generation)
    BY <1>3 DEF MySession, SessionAs
  <1>7. Promised = CallAs(engine, worker, commands, generation, pending) \/ pending = NoPending
    BY <1>4, <1>5 DEF Promised, CallAs
  <1>8. MyCall = CallAs(engine, worker, commands, generation, pending)
    BY <1>7 DEF MyCall, CallAs
  <1>. QED  BY <1>6, <1>8

LEMMA MapIsThen ==
    EngineInv' =>
      /\ MySession' = SessionAs(engine', worker', commands', generation')
      /\ MyCall' = CallAs(engine', worker', commands', generation', pending')
  <1>1. (EngineInv =>
      /\ MySession = SessionAs(engine, worker, commands, generation)
      /\ MyCall = CallAs(engine, worker, commands, generation, pending))'
    BY MapIs, PTL
  <1>. QED  BY <1>1

-----------------------------------------------------------------------------
(***************************************************************************)
(* Every step of an engine keeps the invariant.                            *)
(***************************************************************************)

Pendings == [generation : Nat, answer : Answers \cup {NoAnswer, Waiting, Session!EngineFailed}]

LEMMA SetAnswer ==
    \A p \in Pendings, x \in Answers \cup {NoAnswer, Waiting, Session!EngineFailed} :
      LET n == [p EXCEPT !.answer = x]
      IN  n \in Pendings /\ n.answer = x /\ n.generation = p.generation
  BY DEF Pendings

LEMMA PendingsAre ==
    /\ NoPending \in Pendings
    /\ \A g \in Nat, x \in Answers \cup {NoAnswer, Waiting, Session!EngineFailed} :
         LET n == [generation |-> g, answer |-> x]
         IN  n \in Pendings /\ n.answer = x /\ n.generation = g
    /\ \A p \in Pendings : p.generation \in Nat /\ p.answer \in Answers \cup {NoAnswer, Waiting, Session!EngineFailed}
  BY DEF Pendings, NoPending

\* A command nobody awaits any more.
LEMMA UnawaitedIs ==
    \A c \in Commands \cup {NoCommand} :
      LET d == [c EXCEPT !.awaited = FALSE]
      IN  /\ d \in Commands \cup {NoCommand} /\ (c \in Commands => d \in Commands)
          /\ d.op = c.op /\ d.generation = c.generation /\ d.awaited = FALSE
  <1>1. ASSUME NEW c \in Commands
        PROVE  LET d == [c EXCEPT !.awaited = FALSE]
               IN  d \in Commands /\ d.op = c.op /\ d.generation = c.generation /\ d.awaited = FALSE
    BY DEF Commands
  <1>2. [NoCommand EXCEPT !.awaited = FALSE] = NoCommand /\ NoCommand.awaited = FALSE
    <2>. DEFINE none == [op |-> "none", chunk |-> "none"]
                A == [op : {none}, generation : {0}, awaited : BOOLEAN]
                n == [NoCommand EXCEPT !.awaited = FALSE]
    <2>. HIDE DEF none
    <2>1. NoCommand \in A /\ NoCommand.awaited = FALSE
      BY DEF NoCommand, none
    <2>2. \A c \in A : LET d == [c EXCEPT !.awaited = FALSE] IN d \in A /\ d.awaited = FALSE
      OBVIOUS
    <2>3. \A c \in A : c.awaited = FALSE => c = [op |-> none, generation |-> 0, awaited |-> FALSE]
      OBVIOUS
    <2>. HIDE DEF A
    <2>. QED  BY <2>1, <2>2, <2>3
  <1>3. NoCommand \in Commands => NoCommand.op \in Session!Ops
    BY DEF Commands
  <1>. QED  BY <1>1, <1>2

LEMMA ForgottenIs ==
    ASSUME NEW w \in Workers
    PROVE  LET n == [w EXCEPT !.command.awaited = FALSE]
           IN  /\ n \in Workers /\ n.command \in Commands \cup {NoCommand}
               /\ (w.command \in Commands => n.command \in Commands)
               /\ n.command.op = w.command.op /\ n.command.generation = w.command.generation
               /\ n.command.awaited = FALSE
               /\ n.pc = w.pc /\ n.generation = w.generation /\ n.stream = w.stream /\ n.shown = w.shown
               /\ n.local = w.local /\ n.reply = w.reply
  <1>. DEFINE c == [w.command EXCEPT !.awaited = FALSE]
              n == [w EXCEPT !.command = c]
  <1>1. [w EXCEPT !.command.awaited = FALSE] = n
    BY DEF Workers
  <1>2. /\ c \in Commands \cup {NoCommand} /\ (w.command \in Commands => c \in Commands)
        /\ c.op = w.command.op /\ c.generation = w.command.generation /\ c.awaited = FALSE
    BY WorkerFields, UnawaitedIs
  <1>. HIDE DEF c
  <1>3. /\ n \in Workers /\ n.command = c /\ n.local = w.local /\ n.reply = w.reply
        /\ SamePc(n, w) /\ SameHeld(n, w) /\ SameNumber(n, w)
    BY <1>2, SetCommand
  <1>. QED  BY <1>1, <1>2, <1>3 DEF SamePc, SameHeld, SameNumber

LEMMA CommandFields ==
    ASSUME NEW cs \in Seq(Commands)
    PROVE  \A i \in 1..Len(cs) : cs[i] \in Commands /\ cs[i].generation \in Nat /\ cs[i].op \in Session!Ops
  <1>1. \A i \in 1..Len(cs) : cs[i] \in Commands
    OBVIOUS
  <1>2. \A c \in Commands : c.generation \in Nat /\ c.op \in Session!Ops
    BY DEF Commands
  <1>. QED  BY <1>1, <1>2

LEMMA EngineInitKeeps == EngineInit => EngineInv
  <1>. SUFFICES ASSUME EngineInit PROVE EngineInv
    OBVIOUS
  <1>1. /\ engine \in Engines /\ generation = 0 /\ commands = <<>> /\ pending = NoPending
        /\ worker = [pc |-> "idle", generation |-> 0, stream |-> Session!Fresh(engine),
                     shown |-> Session!Silent, command |-> NoCommand, local |-> NoStream, reply |-> Nothing]
    BY DEF EngineInit
  <1>2. worker \in Workers
    BY <1>1, FreshIs, AnswersAre DEF Workers, Session!Silent
  <1>3. /\ worker.pc = "idle" /\ worker.generation = 0 /\ worker.stream = Session!Fresh(engine)
        /\ worker.shown = Session!Silent /\ worker.command.awaited = FALSE
    BY <1>1 DEF NoCommand
  <1>4. EngineTyped
    BY <1>1, <1>2, PendingsAre DEF EngineTyped, Pendings
  <1>5. Len(commands) = 0
    BY <1>1
  <1>6. NoneAhead
    BY <1>1, <1>3, <1>5, AnswersAre DEF NoneAhead
  <1>7. OneAwaited
    BY <1>1, <1>3, <1>5, AnswersAre DEF OneAwaited
  <1>8. Served
    <2>1. engine = "vad" => worker.stream.open
      BY <1>3, FreshIs DEF Session!Opened
    <2>2. engine = "vad" => worker.stream.audio = <<>>
      BY <1>3, FreshIs DEF Session!Opened
    <2>3. engine # "vad" => ~worker.stream.open
      BY <1>3, FreshIs
    <2>4. engine = "vad" => worker.shown = Session!Heard(engine, worker.stream.audio)
      <3>1. <<>> \in Seq(Session!Chunks)
        OBVIOUS
      <3>. QED  BY <1>3, <2>2, <3>1, HeardType
    <2>. QED  BY <1>3, <1>5, <2>1, <2>3, <2>4 DEF Served, Holds
  <1>. QED  BY <1>4, <1>6, <1>7, <1>8 DEF EngineInv

LEMMA SubmitsKeeps ==
    ASSUME EngineInv, NEW op \in Session!Ops, Submits(op), engine \in Threaded,
           engine = "vad" => op.op = "feed"
    PROVE  EngineInv'
  <1>1. /\ EngineTyped /\ NoneAhead /\ OneAwaited /\ Served
        /\ engine' = engine /\ generation' = generation /\ worker' = worker
        /\ pending = NoPending
    BY DEF EngineInv, Submits, Idle
  <1>2. CASE worker.pc = "dead"
    <2>1. commands' = commands /\ pending' = pending
      BY <1>2 DEF Submits
    <2>. QED  BY <1>1, <2>1 DEF EngineInv, EngineTyped, NoneAhead, OneAwaited, Served
  <1>3. CASE worker.pc # "dead"
    <2>. DEFINE c == [op |-> op, generation |-> generation, awaited |-> TRUE]
                N == Len(commands)
                cs == Append(commands, c)
    <2>1. commands' = cs /\ pending' = [generation |-> generation, answer |-> Waiting]
      BY <1>3 DEF Submits
    <2>2. c \in Commands /\ c.op = op /\ c.generation = generation /\ c.awaited = TRUE
      BY <1>1 DEF Commands, EngineTyped
    <2>. HIDE DEF c
    <2>3. /\ N \in Nat /\ cs \in Seq(Commands) /\ Len(cs) = N + 1 /\ cs[N + 1] = c /\ cs # <<>>
          /\ \A i \in 1..N : cs[i] = commands[i]
          /\ \A i \in 1..(N + 1) : i \in 1..N \/ i = N + 1
      <3>1. commands \in Seq(Commands) /\ c \in Commands
        BY <1>1, <2>2 DEF EngineTyped
      <3>2. N \in Nat /\ cs \in Seq(Commands) /\ Len(cs) = N + 1 /\ cs[N + 1] = c
        BY ONLY <3>1
      <3>3. \A i \in 1..N : cs[i] = commands[i]
        BY ONLY <3>1
      <3>. HIDE DEF cs, N
      <3>. QED  BY <3>2, <3>3
    <2>. HIDE DEF cs, N
    <2>4. pending' \in Pendings /\ pending'.answer = Waiting /\ pending'.generation = generation
      BY <1>1, <2>1, PendingsAre DEF EngineTyped
    <2>5. EngineTyped'
      BY <1>1, <2>1, <2>3, <2>4 DEF EngineTyped, Pendings
    <2>6. NoneAhead'
      <3>1. \A i \in 1..(N + 1) : cs[i].generation <= generation
        BY <1>1, <2>2, <2>3 DEF NoneAhead, N, EngineTyped
      <3>. QED  BY <1>1, <2>1, <2>3, <2>4, <3>1 DEF NoneAhead, EngineTyped
    <2>7. OneAwaited'
      <3>1. /\ ~worker.command.awaited /\ \A i \in 1..N : ~commands[i].awaited
            /\ engine # "buffered"
        BY <1>1, AnswersAre DEF OneAwaited, N, Threaded
      <3>2. \A i \in 1..(N + 1) : cs[i].awaited => i = N + 1 /\ cs[i].generation = generation
        BY <2>2, <2>3, <3>1
      <3>3. cs[Len(cs)].awaited
        BY <2>2, <2>3
      <3>. QED  BY <1>1, <1>3, <2>1, <2>3, <2>4, <3>1, <3>2, <3>3, AnswersAre DEF OneAwaited
    <2>8. Served'
      <3>1. engine = "vad" => \A i \in 1..(N + 1) : cs[i].op.op = "feed"
        BY <1>1, <2>2, <2>3 DEF Served, N
      <3>. QED  BY <1>1, <2>1, <2>3, <3>1 DEF Served
    <2>. QED  BY <2>5, <2>6, <2>7, <2>8 DEF EngineInv
  <1>. QED  BY <1>2, <1>3

\* A call that has its answer ends.
LEMMA PendingEndsKeeps ==
    ASSUME EngineInv, pending.answer # Waiting, pending' = NoPending,
           UNCHANGED <<engine, generation, commands, worker>>
    PROVE  EngineInv'
  <1>1. EngineTyped /\ NoneAhead /\ OneAwaited /\ Served
    BY DEF EngineInv
  <1>2. NoPending \in Pendings /\ pending'.answer = NoAnswer /\ pending'.generation = 0
    BY PendingsAre, AnswersAre
  <1>3. ~worker.command.awaited /\ \A i \in 1..Len(commands) : ~commands[i].awaited
    BY <1>1 DEF OneAwaited
  <1>4. EngineTyped'
    BY <1>1, <1>2 DEF EngineTyped, Pendings
  <1>5. NoneAhead'
    BY <1>1, <1>2 DEF NoneAhead, EngineTyped
  <1>6. OneAwaited'
    BY <1>1, <1>2, <1>3, AnswersAre DEF OneAwaited
  <1>7. Served'
    BY <1>1 DEF Served
  <1>. QED  BY <1>4, <1>5, <1>6, <1>7 DEF EngineInv

\* The caller's future is dropped, and the session may be cancelled with it.
LEMMA ForgottenKeeps ==
    ASSUME EngineInv, pending' = NoPending, commands' = Unwanted(commands), engine' = engine,
           generation' \in {generation, generation + 1},
           NEW v, v = [worker EXCEPT !.command.awaited = FALSE],
           worker' = v \/ (engine = "buffered" /\ worker' = [v EXCEPT !.stream = NoStream])
    PROVE  EngineInv'
  <1>1. EngineTyped /\ NoneAhead /\ OneAwaited /\ Served
    BY DEF EngineInv
  <1>2. NoPending \in Pendings /\ pending'.answer = NoAnswer /\ pending'.generation = 0
    BY PendingsAre, AnswersAre
  <1>3. commands \in Seq(Commands) /\ worker \in Workers /\ generation \in Nat
    BY <1>1 DEF EngineTyped
  <1>4. /\ v \in Workers /\ v.command \in Commands \cup {NoCommand}
        /\ (worker.command \in Commands => v.command \in Commands)
        /\ v.command.op = worker.command.op /\ v.command.generation = worker.command.generation
        /\ v.command.awaited = FALSE
        /\ v.pc = worker.pc /\ v.generation = worker.generation /\ v.stream = worker.stream /\ v.shown = worker.shown
        /\ v.local = worker.local /\ v.reply = worker.reply
    BY <1>3, ForgottenIs
  <1>5. /\ worker' \in Workers
        /\ (worker.command \in Commands => worker'.command \in Commands)
        /\ worker'.command.op = worker.command.op /\ worker'.command.generation = worker.command.generation
        /\ worker'.command.awaited = FALSE
        /\ worker'.pc = worker.pc /\ worker'.generation = worker.generation /\ worker'.shown = worker.shown
        /\ worker'.local = worker.local
        /\ worker'.stream = IF worker' = v THEN worker.stream ELSE NoStream
    <2>1. CASE worker' = v
      BY <1>4, <2>1
    <2>2. CASE worker' # v
      <3>. DEFINE n == [v EXCEPT !.stream = NoStream]
      <3>1. /\ n \in Workers /\ n.stream = NoStream /\ n.shown = v.shown
            /\ SamePc(n, v) /\ SameWork(n, v) /\ SameNumber(n, v)
        BY <1>4, SetStream, FreshIs
      <3>. HIDE DEF n
      <3>2. worker' = n
        BY <2>2 DEF n
      <3>. QED  BY <1>4, <2>2, <3>1, <3>2 DEF SamePc, SameWork, SameNumber
    <2>. QED  BY <2>1, <2>2
  <1>6. /\ commands' \in Seq(Commands) /\ Len(commands') = Len(commands) /\ (commands' = <<>> <=> commands = <<>>)
        /\ \A i \in 1..Len(commands) :
             /\ commands'[i].op = commands[i].op /\ commands'[i].generation = commands[i].generation
             /\ commands'[i].awaited = FALSE
    BY <1>3, UnwantedIs
  <1>7. EngineTyped'
    BY <1>1, <1>2, <1>3, <1>5, <1>6 DEF EngineTyped, Pendings
  <1>8. NoneAhead'
    <2>1. \A i \in 1..Len(commands) : commands[i].generation \in Nat
      BY <1>3, CommandFields
    <2>2. generation <= generation' /\ generation' \in Nat
      BY <1>3
    <2>3. \A i \in 1..Len(commands') : commands'[i].generation <= generation'
      <3>1. ASSUME NEW i \in 1..Len(commands)
            PROVE  commands[i].generation <= generation'
        <4>1. commands[i].generation <= generation
          BY <1>1 DEF NoneAhead
        <4>. QED  BY <1>3, <2>1, <2>2, <4>1
      <3>. QED  BY <1>6, <3>1
    <2>4. worker'.generation <= generation'
      <3>1. worker.generation \in Nat /\ worker.generation <= generation
        BY <1>1, <1>3, WorkerFields DEF NoneAhead
      <3>. QED  BY <1>3, <1>5, <2>2, <3>1
    <2>. QED  BY <1>2, <2>2, <2>3, <2>4 DEF NoneAhead
  <1>9. OneAwaited'
    BY <1>1, <1>2, <1>5, <1>6, AnswersAre DEF OneAwaited
  <1>10. Served'
    <2>1. worker' # v => engine = "buffered" /\ worker.pc = "idle"
      BY <1>1 DEF OneAwaited
    <2>2. Holds(engine, worker')
      BY <1>1, <1>5, <2>1 DEF Served, Holds
    <2>. QED  BY <1>1, <1>6, <2>2 DEF Served
  <1>. QED  BY <1>7, <1>8, <1>9, <1>10 DEF EngineInv

LEMMA CancelKeeps ==
    ASSUME EngineInv, generation' = generation + 1, UNCHANGED <<engine, commands, pending>>,
           worker' = worker \/ (engine = "buffered" /\ worker' = [worker EXCEPT !.stream = NoStream])
    PROVE  EngineInv'
  <1>1. EngineTyped /\ NoneAhead /\ OneAwaited /\ Served
    BY DEF EngineInv
  <1>2. commands \in Seq(Commands) /\ worker \in Workers /\ generation \in Nat /\ pending \in Pendings
    BY <1>1 DEF EngineTyped, Pendings
  <1>3. /\ worker' \in Workers /\ worker'.command = worker.command /\ worker'.pc = worker.pc
        /\ worker'.generation = worker.generation /\ worker'.shown = worker.shown /\ worker'.local = worker.local
        /\ worker'.stream = IF worker' = worker THEN worker.stream ELSE NoStream
    <2>1. CASE worker' = worker
      BY <1>2, <2>1
    <2>2. CASE worker' # worker
      <3>. DEFINE n == [worker EXCEPT !.stream = NoStream]
      <3>1. /\ n \in Workers /\ n.stream = NoStream /\ n.shown = worker.shown
            /\ SamePc(n, worker) /\ SameWork(n, worker) /\ SameNumber(n, worker)
        BY <1>2, SetStream, FreshIs
      <3>. HIDE DEF n
      <3>2. worker' = n
        BY <2>2 DEF n
      <3>. QED  BY <2>2, <3>1, <3>2 DEF SamePc, SameWork, SameNumber
    <2>. QED  BY <2>1, <2>2
  <1>4. EngineTyped'
    BY <1>1, <1>2, <1>3 DEF EngineTyped
  <1>5. NoneAhead'
    <2>1. ASSUME NEW i \in 1..Len(commands)
          PROVE  commands[i].generation <= generation + 1
      <3>1. commands[i].generation \in Nat /\ commands[i].generation <= generation
        BY <1>1, <1>2, CommandFields DEF NoneAhead
      <3>. QED  BY <1>2, <3>1
    <2>2. worker.generation <= generation + 1 /\ pending.generation <= generation + 1
      BY <1>1, <1>2, WorkerFields, PendingsAre DEF NoneAhead
    <2>. QED  BY <1>3, <2>1, <2>2 DEF NoneAhead
  <1>6. OneAwaited'
    BY <1>1, <1>3 DEF OneAwaited
  <1>7. Served'
    <2>1. worker' # worker => engine = "buffered" /\ worker.pc = "idle"
      BY <1>1 DEF OneAwaited
    <2>2. Holds(engine, worker')
      BY <1>1, <1>3, <2>1 DEF Served, Holds
    <2>. QED  BY <1>1, <2>2 DEF Served
  <1>. QED  BY <1>4, <1>5, <1>6, <1>7 DEF EngineInv

LEMMA TakeCommandWork ==
    ASSUME EngineInv, TakeCommand
    PROVE  /\ commands # <<>> /\ worker.pc = "idle" /\ engine \in Threaded /\ commands' = Tail(commands)
           /\ worker' \in Workers /\ worker'.pc \in {"decode", "reply"} /\ worker'.generation = generation
           /\ worker'.command = Head(commands) /\ Head(commands) \in Commands
           /\ Holds(engine, worker')
           /\ InWork(worker') = Moved(HandOf(engine, worker, generation), Head(commands), generation)
           /\ Head(commands).generation = generation =>
                (IF worker'.pc = "reply" THEN worker'.reply ELSE Owed(engine, worker'))
                  = Session!Answer(engine, HandOf(engine, worker, generation), Head(commands).op)
           /\ UNCHANGED <<engine, generation, pending>>
  <1>. DEFINE c == Head(commands)
              r == Refreshed(worker)
              w == [r EXCEPT !.command = c]
  <1>1. EngineTyped /\ NoneAhead /\ OneAwaited /\ Served
    BY DEF EngineInv
  <1>2. /\ commands \in Seq(Commands) /\ worker \in Workers /\ generation \in Nat
        /\ commands # <<>> /\ worker.pc = "idle" /\ commands' = Tail(commands)
        /\ UNCHANGED <<engine, generation, pending>>
        /\ worker' = IF c.generation # generation THEN Answered(w, Nothing) ELSE Carried(w, c.op)
    BY <1>1 DEF EngineTyped, TakeCommand
  <1>3. engine \in Threaded
    BY <1>1, <1>2 DEF EngineTyped, OneAwaited, Engines, Session!Engines, Threaded
  <1>4. c \in Commands /\ c.op \in Session!Ops /\ (engine = "vad" => c.op.op = "feed")
    <2>1. Head(commands) = commands[1] /\ 1 \in 1..Len(commands)
      BY <1>2
    <2>. QED  BY <1>1, <1>2, <2>1, CommandFields DEF Served
  <1>. HIDE DEF c
  <1>5. /\ r \in Workers /\ r.generation = generation
        /\ (worker.generation = generation => r = worker)
        /\ (worker.generation # generation => r.stream = Session!Fresh(engine))
        /\ (worker.generation # generation /\ engine # "offline" => r.shown = Session!Silent)
        /\ r.pc = "idle"
    BY <1>2, <1>3, RefreshedIs DEF SamePc
  <1>. HIDE DEF r
  <1>6. /\ w \in Workers /\ w.command = c /\ w.pc = "idle" /\ w.generation = generation
        /\ w.stream = r.stream /\ w.shown = r.shown
    BY <1>4, <1>5, SetCommand DEF SamePc, SameHeld, SameNumber
  <1>. HIDE DEF w
  <1>7. w.stream = HandOf(engine, worker, generation)
    BY <1>2, <1>3, <1>5, <1>6 DEF HandOf, InWork
  <1>8. Holds(engine, w)
    <2>1. CASE worker.generation = generation
      BY <1>1, <1>2, <1>5, <1>6, <2>1 DEF Served, Holds
    <2>2. CASE worker.generation # generation
      <3>1. w.stream = Session!Fresh(engine) /\ (engine # "offline" => w.shown = Session!Silent)
        BY <1>5, <1>6, <2>2
      <3>2. engine = "vad" => w.stream.open /\ w.stream.audio = <<>>
        BY <3>1, FreshIs DEF Session!Opened
      <3>3. engine # "vad" => ~w.stream.open
        BY <3>1, FreshIs
      <3>4. engine = "vad" => w.shown = Session!Heard(engine, w.stream.audio)
        <4>1. <<>> \in Seq(Session!Chunks)
          OBVIOUS
        <4>. QED  BY <3>1, <3>2, <4>1, HeardType
      <3>. QED  BY <1>6, <3>2, <3>3, <3>4 DEF Holds
    <2>. QED  BY <2>1, <2>2
  <1>9. CASE c.generation = generation
    <2>1. Ready(w, c.op)
      BY <1>3, <1>4, <1>6, <1>8, <1>9 DEF Ready
    <2>2. worker' = Carried(w, c.op)
      BY <1>2, <1>9
    <2>3. Serves(worker', w, c.op)
      BY <2>1, <2>2, CarriedServes
    <2>4. InWork(worker') = Moved(HandOf(engine, worker, generation), c, generation)
      BY <1>7, <1>9, <2>3 DEF Serves, Moved
    <2>. QED  BY <1>2, <1>3, <1>4, <1>6, <1>7, <2>3, <2>4 DEF Serves, c
  <1>10. CASE c.generation # generation
    <2>1. worker' = Answered(w, Nothing)
      BY <1>2, <1>10
    <2>2. /\ worker' \in Workers /\ worker'.pc = "reply" /\ worker'.command = c
          /\ worker'.stream = w.stream /\ worker'.shown = w.shown /\ worker'.generation = generation
      BY <1>6, <2>1, AnsweredIs, AnswersAre DEF SameHeld, SameNumber
    <2>3. Holds(engine, worker')
      BY <1>6, <1>8, <2>2 DEF Holds
    <2>4. InWork(worker') = Moved(HandOf(engine, worker, generation), c, generation)
      BY <1>7, <1>10, <2>2 DEF InWork, Moved
    <2>. QED  BY <1>2, <1>3, <1>4, <1>10, <2>2, <2>3, <2>4 DEF c
  <1>. QED  BY <1>9, <1>10

LEMMA TakeCommandKeeps ==
    ASSUME EngineInv, TakeCommand
    PROVE  EngineInv'
  <1>1. EngineTyped /\ NoneAhead /\ OneAwaited /\ Served
    BY DEF EngineInv
  <1>2. /\ commands # <<>> /\ worker.pc = "idle" /\ engine \in Threaded /\ commands' = Tail(commands)
        /\ worker' \in Workers /\ worker'.pc \in {"decode", "reply"} /\ worker'.generation = generation
        /\ worker'.command = Head(commands) /\ Head(commands) \in Commands
        /\ Holds(engine, worker')
        /\ UNCHANGED <<engine, generation, pending>>
    BY TakeCommandWork
  <1>3. commands \in Seq(Commands) /\ generation \in Nat
    BY <1>1 DEF EngineTyped
  <1>. DEFINE cs == Tail(commands)
  <1>4. /\ cs \in Seq(Commands) /\ Len(commands) = Len(cs) + 1 /\ Head(commands) = commands[1] /\ Len(cs) \in Nat
        /\ \A i \in 1..Len(cs) : i + 1 \in 1..Len(commands) /\ cs[i] = commands[i + 1]
        /\ (cs = <<>> <=> Len(cs) = 0) /\ 1 \in 1..Len(commands)
    <2>1. /\ cs \in Seq(Commands) /\ Len(commands) = Len(cs) + 1 /\ Head(commands) = commands[1]
          /\ \A i \in 1..Len(cs) : i + 1 \in 1..Len(commands) /\ cs[i] = commands[i + 1]
      BY <1>2, <1>3, FreshIs, CaughtTail
    <2>2. 1 \in 1..Len(commands)
      BY <1>2, <1>3
    <2>. HIDE DEF cs
    <2>. QED  BY <2>1, <2>2
  <1>. HIDE DEF cs
  <1>5. EngineTyped'
    BY <1>1, <1>2, <1>4 DEF EngineTyped, cs
  <1>6. NoneAhead'
    BY <1>1, <1>2, <1>3, <1>4 DEF NoneAhead, cs
  <1>7. OneAwaited'
    <2>1. ASSUME NEW i \in 1..Len(cs), cs[i].awaited
          PROVE  pending.answer = Waiting /\ i = Len(cs) /\ cs[i].generation = pending.generation
      <3>1. i + 1 \in 1..Len(commands) /\ commands[i + 1].awaited /\ commands[i + 1] = cs[i]
        BY <1>4, <2>1
      <3>. QED  BY <1>1, <1>4, <3>1 DEF OneAwaited
    <2>2. commands[1].awaited => pending.answer = Waiting /\ cs = <<>> /\ commands[1].generation = pending.generation
      BY <1>1, <1>4 DEF OneAwaited
    <2>3. pending.answer = Waiting => commands[1].awaited \/ (cs # <<>> /\ cs[Len(cs)].awaited)
      <3>1. pending.answer = Waiting => commands[Len(commands)].awaited
        BY <1>1, <1>2 DEF OneAwaited
      <3>2. CASE cs = <<>>
        BY <1>4, <3>1, <3>2
      <3>3. CASE cs # <<>>
        <4>1. Len(cs) \in 1..Len(cs)
          BY <1>4, <3>3
        <4>. QED  BY <1>4, <3>1, <3>3, <4>1
      <3>. QED  BY <3>2, <3>3
    <2>. QED  BY <1>1, <1>2, <1>4, <2>1, <2>2, <2>3 DEF OneAwaited, Threaded, cs
  <1>8. Served'
    <2>1. engine = "vad" => \A i \in 1..Len(cs) : cs[i].op.op = "feed"
      BY <1>1, <1>4 DEF Served
    <2>. QED  BY <1>2, <2>1 DEF Served, cs
  <1>. QED  BY <1>5, <1>6, <1>7, <1>8 DEF EngineInv

\* A step of the worker on the command it has in hand.
LEMMA WorkerStepKeeps ==
    ASSUME EngineInv, worker.pc = "decode", UNCHANGED <<engine, generation, commands, pending>>,
           worker' \in Workers, worker'.pc = "reply", worker'.command = worker.command,
           worker'.generation <= generation, Holds(engine, worker')
    PROVE  EngineInv'
  <1>1. EngineTyped /\ NoneAhead /\ OneAwaited /\ Served
    BY DEF EngineInv
  <1>2. EngineTyped'
    BY <1>1 DEF EngineTyped
  <1>3. NoneAhead'
    BY <1>1 DEF NoneAhead
  <1>4. OneAwaited'
    BY <1>1 DEF OneAwaited
  <1>5. Served'
    BY <1>1 DEF Served
  <1>. QED  BY <1>2, <1>3, <1>4, <1>5 DEF EngineInv

LEMMA AbandonWork ==
    ASSUME EngineInv, Abandon
    PROVE  /\ worker.pc = "decode" /\ engine \in Threaded /\ worker.generation # generation
           /\ UNCHANGED <<engine, generation, commands, pending>>
           /\ worker' \in Workers /\ worker'.pc = "reply" /\ worker'.command = worker.command
           /\ worker'.generation = generation /\ Holds(engine, worker')
           /\ worker'.stream = Session!Fresh(engine)
  <1>1. EngineTyped /\ NoneAhead /\ OneAwaited /\ Served
    BY DEF EngineInv
  <1>2. /\ worker \in Workers /\ generation \in Nat /\ worker.pc = "decode" /\ worker.generation # generation
        /\ UNCHANGED <<engine, generation, commands, pending>>
    BY <1>1 DEF EngineTyped, Abandon
  <1>3. engine \in Threaded
    BY <1>1, <1>2 DEF EngineTyped, OneAwaited, Engines, Session!Engines, Threaded
  <1>. DEFINE r == Refreshed(worker)
              a == Answered(r, Nothing)
              n == [a EXCEPT !.local = NoStream]
  <1>4. /\ r \in Workers /\ r.generation = generation /\ r.stream = Session!Fresh(engine)
        /\ (engine # "offline" => r.shown = Session!Silent) /\ r.command = worker.command
    BY <1>2, <1>3, RefreshedIs DEF SameWork
  <1>. HIDE DEF r
  <1>5. /\ a \in Workers /\ a.pc = "reply" /\ a.command = r.command /\ a.stream = r.stream /\ a.shown = r.shown
        /\ a.generation = r.generation
    BY <1>4, AnsweredIs, AnswersAre DEF SameHeld, SameNumber
  <1>. HIDE DEF a
  <1>6. /\ n \in Workers /\ n.pc = "reply" /\ n.command = a.command /\ n.stream = a.stream /\ n.shown = a.shown
        /\ n.generation = a.generation
    BY <1>5, SetLocal, FreshIs DEF SamePc, SameHeld, SameNumber
  <1>. HIDE DEF n
  <1>7. worker' = n
    BY DEF Abandon, n, a, r
  <1>8. Holds(engine, n)
    <2>1. engine = "vad" => n.stream.open /\ n.stream.audio = <<>>
      BY <1>4, <1>5, <1>6, FreshIs DEF Session!Opened
    <2>2. engine # "vad" => ~n.stream.open
      BY <1>4, <1>5, <1>6, FreshIs
    <2>3. engine = "vad" => n.shown = Session!Heard(engine, n.stream.audio)
      <3>1. <<>> \in Seq(Session!Chunks)
        OBVIOUS
      <3>. QED  BY <1>4, <1>5, <1>6, <2>1, <3>1, HeardType
    <2>. QED  BY <1>6, <2>1, <2>2, <2>3 DEF Holds
  <1>. QED  BY <1>2, <1>3, <1>4, <1>5, <1>6, <1>7, <1>8

LEMMA DecodedWork ==
    ASSUME EngineInv, Decoded
    PROVE  /\ worker.pc = "decode" /\ engine \in Threaded /\ worker.generation = generation
           /\ UNCHANGED <<engine, generation, commands, pending>>
           /\ worker' \in Workers /\ worker'.pc = "reply" /\ worker'.command = worker.command
           /\ worker'.generation = generation /\ Holds(engine, worker')
           /\ worker'.stream = InWork(worker) /\ worker'.reply = Owed(engine, worker)
  <1>1. EngineTyped /\ NoneAhead /\ OneAwaited /\ Served
    BY DEF EngineInv
  <1>2. /\ worker \in Workers /\ generation \in Nat /\ worker.pc = "decode" /\ worker.generation = generation
        /\ UNCHANGED <<engine, generation, commands, pending>>
    BY <1>1 DEF EngineTyped, Decoded
  <1>3. engine \in Threaded
    BY <1>1, <1>2 DEF EngineTyped, OneAwaited, Engines, Session!Engines, Threaded
  <1>. DEFINE a == Finished(worker)
              n == [a EXCEPT !.local = NoStream]
  <1>4. /\ a \in Workers /\ a.pc = "reply" /\ a.command = worker.command /\ a.generation = worker.generation
        /\ a.reply = Owed(engine, worker) /\ a.stream = InWork(worker) /\ Holds(engine, a)
    BY <1>1, <1>2, <1>3, FinishedIs DEF Served
  <1>. HIDE DEF a
  <1>5. /\ n \in Workers /\ n.pc = "reply" /\ n.command = a.command /\ n.stream = a.stream /\ n.shown = a.shown
        /\ n.generation = a.generation /\ n.reply = a.reply
    BY <1>4, SetLocal, FreshIs DEF SamePc, SameHeld, SameNumber
  <1>. HIDE DEF n
  <1>6. worker' = n
    BY DEF Decoded, n, a
  <1>7. Holds(engine, n)
    BY <1>4, <1>5 DEF Holds
  <1>. QED  BY <1>2, <1>3, <1>4, <1>5, <1>6, <1>7

LEMMA ReplyWork ==
    ASSUME EngineInv, Reply
    PROVE  /\ worker.pc = "reply" /\ UNCHANGED <<engine, generation, commands>>
           /\ worker' \in Workers /\ worker'.pc = "idle" /\ worker'.command = NoCommand
           /\ worker'.stream = worker.stream /\ worker'.shown = worker.shown
           /\ worker'.generation = worker.generation
           /\ IF worker.command.awaited
                THEN /\ pending' \in Pendings /\ pending'.answer = worker.reply
                     /\ pending'.generation = pending.generation
                ELSE pending' = pending
  <1>1. worker \in Workers /\ pending \in Pendings
    BY DEF EngineInv, EngineTyped, Pendings
  <1>. DEFINE u == [worker EXCEPT !.pc = "idle"]
              v == [u EXCEPT !.command = NoCommand]
              n == [v EXCEPT !.reply = Nothing]
  <1>2. u \in Workers /\ u.pc = "idle" /\ SameHeld(u, worker) /\ SameNumber(u, worker)
    BY <1>1, SetPc
  <1>. HIDE DEF u
  <1>3. v \in Workers /\ v.command = NoCommand /\ SamePc(v, u) /\ SameHeld(v, u) /\ SameNumber(v, u)
    BY <1>2, SetCommand
  <1>. HIDE DEF v
  <1>4. n \in Workers /\ n.command = v.command /\ SamePc(n, v) /\ SameHeld(n, v) /\ SameNumber(n, v)
    BY <1>3, SetReply, AnswersAre
  <1>. HIDE DEF n
  <1>5. worker' = n
    BY DEF Reply, n, v, u
  <1>6. worker.reply \in Answers
    BY <1>1, WorkerFields
  <1>. DEFINE answer == worker.reply
              p == [pending EXCEPT !.answer = answer]
  <1>7. p \in Pendings /\ p.answer = worker.reply /\ p.generation = pending.generation
    <2>. HIDE DEF answer
    <2>1. answer \in Answers
      BY <1>6 DEF answer
    <2>2. p \in Pendings /\ p.answer = answer /\ p.generation = pending.generation
      BY <1>1, <2>1, SetAnswer
    <2>. QED  BY <2>2 DEF answer
  <1>. HIDE DEF p
  <1>8. /\ worker.pc = "reply" /\ UNCHANGED <<engine, generation, commands>>
        /\ pending' = IF worker.command.awaited THEN p ELSE pending
    BY DEF Reply, p
  <1>. QED  BY <1>2, <1>3, <1>4, <1>5, <1>7, <1>8 DEF SamePc, SameHeld, SameNumber

LEMMA ReplyKeeps ==
    ASSUME EngineInv, Reply
    PROVE  EngineInv'
  <1>1. EngineTyped /\ NoneAhead /\ OneAwaited /\ Served
    BY DEF EngineInv
  <1>2. /\ worker.pc = "reply" /\ UNCHANGED <<engine, generation, commands>>
        /\ worker' \in Workers /\ worker'.pc = "idle" /\ worker'.command = NoCommand
        /\ worker'.stream = worker.stream /\ worker'.shown = worker.shown
        /\ worker'.generation = worker.generation
        /\ IF worker.command.awaited
             THEN /\ pending' \in Pendings /\ pending'.answer = worker.reply
                  /\ pending'.generation = pending.generation
             ELSE pending' = pending
    BY ReplyWork
  <1>3. worker.reply \in Answers
    BY <1>1, WorkerFields DEF EngineTyped
  <1>4. EngineTyped'
    BY <1>1, <1>2 DEF EngineTyped, Pendings
  <1>5. NoneAhead'
    BY <1>1, <1>2 DEF NoneAhead
  <1>6. OneAwaited'
    <2>1. NoCommand.awaited = FALSE
      BY DEF NoCommand
    <2>2. CASE worker.command.awaited
      <3>1. commands = <<>> /\ Len(commands) = 0
        BY <1>1, <2>2 DEF OneAwaited
      <3>. QED  BY <1>1, <1>2, <1>3, <2>1, <2>2, <3>1, AnswersAre DEF OneAwaited
    <2>3. CASE ~worker.command.awaited
      BY <1>1, <1>2, <2>1, <2>3 DEF OneAwaited
    <2>. QED  BY <2>2, <2>3
  <1>7. Served'
    <2>1. Holds(engine, worker')
      BY <1>1, <1>2 DEF Served, Holds
    <2>. QED  BY <1>1, <1>2, <2>1 DEF Served
  <1>. QED  BY <1>4, <1>5, <1>6, <1>7 DEF EngineInv

LEMMA DieWork ==
    ASSUME EngineInv, Die
    PROVE  /\ worker.pc = "decode" /\ UNCHANGED <<engine, generation>> /\ commands' = <<>>
           /\ worker' \in Workers /\ worker'.pc = "dead" /\ worker'.command = NoCommand
           /\ worker'.generation = worker.generation
           /\ IF pending.answer = Waiting
                THEN /\ pending' \in Pendings /\ pending'.answer = Session!EngineFailed
                     /\ pending'.generation = pending.generation
                ELSE pending' = pending
  <1>1. worker \in Workers /\ pending \in Pendings
    BY DEF EngineInv, EngineTyped, Pendings
  <1>. DEFINE u == [worker EXCEPT !.pc = "dead"]
              v == [u EXCEPT !.stream = NoStream]
              x == [v EXCEPT !.local = NoStream]
              n == [x EXCEPT !.command = NoCommand]
  <1>2. u \in Workers /\ u.pc = "dead" /\ SameNumber(u, worker)
    BY <1>1, SetPc
  <1>. HIDE DEF u
  <1>3. v \in Workers /\ SamePc(v, u) /\ SameNumber(v, u)
    BY <1>2, SetStream, FreshIs
  <1>. HIDE DEF v
  <1>4. x \in Workers /\ SamePc(x, v) /\ SameNumber(x, v)
    BY <1>3, SetLocal, FreshIs
  <1>. HIDE DEF x
  <1>5. n \in Workers /\ n.command = NoCommand /\ SamePc(n, x) /\ SameNumber(n, x)
    BY <1>4, SetCommand
  <1>. HIDE DEF n
  <1>6. worker' = n
    BY DEF Die, n, x, v, u
  <1>. DEFINE p == [pending EXCEPT !.answer = Session!EngineFailed]
  <1>7. p \in Pendings /\ p.answer = Session!EngineFailed /\ p.generation = pending.generation
    BY <1>1, SetAnswer
  <1>. HIDE DEF p
  <1>8. /\ worker.pc = "decode" /\ UNCHANGED <<engine, generation>> /\ commands' = <<>>
        /\ pending' = IF pending.answer = Waiting THEN p ELSE pending
    BY DEF Die, p
  <1>. QED  BY <1>2, <1>3, <1>4, <1>5, <1>6, <1>7, <1>8 DEF SamePc, SameNumber

LEMMA DieKeeps ==
    ASSUME EngineInv, Die
    PROVE  EngineInv'
  <1>1. EngineTyped /\ NoneAhead /\ OneAwaited /\ Served
    BY DEF EngineInv
  <1>2. /\ worker.pc = "decode" /\ UNCHANGED <<engine, generation>> /\ commands' = <<>>
        /\ worker' \in Workers /\ worker'.pc = "dead" /\ worker'.command = NoCommand
        /\ worker'.generation = worker.generation
        /\ IF pending.answer = Waiting
             THEN /\ pending' \in Pendings /\ pending'.answer = Session!EngineFailed
                  /\ pending'.generation = pending.generation
             ELSE pending' = pending
    BY DieWork
  <1>3. Len(commands') = 0 /\ NoCommand.awaited = FALSE
    BY <1>2 DEF NoCommand
  <1>4. EngineTyped'
    BY <1>1, <1>2 DEF EngineTyped, Pendings
  <1>5. NoneAhead'
    BY <1>1, <1>2, <1>3 DEF NoneAhead
  <1>6. OneAwaited'
    BY <1>1, <1>2, <1>3, AnswersAre DEF OneAwaited
  <1>7. Served'
    BY <1>1, <1>2, <1>3 DEF Served, Holds
  <1>. QED  BY <1>4, <1>5, <1>6, <1>7 DEF EngineInv

\* Buffered's own calls.
LEMMA BufferNowKeeps ==
    ASSUME EngineInv, NEW op \in Session!Ops, BufferNow(op)
    PROVE  /\ EngineInv' /\ engine = "buffered" /\ pending = NoPending /\ worker.pc = "idle" /\ commands = <<>>
           /\ UNCHANGED <<engine, generation, commands, pending>>
           /\ worker'.pc = "idle" /\ worker'.stream = Session!After(worker.stream, op)
           /\ got' = Session!Answer(engine, worker.stream, op)
  <1>1. EngineTyped /\ NoneAhead /\ OneAwaited /\ Served
    BY DEF EngineInv
  <1>2. /\ engine = "buffered" /\ pending = NoPending /\ UNCHANGED <<engine, generation, commands, pending>>
        /\ worker' = [worker EXCEPT !.stream = Session!After(worker.stream, op)]
        /\ got' = Session!Answer(engine, worker.stream, op)
    BY DEF BufferNow, Idle
  <1>3. worker.pc = "idle" /\ commands = <<>> /\ worker \in Workers
    BY <1>1, <1>2 DEF OneAwaited, EngineTyped
  <1>. DEFINE held == Session!After(worker.stream, op)
              n == [worker EXCEPT !.stream = held]
  <1>4. held \in Streams
    BY <1>3, AfterIs, WorkerFields
  <1>. HIDE DEF held
  <1>5. /\ n \in Workers /\ n.stream = held /\ n.shown = worker.shown
        /\ SamePc(n, worker) /\ SameWork(n, worker) /\ SameNumber(n, worker)
    BY <1>3, <1>4, SetStream
  <1>. HIDE DEF n
  <1>6. worker' = n
    BY <1>2 DEF n, held
  <1>7. EngineTyped'
    BY <1>1, <1>2, <1>5, <1>6 DEF EngineTyped
  <1>8. NoneAhead'
    BY <1>1, <1>2, <1>5, <1>6 DEF NoneAhead, SameNumber
  <1>9. OneAwaited'
    BY <1>1, <1>2, <1>5, <1>6 DEF OneAwaited, SamePc, SameWork
  <1>10. Served'
    BY <1>1, <1>2, <1>3, <1>5, <1>6 DEF Served, Holds, SamePc
  <1>. QED  BY <1>2, <1>3, <1>5, <1>6, <1>7, <1>8, <1>9, <1>10 DEF EngineInv, SamePc, held

LEMMA BufferEndKeeps ==
    ASSUME EngineInv, BufferEnd
    PROVE  /\ EngineInv' /\ engine = "buffered" /\ pending = NoPending /\ worker.pc = "idle" /\ commands = <<>>
           /\ UNCHANGED <<engine, generation, commands>>
           /\ worker'.pc = "idle" /\ worker'.stream = NoStream /\ worker.stream \in Streams
           /\ IF worker.stream.open
                THEN /\ pending'.answer = Session!Events(<<Session!Final(worker.stream.audio)>>)
                     /\ pending'.answer \in Answers
                     /\ pending'.generation = generation /\ got' = got
                ELSE pending' = pending /\ got' = Protocol
  <1>1. EngineTyped /\ NoneAhead /\ OneAwaited /\ Served
    BY DEF EngineInv
  <1>2. engine = "buffered" /\ pending = NoPending /\ UNCHANGED <<engine, generation, commands>>
    BY DEF BufferEnd, Idle
  <1>3. worker.pc = "idle" /\ commands = <<>> /\ worker \in Workers /\ generation \in Nat /\ worker.stream \in Streams
    BY <1>1, <1>2, WorkerFields DEF OneAwaited, EngineTyped
  <1>4. CASE worker.stream.open
    <2>. DEFINE answer == Session!Events(<<Session!Final(worker.stream.audio)>>)
                n == [worker EXCEPT !.stream = NoStream]
    <2>1. pending' = [generation |-> generation, answer |-> answer] /\ worker' = n /\ got' = got
      BY <1>4 DEF BufferEnd, Reported
    <2>2. answer \in Answers
      BY <1>3, StreamIs, ReportsAre
    <2>. HIDE DEF answer
    <2>3. pending' \in Pendings /\ pending'.answer = answer /\ pending'.generation = generation
      BY <1>3, <2>1, <2>2, PendingsAre
    <2>4. /\ n \in Workers /\ n.stream = NoStream /\ n.shown = worker.shown
          /\ SamePc(n, worker) /\ SameWork(n, worker) /\ SameNumber(n, worker)
      BY <1>3, SetStream, FreshIs
    <2>. HIDE DEF n
    <2>5. EngineTyped'
      BY <1>1, <1>2, <2>1, <2>3, <2>4 DEF EngineTyped, Pendings
    <2>6. NoneAhead'
      BY <1>1, <1>2, <1>3, <2>1, <2>3, <2>4 DEF NoneAhead, SameNumber
    <2>7. OneAwaited'
      <3>1. ~worker.command.awaited /\ Len(commands) = 0
        BY <1>1, <1>2, <1>3, AnswersAre DEF OneAwaited
      <3>. QED  BY <1>1, <1>2, <1>3, <2>1, <2>2, <2>3, <2>4, <3>1, AnswersAre DEF OneAwaited, SamePc, SameWork
    <2>8. Served'
      BY <1>1, <1>2, <1>3, <2>1, <2>4 DEF Served, Holds, SamePc
    <2>. QED  BY <1>2, <1>3, <1>4, <2>1, <2>2, <2>3, <2>4, <2>5, <2>6, <2>7, <2>8 DEF EngineInv, SamePc, answer
  <1>5. CASE ~worker.stream.open
    <2>1. got' = Protocol /\ UNCHANGED <<pending, worker>>
      BY <1>5 DEF BufferEnd
    <2>2. EngineInv'
      BY <1>1, <1>2, <2>1 DEF EngineInv, EngineTyped, NoneAhead, OneAwaited, Served
    <2>3. worker.stream = NoStream
      BY <1>3, <1>5, StreamIs
    <2>. QED  BY <1>2, <1>3, <1>5, <2>1, <2>2, <2>3
  <1>. QED  BY <1>4, <1>5

-----------------------------------------------------------------------------
(***************************************************************************)
(* What each step is to the caller.                                        *)
(***************************************************************************)

LEMMA HandType ==
    ASSUME EngineInv
    PROVE  /\ HandOf(engine, worker, generation) \in Streams
           /\ MySession \in Streams
           /\ commands \in Seq(Commands) /\ generation \in Nat
  <1>1. worker \in Workers /\ commands \in Seq(Commands) /\ generation \in Nat
    BY DEF EngineInv, EngineTyped
  <1>2. InWork(worker) \in Streams
    BY <1>1, FreshIs, WorkerFields DEF InWork
  <1>3. HandOf(engine, worker, generation) \in Streams
    BY <1>2, FreshIs DEF HandOf
  <1>. DEFINE hand == HandOf(engine, worker, generation)
  <1>4. Caught(commands, generation, hand) \in Streams
    <2>. HIDE DEF hand
    <2>. QED  BY <1>1, <1>3, CaughtIs DEF hand
  <1>5. MySession \in Streams
    BY <1>4, MapIs, FreshIs DEF SessionAs
  <1>. QED  BY <1>1, <1>3, <1>5

\* The caller sees nothing of it.
Quiet == MySession' = MySession /\ MyCall' = MyCall

LEMMA TakeCommandMaps ==
    ASSUME EngineInv, EngineInv', TakeCommand
    PROVE  Quiet
  <1>. DEFINE e == engine
              g == generation
              cs == commands
              ds == Tail(commands)
              hand == HandOf(engine, worker, generation)
              next == InWork(worker')
              p == pending
  <1>1. /\ cs # <<>> /\ worker.pc = "idle" /\ engine \in Threaded /\ commands' = ds
        /\ worker' \in Workers /\ worker'.pc \in {"decode", "reply"} /\ worker'.generation = g
        /\ Head(cs) \in Commands
        /\ next = Moved(hand, Head(cs), g)
        /\ Head(cs).generation = g =>
             (IF worker'.pc = "reply" THEN worker'.reply ELSE Owed(e, worker')) = Session!Answer(e, hand, Head(cs).op)
        /\ UNCHANGED <<engine, generation, pending>>
    BY TakeCommandWork
  <1>2. hand \in Streams /\ cs \in Seq(Commands) /\ g \in Nat
    BY HandType
  <1>3. HandOf(e, worker', g) = next
    BY <1>1 DEF HandOf
  <1>4. MySession = Caught(cs, g, hand)
    BY <1>1, MapIs DEF SessionAs
  <1>5. MySession' = Caught(ds, g, next)
    BY <1>1, <1>3, MapIsThen DEF SessionAs
  <1>6. p.answer = Waiting /\ ds = <<>> => Head(cs).generation = p.generation
    <2>1. OneAwaited /\ Len(cs) \in 1..Len(cs)
      BY <1>1, <1>2 DEF EngineInv
    <2>2. p.answer = Waiting => cs[Len(cs)].awaited
      BY <1>1, <2>1 DEF OneAwaited
    <2>3. p.answer = Waiting => cs[Len(cs)].generation = p.generation
      BY <2>1, <2>2 DEF OneAwaited
    <2>4. ds = <<>> => cs[Len(cs)] = Head(cs)
      BY <1>1, <1>2, CaughtTail
    <2>. QED  BY <2>3, <2>4
  <1>7. MyCall = CallAs(e, worker, cs, g, p)
    BY MapIs
  <1>8. MyCall' = CallAs(e, worker', ds, g, p)
    BY <1>1, MapIsThen
  <1>9. /\ Caught(ds, g, Moved(hand, Head(cs), g)) = Caught(cs, g, hand)
        /\ ds # <<>> => Before(ds, g, Moved(hand, Head(cs), g)) = Before(cs, g, hand)
        /\ ds = <<>> => Before(cs, g, hand) = hand /\ cs[Len(cs)] = Head(cs)
        /\ ds # <<>> => ds[Len(ds)] = cs[Len(cs)]
    <2>. HIDE DEF hand
    <2>. QED  BY <1>1, <1>2, CaughtTail
  <1>. HIDE DEF hand, next, cs, ds, g, e, p
  <1>10. MySession' = MySession
    BY <1>1, <1>4, <1>5, <1>9
  <1>11. CallAs(e, worker', ds, g, p) = CallAs(e, worker, cs, g, p)
    <2>1. CASE p = NoPending \/ p.answer # Waiting \/ p.generation # g
      BY <2>1 DEF CallAs
    <2>2. CASE p # NoPending /\ p.answer = Waiting /\ p.generation = g
      <3>1. CallAs(e, worker, cs, g, p) = Session!Answer(e, Before(cs, g, hand), cs[Len(cs)].op)
        BY <1>1, <2>2 DEF CallAs, hand, e, g
      <3>2. CASE ds # <<>>
        <4>1. CallAs(e, worker', ds, g, p) = Session!Answer(e, Before(ds, g, next), ds[Len(ds)].op)
          BY <1>3, <2>2, <3>2 DEF CallAs
        <4>. QED  BY <1>1, <1>9, <3>1, <3>2, <4>1
      <3>3. CASE ds = <<>>
        <4>1. CallAs(e, worker', ds, g, p) = IF worker'.pc = "reply" THEN worker'.reply ELSE Owed(e, worker')
          BY <2>2, <3>3 DEF CallAs
        <4>2. Head(cs).generation = g
          BY <1>6, <2>2, <3>3
        <4>. QED  BY <1>1, <1>9, <3>1, <3>3, <4>1, <4>2
      <3>. QED  BY <3>2, <3>3
    <2>. QED  BY <2>1, <2>2
  <1>. QED  BY <1>7, <1>8, <1>10, <1>11 DEF Quiet

\* A step of the worker on the command it has in hand: the queue behind it stays.
LEMMA InHandMaps ==
    ASSUME EngineInv, EngineInv', UNCHANGED <<engine, generation, commands, pending>>,
           worker.pc # "dead", worker'.pc # "dead",
           HandOf(engine, worker', generation) = HandOf(engine, worker, generation),
           pending.answer = Waiting /\ pending.generation = generation /\ commands = <<>> =>
             (IF worker'.pc = "reply" THEN worker'.reply ELSE Owed(engine, worker'))
               = (IF worker.pc = "reply" THEN worker.reply ELSE Owed(engine, worker))
    PROVE  Quiet
  <1>1. MySession = SessionAs(engine, worker, commands, generation)
        /\ MyCall = CallAs(engine, worker, commands, generation, pending)
    BY MapIs
  <1>2. MySession' = SessionAs(engine, worker', commands, generation)
        /\ MyCall' = CallAs(engine, worker', commands, generation, pending)
    BY MapIsThen
  <1>3. SessionAs(engine, worker', commands, generation) = SessionAs(engine, worker, commands, generation)
    BY DEF SessionAs
  <1>4. CallAs(engine, worker', commands, generation, pending) = CallAs(engine, worker, commands, generation, pending)
    BY DEF CallAs
  <1>. QED  BY <1>1, <1>2, <1>3, <1>4 DEF Quiet

LEMMA AbandonMaps ==
    ASSUME EngineInv, EngineInv', Abandon
    PROVE  Quiet
  <1>1. /\ worker.pc = "decode" /\ engine \in Threaded /\ worker.generation # generation
        /\ UNCHANGED <<engine, generation, commands, pending>>
        /\ worker' \in Workers /\ worker'.pc = "reply"
        /\ worker'.generation = generation
        /\ worker'.stream = Session!Fresh(engine)
    BY AbandonWork
  <1>2. HandOf(engine, worker', generation) = HandOf(engine, worker, generation)
    BY <1>1 DEF HandOf, InWork
  <1>3. ~(pending.answer = Waiting /\ pending.generation = generation /\ commands = <<>>)
    BY <1>1 DEF EngineInv, OneAwaited, Served, Holds
  <1>. QED  BY <1>1, <1>2, <1>3, InHandMaps

LEMMA DecodedMaps ==
    ASSUME EngineInv, EngineInv', Decoded
    PROVE  Quiet
  <1>1. /\ worker.pc = "decode" /\ engine \in Threaded /\ worker.generation = generation
        /\ UNCHANGED <<engine, generation, commands, pending>>
        /\ worker' \in Workers /\ worker'.pc = "reply"
        /\ worker'.generation = generation
        /\ worker'.stream = InWork(worker) /\ worker'.reply = Owed(engine, worker)
    BY DecodedWork
  <1>2. HandOf(engine, worker', generation) = HandOf(engine, worker, generation)
    BY <1>1 DEF HandOf, InWork
  <1>. QED  BY <1>1, <1>2, InHandMaps

LEMMA ReplyMaps ==
    ASSUME EngineInv, EngineInv', Reply
    PROVE  Quiet
  <1>1. /\ worker.pc = "reply" /\ UNCHANGED <<engine, generation, commands>>
        /\ worker' \in Workers /\ worker'.pc = "idle"
        /\ worker'.stream = worker.stream
        /\ worker'.generation = worker.generation
        /\ IF worker.command.awaited
             THEN /\ pending' \in Pendings /\ pending'.answer = worker.reply
                  /\ pending'.generation = pending.generation
             ELSE pending' = pending
    BY ReplyWork
  <1>2. MySession = SessionAs(engine, worker, commands, generation)
        /\ MyCall = CallAs(engine, worker, commands, generation, pending)
    BY MapIs
  <1>3. MySession' = SessionAs(engine, worker', commands, generation)
        /\ MyCall' = CallAs(engine, worker', commands, generation, pending')
    BY <1>1, MapIsThen
  <1>4. HandOf(engine, worker', generation) = HandOf(engine, worker, generation)
    BY <1>1 DEF HandOf, InWork
  <1>5. SessionAs(engine, worker', commands, generation) = SessionAs(engine, worker, commands, generation)
    BY <1>1, <1>4 DEF SessionAs
  <1>6. OneAwaited /\ worker.reply \in Answers
    BY WorkerFields DEF EngineInv, EngineTyped
  <1>7. CallAs(engine, worker', commands, generation, pending') = CallAs(engine, worker, commands, generation, pending)
    <2>1. CASE worker.command.awaited
      <3>1. pending.answer = Waiting /\ commands = <<>> /\ pending # NoPending
        BY <1>6, <2>1, AnswersAre DEF OneAwaited
      <3>2. pending' # NoPending /\ pending'.answer # Waiting /\ pending'.answer # Session!EngineFailed
        BY <1>1, <1>6, <2>1, AnswersAre
      <3>. QED  BY <1>1, <2>1, <3>1, <3>2 DEF CallAs
    <2>2. CASE ~worker.command.awaited
      <3>1. pending' = pending /\ (pending.answer = Waiting => commands # <<>>)
        BY <1>1, <1>6, <2>2 DEF OneAwaited
      <3>. QED  BY <1>1, <1>4, <3>1 DEF CallAs
    <2>. QED  BY <2>1, <2>2
  <1>. QED  BY <1>2, <1>3, <1>5, <1>7 DEF Quiet

LEMMA AnswerType ==
    \A e : \A s \in Streams, op \in Session!Ops : Session!Answer(e, s, op) \in Answers
  <1>. SUFFICES ASSUME NEW e, NEW s \in Streams, NEW op \in Session!Ops
                PROVE  Session!Answer(e, s, op) \in Answers
    OBVIOUS
  <1>1. op.op \in {"begin", "feed", "end"} /\ s.audio \in Seq(Session!Chunks) /\ s.open \in BOOLEAN
    BY OpFields, StreamIs
  <1>2. CASE op.op = "begin"
    <2>1. Session!Answer(e, s, op) = IF s.open THEN Protocol ELSE Nothing
      BY <1>2, AnswerIs
    <2>2. Session!Answer(e, s, op) = Protocol \/ Session!Answer(e, s, op) = Nothing
      BY <1>1, <2>1
    <2>. QED  BY <2>2, AnswersAre
  <1>3. CASE op.op = "end"
    <2>1. Session!Answer(e, s, op) = IF s.open THEN Session!Events(<<Session!Final(s.audio)>>) ELSE Protocol
      BY <1>3, AnswerIs
    <2>2. Session!Events(<<Session!Final(s.audio)>>) \in Answers
      BY <1>1, ReportsAre
    <2>3. Session!Answer(e, s, op) = Protocol \/ Session!Answer(e, s, op) = Session!Events(<<Session!Final(s.audio)>>)
      BY <1>1, <2>1
    <2>. QED  BY <2>2, <2>3, AnswersAre
  <1>4. CASE op.op = "feed"
    <2>. DEFINE audio == Append(s.audio, op.chunk)
                heard == Session!Heard(e, audio)
    <2>1. audio \in Seq(Session!Chunks)
      BY <1>1, <1>4, OpFields
    <2>. HIDE DEF audio
    <2>2. heard \in SUBSET Nat
      BY <2>1, HeardType
    <2>3. Session!Answer(e, s, op) \in {Protocol, Nothing, Session!Events(<<Session!Partial(heard)>>)}
      BY <1>1, <1>4, AnswerIs DEF audio
    <2>. HIDE DEF heard
    <2>. QED  BY <2>2, <2>3, AnswersAre, ReportsAre
  <1>. QED  BY <1>1, <1>2, <1>3, <1>4

LEMMA OwedType ==
    \A e : \A w \in Workers : w.command \in Commands => Owed(e, w) \in Answers
  <1>. SUFFICES ASSUME NEW e, NEW w \in Workers, w.command \in Commands
                PROVE  Owed(e, w) \in Answers
    OBVIOUS
  <1>. DEFINE audio == w.local.audio
              heard == Session!Heard(e, audio)
  <1>1. audio \in Seq(Session!Chunks)
    BY WorkerFields, StreamIs
  <1>. HIDE DEF audio
  <1>2. heard \in SUBSET Nat
    BY <1>1, HeardType
  <1>3. Owed(e, w) \in {Session!Events(<<Session!Final(audio)>>), Nothing, Session!Events(<<Session!Partial(heard)>>)}
    BY DEF Owed, audio
  <1>. HIDE DEF heard
  <1>. QED  BY <1>1, <1>2, <1>3, AnswersAre, ReportsAre

\* A call is awaited as long as its future is kept.
LEMMA CallType ==
    ASSUME EngineInv
    PROVE  /\ MyCall = NoAnswer <=> pending = NoPending
           /\ MyCall \in Answers \cup {NoAnswer, Session!EngineFailed}
  <1>. DEFINE hand == HandOf(engine, worker, generation)
  <1>1. MyCall = CallAs(engine, worker, commands, generation, pending)
    BY MapIs
  <1>2. /\ EngineTyped /\ OneAwaited /\ Served
        /\ worker \in Workers /\ commands \in Seq(Commands) /\ generation \in Nat /\ pending \in Pendings
        /\ worker.reply \in Answers
    BY WorkerFields DEF EngineInv, EngineTyped, Pendings
  <1>3. hand \in Streams
    BY HandType
  <1>4. commands # <<>> => Session!Answer(engine, Before(commands, generation, hand), commands[Len(commands)].op) \in Answers
    <2>. HIDE DEF hand
    <2>. SUFFICES ASSUME commands # <<>>
                  PROVE  Session!Answer(engine, Before(commands, generation, hand), commands[Len(commands)].op) \in Answers
      OBVIOUS
    <2>1. Len(commands) \in 1..Len(commands)
      BY <1>2
    <2>2. commands[Len(commands)].op \in Session!Ops
      BY <1>2, <2>1, CommandFields
    <2>3. Before(commands, generation, hand) \in Streams
      BY <1>2, <1>3, CaughtIs
    <2>. QED  BY <2>2, <2>3, AnswerType
  <1>5. pending.answer = Waiting /\ commands = <<>> /\ worker.pc # "reply" => Owed(engine, worker) \in Answers
    <2>1. pending.answer = Waiting /\ commands = <<>> /\ worker.pc # "reply" => worker.pc = "decode"
      BY <1>2 DEF OneAwaited
    <2>2. worker.pc = "decode" => worker.command \in Commands
      BY <1>2 DEF Served, Holds
    <2>. QED  BY <1>2, <2>1, <2>2, OwedType
  <1>6. pending # NoPending => pending.answer # NoAnswer
    BY <1>2 DEF OneAwaited
  <1>7. pending.answer \in Answers \cup {NoAnswer, Waiting, Session!EngineFailed}
    BY <1>2, PendingsAre
  <1>8. CASE pending = NoPending
    BY <1>1, <1>8 DEF CallAs
  <1>9. CASE pending # NoPending /\ pending.answer # Waiting
    BY <1>1, <1>6, <1>7, <1>9, AnswersAre DEF CallAs
  <1>10. CASE pending # NoPending /\ pending.answer = Waiting
    <2>1. MyCall \in Answers
      BY <1>1, <1>2, <1>4, <1>5, <1>10, AnswersAre DEF CallAs, hand
    <2>. QED  BY <1>10, <2>1, AnswersAre
  <1>. QED  BY <1>8, <1>9, <1>10

LEMMA SubmitsMaps ==
    ASSUME EngineInv, EngineInv', NEW op \in Session!Ops, Submits(op)
    PROVE  /\ MyCall = NoAnswer /\ pending = NoPending /\ UNCHANGED <<engine, generation>>
           /\ IF worker.pc = "dead" THEN Quiet /\ got' = Session!EngineFailed /\ worker' = worker /\ pending' = NoPending
              ELSE /\ MySession' = Session!After(MySession, op)
                   /\ MyCall' = Session!Answer(engine, MySession, op)
                   /\ got' = got /\ worker' = worker /\ pending' # NoPending
  <1>1. pending = NoPending /\ UNCHANGED <<engine, generation, worker>>
    BY DEF Submits, Idle
  <1>2. MyCall = NoAnswer
    BY <1>1 DEF MyCall
  <1>3. CASE worker.pc = "dead"
    <2>1. got' = Session!EngineFailed /\ UNCHANGED <<commands, pending>>
      BY <1>3 DEF Submits
    <2>2. MySession' = SessionAs(engine, worker, commands, generation)
      BY <1>1, <2>1, MapIsThen
    <2>3. MySession' = MySession /\ MyCall' = MyCall
      BY <1>1, <1>2, <2>1, <2>2, MapIs DEF MyCall
    <2>. QED  BY <1>1, <1>2, <1>3, <2>1, <2>3 DEF Quiet
  <1>4. CASE worker.pc # "dead"
    <2>. DEFINE c == [op |-> op, generation |-> generation, awaited |-> TRUE]
                hand == HandOf(engine, worker, generation)
                cs == Append(commands, c)
                p == [generation |-> generation, answer |-> Waiting]
    <2>1. commands' = cs /\ pending' = p /\ got' = got
      BY <1>4 DEF Submits
    <2>2. hand \in Streams /\ commands \in Seq(Commands) /\ generation \in Nat
      BY HandType
    <2>3. c \in Commands /\ c.op = op /\ c.generation = generation
      BY <2>2 DEF Commands
    <2>4. p.answer = Waiting /\ p.generation = generation /\ p # NoPending
      <3>1. p.answer = Waiting /\ p.generation = generation
        OBVIOUS
      <3>. QED  BY <3>1, AnswersAre
    <2>. HIDE DEF c, p
    <2>5. cs # <<>> /\ cs[Len(cs)] = c
      <3>1. c \in Commands /\ commands \in Seq(Commands)
        BY <2>2, <2>3
      <3>2. cs \in Seq(Commands) /\ Len(cs) = Len(commands) + 1 /\ cs[Len(commands) + 1] = c
        BY ONLY <3>1
      <3>. HIDE DEF cs
      <3>3. Len(commands) \in Nat
        BY <3>1
      <3>. QED  BY <3>2, <3>3
    <2>6. Caught(cs, generation, hand) = Moved(Caught(commands, generation, hand), c, generation)
          /\ Before(cs, generation, hand) = Caught(commands, generation, hand)
      <3>. HIDE DEF hand
      <3>. QED  BY <2>2, <2>3, CaughtAppend
    <2>7. MySession = Caught(commands, generation, hand)
      BY <1>4, MapIs DEF SessionAs
    <2>8. MySession' = Caught(cs, generation, hand)
      BY <1>1, <1>4, <2>1, MapIsThen DEF SessionAs
    <2>9. MyCall' = CallAs(engine, worker, cs, generation, p)
      BY <1>1, <2>1, MapIsThen
    <2>10. MyCall' = Session!Answer(engine, Before(cs, generation, hand), cs[Len(cs)].op)
      <3>. HIDE DEF cs
      <3>. QED  BY <2>4, <2>5, <2>9 DEF CallAs
    <2>. HIDE DEF cs, hand
    <2>11. MySession' = Session!After(MySession, op)
      BY <2>3, <2>6, <2>7, <2>8 DEF Moved
    <2>12. MyCall' = Session!Answer(engine, MySession, op)
      BY <2>3, <2>5, <2>6, <2>7, <2>10
    <2>. QED  BY <1>1, <1>2, <1>4, <2>1, <2>4, <2>11, <2>12
  <1>. QED  BY <1>3, <1>4

LEMMA PendingEndsMaps ==
    ASSUME EngineInv, EngineInv', pending' = NoPending, UNCHANGED <<engine, generation, commands, worker>>
    PROVE  MySession' = MySession /\ MyCall' = NoAnswer
  <1>1. MySession' = SessionAs(engine, worker, commands, generation)
    BY MapIsThen
  <1>2. MySession' = MySession
    BY <1>1, MapIs
  <1>3. MyCall' = NoAnswer
    BY DEF MyCall
  <1>. QED  BY <1>2, <1>3

LEMMA ReturnMaps ==
    ASSUME EngineInv, EngineInv', Return
    PROVE  /\ UNCHANGED <<engine, generation, worker>> /\ pending' = NoPending
           /\ MySession' = MySession /\ MyCall' = NoAnswer /\ MyCall # NoAnswer /\ got' = MyCall
  <1>1. /\ pending.answer \notin {NoAnswer, Waiting} /\ pending' = NoPending
        /\ got' = IF pending.answer # Session!EngineFailed /\ pending.generation # generation
                    THEN Nothing ELSE pending.answer
        /\ UNCHANGED <<engine, generation, commands, worker>>
    BY DEF Return
  <1>2. pending # NoPending
    BY <1>1, AnswersAre
  <1>3. MyCall = got'
    BY <1>1, <1>2, MapIs DEF CallAs
  <1>. QED  BY <1>1, <1>2, <1>3, PendingEndsMaps, CallType

LEMMA BufferFailsMaps ==
    ASSUME EngineInv, EngineInv', BufferFails
    PROVE  /\ UNCHANGED <<engine, generation, worker>> /\ pending' = NoPending
           /\ MySession' = MySession /\ MyCall' = NoAnswer /\ MyCall # NoAnswer /\ got' = Session!EngineFailed
  <1>1. /\ pending # NoPending /\ pending' = NoPending /\ got' = Session!EngineFailed
        /\ UNCHANGED <<engine, generation, commands, worker>>
    BY DEF BufferFails
  <1>. QED  BY <1>1, PendingEndsMaps, CallType

LEMMA ForgetMaps ==
    ASSUME EngineInv, EngineInv', Forget
    PROVE  /\ UNCHANGED <<engine, generation, got>> /\ pending' = NoPending
           /\ MySession' = MySession /\ MyCall' = NoAnswer /\ MyCall # NoAnswer
  <1>. DEFINE v == [worker EXCEPT !.command.awaited = FALSE]
              hand == HandOf(engine, worker, generation)
  <1>1. /\ pending # NoPending /\ pending' = NoPending /\ commands' = Unwanted(commands) /\ worker' = v
        /\ UNCHANGED <<engine, generation, got>>
    BY DEF Forget
  <1>2. hand \in Streams /\ commands \in Seq(Commands) /\ generation \in Nat /\ worker \in Workers
    BY HandType DEF EngineInv, EngineTyped
  <1>3. /\ v.command.op = worker.command.op
        /\ v.pc = worker.pc /\ v.generation = worker.generation /\ v.stream = worker.stream /\ v.local = worker.local
    BY <1>2, ForgottenIs
  <1>. HIDE DEF v
  <1>4. HandOf(engine, v, generation) = hand
    BY <1>3 DEF HandOf, InWork
  <1>5. MySession = SessionAs(engine, worker, commands, generation)
    BY MapIs
  <1>6. MySession' = SessionAs(engine, v, Unwanted(commands), generation)
    BY <1>1, MapIsThen
  <1>7. Caught(Unwanted(commands), generation, hand) = Caught(commands, generation, hand)
    <2>. HIDE DEF hand
    <2>. QED  BY <1>2, CaughtUnwanted
  <1>8. MySession' = MySession
    BY <1>3, <1>4, <1>5, <1>6, <1>7 DEF SessionAs
  <1>. QED  BY <1>1, <1>8, CallType DEF MyCall

\* The counter is raised, and whatever was sent before moves nothing any more.
LEMMA RaisedMaps ==
    ASSUME EngineInv, EngineInv', engine' = engine, generation' = generation + 1,
           commands' \in {commands, Unwanted(commands)},
           worker'.pc = worker.pc, worker'.generation = worker.generation,
           engine = "buffered" => worker'.stream = NoStream
    PROVE  MySession' = Session!Fresh(engine)
  <1>. DEFINE cs == commands'
              g == generation'
              hand == HandOf(engine, worker', g)
  <1>1. /\ NoneAhead /\ OneAwaited /\ EngineTyped /\ commands \in Seq(Commands) /\ generation \in Nat
        /\ worker.generation \in Nat
    BY WorkerFields DEF EngineInv, EngineTyped
  <1>2. MySession' = SessionAs(engine, worker', cs, g)
    BY MapIsThen
  <1>3. cs \in Seq(Commands) /\ g \in Nat
    <2>1. Unwanted(commands) \in Seq(Commands)
      BY <1>1, UnwantedIs
    <2>2. commands' = commands \/ commands' = Unwanted(commands)
      OBVIOUS
    <2>. QED  BY <1>1, <2>1, <2>2
  <1>4. \A i \in 1..Len(cs) : cs[i].generation # g
    <2>1. ASSUME NEW i \in 1..Len(commands)
          PROVE  commands[i].generation # g
      <3>1. commands[i].generation \in Nat /\ commands[i].generation <= generation
        BY <1>1, CommandFields DEF NoneAhead
      <3>. QED  BY <1>1, <3>1
    <2>2. Len(cs) = Len(commands) /\ \A i \in 1..Len(commands) : cs[i].generation = commands[i].generation
      <3>1. /\ Len(Unwanted(commands)) = Len(commands)
            /\ \A i \in 1..Len(commands) : Unwanted(commands)[i].generation = commands[i].generation
        BY <1>1, UnwantedIs
      <3>2. commands' = commands \/ commands' = Unwanted(commands)
        OBVIOUS
      <3>. QED  BY <3>1, <3>2
    <2>. QED  BY <2>1, <2>2
  <1>5. hand = Session!Fresh(engine)
    <2>1. CASE engine \in Threaded
      <3>1. worker'.generation # g
        BY <1>1 DEF NoneAhead
      <3>. QED  BY <2>1, <3>1 DEF HandOf
    <2>2. CASE engine = "buffered"
      <3>1. worker'.pc = "idle"
        BY <1>1, <2>2 DEF OneAwaited
      <3>. QED  BY <2>2, <3>1, FreshIs DEF HandOf, InWork, Threaded
    <2>. QED  BY <1>1, <2>1, <2>2 DEF EngineTyped, Engines, Session!Engines, Threaded
  <1>. HIDE DEF cs, g, hand
  <1>6. Caught(cs, g, hand) = hand
    BY <1>3, <1>4, <1>5, FreshIs, CaughtStale
  <1>. QED  BY <1>2, <1>5, <1>6 DEF SessionAs, hand

LEMMA CancelMaps ==
    ASSUME EngineInv, EngineInv', generation' = generation + 1, UNCHANGED <<engine, commands, pending>>,
           worker' = worker \/ (engine = "buffered" /\ worker' = [worker EXCEPT !.stream = NoStream]),
           engine = "buffered" => worker' = [worker EXCEPT !.stream = NoStream]
    PROVE  \/ MySession' = Session!Fresh(engine) /\ MyCall' = (IF MyCall = NoAnswer THEN NoAnswer ELSE Nothing)
           \/ Quiet
  <1>1. /\ worker \in Workers /\ OneAwaited /\ NoneAhead /\ generation \in Nat /\ pending \in Pendings
        /\ engine \in Engines
    BY DEF EngineInv, EngineTyped, Pendings
  <1>2. worker'.pc = worker.pc /\ worker'.generation = worker.generation
        /\ (engine = "buffered" => worker'.stream = NoStream)
    <2>. DEFINE n == [worker EXCEPT !.stream = NoStream]
    <2>1. n \in Workers /\ n.stream = NoStream /\ SamePc(n, worker) /\ SameNumber(n, worker)
      BY <1>1, SetStream, FreshIs
    <2>. HIDE DEF n
    <2>2. worker' = worker \/ worker' = n
      BY DEF n
    <2>3. engine = "buffered" => worker' = n
      BY DEF n
    <2>. QED  BY <2>1, <2>2, <2>3 DEF SamePc, SameNumber
  <1>3. MySession' = Session!Fresh(engine)
    BY <1>2, RaisedMaps
  <1>4. MyCall' = CallAs(engine, worker', commands, generation', pending)
    BY MapIsThen
  <1>5. pending.generation # generation'
    BY <1>1, PendingsAre DEF NoneAhead
  <1>6. CASE pending = NoPending
    BY <1>3, <1>6 DEF MyCall
  <1>7. CASE pending # NoPending /\ pending.answer # Session!EngineFailed
    <2>1. MyCall' = Nothing
      BY <1>4, <1>5, <1>7 DEF CallAs
    <2>. QED  BY <1>3, <1>7, <2>1, CallType
  <1>8. CASE pending # NoPending /\ pending.answer = Session!EngineFailed
    <2>1. worker.pc = "dead"
      BY <1>1, <1>8 DEF OneAwaited
    <2>2. MySession = Session!Fresh(engine)
      BY <2>1 DEF MySession
    <2>3. MyCall = Session!EngineFailed /\ MyCall' = Session!EngineFailed
      BY <1>4, <1>8, MapIs, AnswersAre DEF CallAs
    <2>. QED  BY <1>3, <2>2, <2>3 DEF Quiet
  <1>. QED  BY <1>6, <1>7, <1>8

LEMMA DieMaps ==
    ASSUME EngineInv, EngineInv', Die
    PROVE  /\ UNCHANGED <<engine, generation, got>> /\ worker'.pc = "dead"
           /\ MySession' = Session!Fresh(engine)
           /\ MyCall' \in IF MyCall = NoAnswer THEN {NoAnswer} ELSE {MyCall, Session!EngineFailed}
           /\ pending = NoPending <=> pending' = NoPending
  <1>1. /\ worker.pc = "decode" /\ UNCHANGED <<engine, generation>> /\ commands' = <<>>
        /\ worker' \in Workers /\ worker'.pc = "dead"
        /\ IF pending.answer = Waiting
             THEN /\ pending' \in Pendings /\ pending'.answer = Session!EngineFailed
                  /\ pending'.generation = pending.generation
             ELSE pending' = pending
    BY DieWork
  <1>2. got' = got
    BY DEF Die
  <1>3. MySession' = Session!Fresh(engine)
    BY <1>1 DEF MySession
  <1>4. MyCall' = CallAs(engine, worker', <<>>, generation, pending')
    BY <1>1, MapIsThen
  <1>5. MyCall = CallAs(engine, worker, commands, generation, pending)
    BY MapIs
  <1>6. CASE pending.answer = Waiting
    <2>1. pending # NoPending /\ pending' # NoPending /\ pending'.answer # Waiting
      BY <1>1, <1>6, AnswersAre
    <2>2. MyCall' = Session!EngineFailed
      BY <1>1, <1>4, <1>6, <2>1 DEF CallAs
    <2>. QED  BY <1>1, <1>2, <1>3, <2>1, <2>2, CallType
  <1>7. CASE pending.answer # Waiting
    <2>1. MyCall' = MyCall
      BY <1>1, <1>4, <1>5, <1>7 DEF CallAs
    <2>. QED  BY <1>1, <1>2, <1>3, <1>7, <2>1
  <1>. QED  BY <1>6, <1>7

\* What the caller sees of a step.
Made(op) ==
    /\ MyCall = NoAnswer /\ Session!Offers(engine, op)
    /\ MySession' = Session!After(MySession, op)
    /\ \/ MyCall' = Session!Answer(engine, MySession, op) /\ got' = got
       \/ got' = Session!Answer(engine, MySession, op) /\ MyCall' = MyCall
Ended ==
    /\ MyCall # NoAnswer /\ MyCall' = NoAnswer /\ MySession' = MySession
    /\ got' = got \/ got' = MyCall \/ got' = Session!EngineFailed
Broken ==
    /\ MySession' = Session!Fresh(engine) /\ got' = got
    /\ MyCall' \in IF MyCall = NoAnswer THEN {NoAnswer} ELSE {MyCall, Session!EngineFailed}
Refused == MyCall = NoAnswer /\ got' = Session!EngineFailed /\ Quiet
Cancelled ==
    /\ MySession' = Session!Fresh(engine) /\ got' = got
    /\ MyCall' = (IF MyCall = NoAnswer THEN NoAnswer ELSE Nothing) \/ MyCall' = NoAnswer

Seen ==
    /\ engine' = engine
    /\ \/ \E op \in Session!Ops : Made(op)
       \/ Ended \/ Broken \/ Refused \/ Cancelled
       \/ Quiet /\ got' = got

LEMMA SeenIsPromised == Seen => [Promise!ANext]_Promise!avars
  <1>. SUFFICES ASSUME Seen
                PROVE  [Promise!ANext]_Promise!avars
    OBVIOUS
  <1>1. engine' = engine
    BY DEF Seen
  <1>2. ASSUME NEW op \in Session!Ops, Made(op)
        PROVE  Promise!ANext
    <2>1. Promise!Offers(engine, op)
      BY <1>2 DEF Made, Promise!Offers, Session!Offers
    <2>2. Promise!CallWith(op)
      BY <1>1, <1>2, <2>1, PromiseIsSession DEF Made, Promise!CallWith, MySession, MyCall
    <2>3. Promise!Ask(op) \/ Promise!AskAndReturn(op)
      BY <1>2, <2>2, PromiseIsSession DEF Made, Promise!Ask, Promise!AskAndReturn, MySession, MyCall
    <2>4. op \in Promise!Ops
      BY PromiseIsSession
    <2>. QED  BY <2>3, <2>4 DEF Promise!ANext
  <1>3. CASE Ended
    <2>1. Promise!Return \/ Promise!Fail \/ Promise!Forget
      BY <1>1, <1>3, PromiseIsSession DEF Ended, Promise!Return, Promise!Fail, Promise!Forget, MySession, MyCall
    <2>. QED  BY <2>1 DEF Promise!ANext
  <1>4. CASE Broken
    <2>1. Promise!Break
      BY <1>1, <1>4, PromiseIsSession DEF Broken, Promise!Break, MySession, MyCall
    <2>. QED  BY <2>1 DEF Promise!ANext
  <1>5. CASE Refused
    <2>1. Promise!Refuse
      BY <1>1, <1>5, PromiseIsSession DEF Refused, Quiet, Promise!Refuse, MySession, MyCall
    <2>. QED  BY <2>1 DEF Promise!ANext
  <1>6. CASE Cancelled
    <2>1. Promise!CancelSession \/ Promise!Interrupt
      BY <1>1, <1>6, PromiseIsSession DEF Cancelled, Promise!CancelSession, Promise!Interrupt, MySession, MyCall
    <2>. QED  BY <2>1 DEF Promise!ANext
  <1>7. CASE Quiet /\ got' = got
    <2>1. UNCHANGED Promise!avars
      BY <1>1, <1>7 DEF Quiet, Promise!avars, MySession, MyCall
    <2>. QED  BY <2>1
  <1>. QED  BY <1>2, <1>3, <1>4, <1>5, <1>6, <1>7 DEF Seen

\* Buffered's session is what its lock guards.
LEMMA BufferSession ==
    ASSUME EngineInv, engine = "buffered"
    PROVE  /\ MySession = worker.stream /\ worker.pc = "idle" /\ commands = <<>>
           /\ MyCall = CallAs(engine, worker, <<>>, generation, pending)
  <1>. DEFINE hand == HandOf(engine, worker, generation)
  <1>1. worker.pc = "idle" /\ commands = <<>>
    BY DEF EngineInv, OneAwaited
  <1>2. hand = worker.stream
    BY <1>1 DEF HandOf, InWork, Threaded
  <1>3. hand \in Streams /\ commands \in Seq(Commands) /\ generation \in Nat
    BY HandType
  <1>4. MySession = Caught(commands, generation, hand)
    BY <1>1, MapIs DEF SessionAs
  <1>. HIDE DEF hand
  <1>5. Caught(commands, generation, hand) = hand
    BY <1>1, <1>3, CaughtIs
  <1>. QED  BY <1>1, <1>2, <1>4, <1>5, MapIs

LEMMA BufferSessionThen == (EngineInv /\ engine = "buffered" =>
    /\ MySession = worker.stream /\ worker.pc = "idle" /\ commands = <<>>
    /\ MyCall = CallAs(engine, worker, <<>>, generation, pending))'
  BY BufferSession, PTL

LEMMA BufferNowSeen ==
    ASSUME EngineInv, EngineInv', NEW op \in Session!Ops, BufferNow(op)
    PROVE  Made(op) /\ engine' = engine /\ pending' = NoPending /\ got' = Session!Answer(engine, MySession, op)
           /\ generation' = generation /\ engine = "buffered"
  <1>1. /\ engine = "buffered" /\ pending = NoPending
        /\ UNCHANGED <<engine, generation, commands, pending>>
        /\ worker'.stream = Session!After(worker.stream, op)
        /\ got' = Session!Answer(engine, worker.stream, op)
    BY BufferNowKeeps
  <1>2. MySession = worker.stream
    BY <1>1, BufferSession
  <1>3. MySession' = worker'.stream
    BY <1>1, BufferSessionThen
  <1>4. MyCall = NoAnswer /\ MyCall' = NoAnswer
    BY <1>1 DEF MyCall
  <1>5. Session!Offers(engine, op)
    BY <1>1 DEF Session!Offers
  <1>. QED  BY <1>1, <1>2, <1>3, <1>4, <1>5 DEF Made

EndOp == [op |-> "end", chunk |-> "none"]

LEMMA BufferEndSeen ==
    ASSUME EngineInv, EngineInv', BufferEnd
    PROVE  /\ Made(EndOp) /\ EndOp \in Session!Ops /\ engine' = engine /\ engine = "buffered"
           /\ pending' = NoPending => got' = Session!Answer(engine, MySession, EndOp)
           /\ pending' # NoPending => MyCall' = Session!Answer(engine, MySession, EndOp) /\ got' = got
           /\ generation' = generation
  <1>. DEFINE report == Session!Events(<<Session!Final(worker.stream.audio)>>)
  <1>1. /\ engine = "buffered" /\ pending = NoPending /\ worker.pc = "idle" /\ commands = <<>>
        /\ UNCHANGED <<engine, generation, commands>>
        /\ worker'.pc = "idle" /\ worker'.stream = NoStream /\ worker.stream \in Streams
        /\ IF worker.stream.open
             THEN /\ pending'.answer = report /\ pending'.answer \in Answers
                  /\ pending'.generation = generation /\ got' = got
             ELSE pending' = pending /\ got' = Protocol
    BY BufferEndKeeps
  <1>2. MySession = worker.stream
    BY <1>1, BufferSession
  <1>3. MySession' = NoStream
    BY <1>1, BufferSessionThen
  <1>4. EndOp \in Session!Ops /\ EndOp.op = "end"
    BY DEF EndOp, Session!Ops
  <1>. HIDE DEF EndOp
  <1>5. Session!Offers(engine, EndOp)
    BY <1>1 DEF Session!Offers
  <1>6. MySession' = Session!After(MySession, EndOp)
    BY <1>1, <1>2, <1>3, <1>4, AfterIs
  <1>7. Session!Answer(engine, MySession, EndOp) = IF worker.stream.open THEN report ELSE Protocol
    BY <1>2, <1>4, AnswerIs
  <1>8. MyCall = NoAnswer
    BY <1>1 DEF MyCall
  <1>9. CASE worker.stream.open
    <2>1. MyCall' = CallAs(engine, worker', <<>>, generation, pending')
      BY <1>1, BufferSessionThen
    <2>2. pending' # NoPending /\ pending'.answer # Waiting
      BY <1>1, <1>9, AnswersAre
    <2>3. MyCall' = report
      BY <1>1, <1>9, <2>1, <2>2 DEF CallAs
    <2>. QED  BY <1>1, <1>4, <1>5, <1>6, <1>7, <1>8, <1>9, <2>2, <2>3 DEF Made
  <1>10. CASE ~worker.stream.open
    <2>1. pending' = NoPending /\ got' = Protocol /\ MyCall' = NoAnswer
      BY <1>1, <1>10 DEF MyCall
    <2>. QED  BY <1>1, <1>4, <1>5, <1>6, <1>7, <1>8, <1>10, <2>1 DEF Made
  <1>. QED  BY <1>9, <1>10

\* An interrupt drops the future and cancels the session.
LEMMA InterruptSeen ==
    ASSUME EngineInv, TakeInterrupt
    PROVE  /\ EngineInv' /\ engine' = engine /\ pending' = NoPending /\ got' = got
           /\ MySession' = Session!Fresh(engine) /\ MyCall' = NoAnswer
  <1>. DEFINE v == [worker EXCEPT !.command.awaited = FALSE]
              n == [worker EXCEPT !.command.awaited = FALSE,
                                  !.stream = IF engine = "buffered" THEN NoStream ELSE @]
              m == [v EXCEPT !.stream = NoStream]
  <1>1. /\ generation' = generation + 1 /\ pending' = NoPending /\ commands' = Unwanted(commands)
        /\ worker' = n /\ engine' = engine /\ got' = got
    BY DEF TakeInterrupt
  <1>2. worker \in Workers
    BY DEF EngineInv, EngineTyped
  <1>3. v \in Workers /\ v.pc = worker.pc /\ v.generation = worker.generation /\ v.stream = worker.stream
    BY <1>2, ForgottenIs
  <1>4. n = [v EXCEPT !.stream = IF engine = "buffered" THEN NoStream ELSE @]
    OBVIOUS
  <1>5. engine # "buffered" => n = v
    BY <1>2, <1>4 DEF Workers
  <1>6. engine = "buffered" => n = m
    BY <1>2, <1>4 DEF Workers
  <1>7. m.pc = v.pc /\ m.generation = v.generation /\ m.stream = NoStream
    <2>. HIDE DEF v
    <2>. QED  BY <1>3, FreshIs, SetStream DEF SamePc, SameNumber
  <1>. HIDE DEF n
  <1>8. EngineInv'
    <2>1. worker' = v \/ (engine = "buffered" /\ worker' = [v EXCEPT !.stream = NoStream])
      BY <1>1, <1>5, <1>6
    <2>2. \E w : w = v /\ (worker' = w \/ (engine = "buffered" /\ worker' = [w EXCEPT !.stream = NoStream]))
      BY <2>1
    <2>. QED  BY <1>1, <2>2, ForgottenKeeps
  <1>. HIDE DEF v, m
  <1>9. worker'.pc = worker.pc /\ worker'.generation = worker.generation
        /\ (engine = "buffered" => worker'.stream = NoStream)
    BY <1>1, <1>3, <1>5, <1>6, <1>7
  <1>10. MySession' = Session!Fresh(engine)
    BY <1>1, <1>8, <1>9, RaisedMaps
  <1>. QED  BY <1>1, <1>8, <1>10 DEF MyCall

LEMMA NothingSeen ==
    ASSUME EngineInv, UNCHANGED <<engine, generation, commands, worker, pending, got>>
    PROVE  EngineInv' /\ Seen /\ Quiet
  <1>1. EngineInv'
    BY DEF EngineInv, EngineTyped, NoneAhead, OneAwaited, Served
  <1>2. MySession' = SessionAs(engine, worker, commands, generation)
        /\ MyCall' = CallAs(engine, worker, commands, generation, pending)
    BY <1>1, MapIsThen
  <1>3. Quiet
    BY <1>2, MapIs DEF Quiet
  <1>. QED  BY <1>1, <1>3 DEF Seen

\* A call of a handle whose thread is alive acts at once; one whose thread is gone is refused.
LEMMA AskSeen ==
    ASSUME EngineInv, NEW op \in Session!Ops, Ask(op)
    PROVE  EngineInv' /\ Seen
  <1>1. Submits(op) /\ engine \in Threaded /\ (engine = "vad" => op.op = "feed")
    BY DEF Ask, AskOnline, AskOffline, AskDetector, Threaded
  <1>2. EngineInv'
    BY <1>1, SubmitsKeeps
  <1>3. /\ MyCall = NoAnswer /\ pending = NoPending /\ UNCHANGED <<engine, generation>>
        /\ IF worker.pc = "dead" THEN Quiet /\ got' = Session!EngineFailed /\ worker' = worker /\ pending' = NoPending
           ELSE /\ MySession' = Session!After(MySession, op)
                /\ MyCall' = Session!Answer(engine, MySession, op)
                /\ got' = got /\ worker' = worker /\ pending' # NoPending
    BY <1>1, <1>2, SubmitsMaps
  <1>4. Session!Offers(engine, op)
    BY <1>1 DEF Session!Offers
  <1>5. CASE worker.pc = "dead"
    BY <1>2, <1>3, <1>5 DEF Seen, Refused
  <1>6. CASE worker.pc # "dead"
    <2>1. Made(op)
      BY <1>3, <1>4, <1>6 DEF Made
    <2>. QED  BY <1>2, <1>3, <2>1 DEF Seen
  <1>. QED  BY <1>5, <1>6

LEMMA WorkerSeen ==
    ASSUME EngineInv, Worker
    PROVE  EngineInv' /\ engine' = engine /\ Quiet /\ got' = got /\ generation' = generation
  <1>1. UNCHANGED <<engine, got, generation>>
    BY DEF Worker, TakeCommand, Abandon, Decoded, Reply
  <1>2. CASE TakeCommand
    BY <1>1, <1>2, TakeCommandKeeps, TakeCommandMaps
  <1>3. CASE Abandon
    <2>1. EngineInv'
      <3>1. /\ worker.pc = "decode" /\ UNCHANGED <<engine, generation, commands, pending>>
            /\ worker' \in Workers /\ worker'.pc = "reply" /\ worker'.command = worker.command
            /\ worker'.generation = generation /\ Holds(engine, worker')
        BY <1>3, AbandonWork
      <3>2. worker'.generation <= generation
        BY <3>1, HandType
      <3>. QED  BY <3>1, <3>2, WorkerStepKeeps
    <2>. QED  BY <1>1, <1>3, <2>1, AbandonMaps
  <1>4. CASE Decoded
    <2>1. EngineInv'
      <3>1. /\ worker.pc = "decode" /\ UNCHANGED <<engine, generation, commands, pending>>
            /\ worker' \in Workers /\ worker'.pc = "reply" /\ worker'.command = worker.command
            /\ worker'.generation = generation /\ Holds(engine, worker')
        BY <1>4, DecodedWork
      <3>2. worker'.generation <= generation
        BY <3>1, HandType
      <3>. QED  BY <3>1, <3>2, WorkerStepKeeps
    <2>. QED  BY <1>1, <1>4, <2>1, DecodedMaps
  <1>5. CASE Reply
    BY <1>1, <1>5, ReplyKeeps, ReplyMaps
  <1>. QED  BY <1>2, <1>3, <1>4, <1>5 DEF Worker

LEMMA ReturnKeeps ==
    ASSUME EngineInv, Return \/ BufferFails
    PROVE  EngineInv'
  <1>1. CASE Return
    <2>1. /\ pending.answer # Waiting /\ pending' = NoPending
          /\ UNCHANGED <<engine, generation, commands, worker>>
      BY <1>1 DEF Return
    <2>. QED  BY <2>1, PendingEndsKeeps
  <1>2. CASE BufferFails
    <2>1. /\ engine = "buffered" /\ pending # NoPending /\ pending' = NoPending
          /\ UNCHANGED <<engine, generation, commands, worker>>
      BY <1>2 DEF BufferFails
    <2>2. pending.answer # Waiting
      <3>1. commands = <<>> /\ worker.pc = "idle" /\ OneAwaited
        BY <2>1 DEF EngineInv, OneAwaited
      <3>. QED  BY <3>1 DEF OneAwaited
    <2>. QED  BY <2>1, <2>2, PendingEndsKeeps
  <1>. QED  BY <1>1, <1>2

LEMMA ForgetKeeps ==
    ASSUME EngineInv, Forget
    PROVE  EngineInv'
  <1>1. \E v : /\ v = [worker EXCEPT !.command.awaited = FALSE] /\ worker' = v
               /\ pending' = NoPending /\ commands' = Unwanted(commands) /\ UNCHANGED <<engine, generation>>
    BY DEF Forget
  <1>. QED  BY <1>1, ForgottenKeeps

LEMMA CancelSeen ==
    ASSUME EngineInv, Cancel \/ BufferCancel
    PROVE  EngineInv' /\ Seen
  <1>1. /\ generation' = generation + 1 /\ UNCHANGED <<engine, commands, pending, got>>
        /\ worker' = worker \/ (engine = "buffered" /\ worker' = [worker EXCEPT !.stream = NoStream])
        /\ engine = "buffered" => worker' = [worker EXCEPT !.stream = NoStream]
    BY DEF Cancel, BufferCancel, Threaded
  <1>2. EngineInv'
    BY <1>1, CancelKeeps
  <1>3. \/ MySession' = Session!Fresh(engine) /\ MyCall' = (IF MyCall = NoAnswer THEN NoAnswer ELSE Nothing)
        \/ Quiet
    BY <1>1, <1>2, CancelMaps
  <1>. QED  BY <1>1, <1>2, <1>3 DEF Seen, Cancelled

\* Whatever an engine does, its caller sees a step of the contract.
LEMMA EngineSeen ==
    ASSUME EngineInv, EngineNext
    PROVE  EngineInv' /\ Seen
  <1>1. ASSUME NEW op \in Session!Ops, Ask(op) \/ BufferNow(op)
        PROVE  EngineInv' /\ Seen
    <2>1. CASE Ask(op)
      BY <2>1, AskSeen
    <2>2. CASE BufferNow(op)
      <3>1. EngineInv'
        BY <2>2, BufferNowKeeps
      <3>2. Made(op) /\ engine' = engine
        BY <2>2, <3>1, BufferNowSeen
      <3>. QED  BY <3>1, <3>2 DEF Seen
    <2>. QED  BY <1>1, <2>1, <2>2
  <1>2. CASE BufferEnd
    <2>1. EngineInv'
      BY <1>2, BufferEndKeeps
    <2>2. Made(EndOp) /\ EndOp \in Session!Ops /\ engine' = engine
      BY <1>2, <2>1, BufferEndSeen
    <2>. QED  BY <2>1, <2>2 DEF Seen
  <1>3. CASE Return \/ BufferFails
    <2>1. EngineInv'
      BY <1>3, ReturnKeeps
    <2>2. engine' = engine /\ MySession' = MySession /\ MyCall' = NoAnswer /\ MyCall # NoAnswer
          /\ (got' = MyCall \/ got' = Session!EngineFailed)
      BY <1>3, <2>1, ReturnMaps, BufferFailsMaps
    <2>. QED  BY <2>1, <2>2 DEF Seen, Ended
  <1>4. CASE Forget
    <2>1. EngineInv'
      BY <1>4, ForgetKeeps
    <2>2. engine' = engine /\ MySession' = MySession /\ MyCall' = NoAnswer /\ MyCall # NoAnswer /\ got' = got
      BY <1>4, <2>1, ForgetMaps
    <2>. QED  BY <2>1, <2>2 DEF Seen, Ended
  <1>5. CASE Cancel \/ BufferCancel
    BY <1>5, CancelSeen
  <1>6. CASE Worker
    BY <1>6, WorkerSeen DEF Seen
  <1>7. CASE Die
    <2>1. EngineInv'
      BY <1>7, DieKeeps
    <2>2. Broken /\ engine' = engine
      BY <1>7, <2>1, DieMaps DEF Broken
    <2>. QED  BY <2>1, <2>2 DEF Seen
  <1>8. CASE DropHandle \/ Joined
    <2>1. UNCHANGED <<engine, generation, commands, worker, pending, got>>
      BY <1>8 DEF DropHandle, Joined
    <2>. QED  BY <2>1, NothingSeen
  <1>. QED  BY <1>1, <1>2, <1>3, <1>4, <1>5, <1>6, <1>7, <1>8 DEF EngineNext

-----------------------------------------------------------------------------
(***************************************************************************)
(* The stage in front of an engine.                                        *)
(***************************************************************************)

Frames == {"interrupt", "started", "stopped"} \cup Session!Chunks

LEMMA FramesAre ==
    /\ Frames = {"interrupt", "started", "stopped", "voice", "silence"}
    /\ Session!Chunks = {"voice", "silence"}
  BY DEF Frames, Session!Chunks

\* The effect of each frame that is not an Interrupt is a call an engine takes.
LEMMA EffectIs ==
    /\ Effect("started") = [op |-> "begin", chunk |-> "none"]
    /\ Effect("stopped") = [op |-> "end", chunk |-> "none"]
    /\ \A c \in Session!Chunks : Effect(c) = [op |-> "feed", chunk |-> c]
    /\ \A f \in Frames : f # "interrupt" => Effect(f) \in Session!Ops
  <1>1. /\ Effect("started") = [op |-> "begin", chunk |-> "none"]
        /\ Effect("stopped") = [op |-> "end", chunk |-> "none"]
        /\ \A c \in Session!Chunks : Effect(c) = [op |-> "feed", chunk |-> c]
    BY FramesAre DEF Effect
  <1>2. ASSUME NEW f \in Frames, f # "interrupt"
        PROVE  Effect(f) \in Session!Ops
    BY <1>1, <1>2, FramesAre DEF Frames, Session!Ops
  <1>. QED  BY <1>1, <1>2

\* The first Interrupt on the lane; what is behind it stays.
LEMMA InterruptLane ==
    ASSUME lane \in Seq(Frames), TakeInterrupt
    PROVE  \E first \in 1..Len(lane) :
             /\ lane[first] = "interrupt"
             /\ lane' \in Seq(Frames) /\ Len(lane') = Len(lane) - first
             /\ \A i \in 1..Len(lane') : lane'[i] = lane[first + i]
  <1>. DEFINE first == CHOOSE i \in Interrupts : \A j \in Interrupts : i <= j
  <1>1. Interrupts \subseteq 1..Len(lane) /\ \A i \in Interrupts : lane[i] = "interrupt"
    BY DEF Interrupts
  <1>2. Interrupts # {} /\ lane' = SubSeq(lane, first + 1, Len(lane))
    BY DEF TakeInterrupt
  <1>3. \E i \in Interrupts : \A j \in Interrupts : i <= j
    <2>. DEFINE I == Interrupts
    <2>1. I \in SUBSET Nat /\ I # {}
      BY <1>1, <1>2
    <2>. HIDE DEF I
    <2>2. \E i \in I : \A j \in I : i <= j
      BY ONLY <2>1, Data!LeastNatural
    <2>. QED  BY <2>2 DEF I
  <1>4. first \in Interrupts
    BY <1>3
  <1>. HIDE DEF first
  <1>5. first \in 1..Len(lane) /\ lane[first] = "interrupt" /\ Len(lane) \in Nat
    BY <1>1, <1>4
  <1>6. /\ lane' \in Seq(Frames) /\ Len(lane') = Len(lane) - first
        /\ \A i \in 1..Len(lane') : lane'[i] = lane[first + i]
    BY <1>2, <1>5
  <1>. QED  BY <1>5, <1>6

\* The frame in hand is a call.
LEMMA TakeFrameCalls ==
    ASSUME lane \in Seq(Frames), TakeFrame
    PROVE  /\ Head(lane) \in Frames /\ Head(lane) # "interrupt" /\ Tail(lane) \in Seq(Frames)
           /\ lane # <<>> /\ lane' = Tail(lane) /\ lane[1] = Head(lane)
           /\ Len(Tail(lane)) = Len(lane) - 1 /\ \A i \in 1..Len(Tail(lane)) : Tail(lane)[i] = lane[i + 1]
           /\ \A i \in 1..Len(lane) : lane[i] # "interrupt"
  <1>1. lane # <<>> /\ Interrupts = {} /\ lane' = Tail(lane)
    BY DEF TakeFrame
  <1>2. \A i \in 1..Len(lane) : lane[i] # "interrupt"
    BY <1>1 DEF Interrupts
  <1>3. 1 \in 1..Len(lane) /\ Head(lane) = lane[1] /\ Head(lane) \in Frames
    BY <1>1
  <1>4. /\ Tail(lane) \in Seq(Frames) /\ Len(Tail(lane)) = Len(lane) - 1
        /\ \A i \in 1..Len(Tail(lane)) : Tail(lane)[i] = lane[i + 1]
    BY <1>1
  <1>. QED  BY <1>1, <1>2, <1>3, <1>4

LaneInv == EngineInv /\ lane \in Seq(Frames)

LEMMA StepSeen ==
    ASSUME LaneInv, [SttNext]_sttVars
    PROVE  LaneInv' /\ Seen
  <1>1. EngineInv /\ lane \in Seq(Frames)
    BY DEF LaneInv
  <1>2. CASE UNCHANGED engineVars /\ (lane' \in Seq(Frames))
    BY <1>1, <1>2, NothingSeen DEF engineVars, LaneInv
  <1>3. CASE EngineNext /\ UNCHANGED stageVars
    BY <1>1, <1>3, EngineSeen DEF stageVars, LaneInv
  <1>4. CASE Gate
    <2>1. UNCHANGED engineVars
      BY <1>4 DEF Gate, SpeechStarts, SpeechGoesOn, SpeechStops, UpstreamInterrupts, GateSends
    <2>2. \E frames \in Seq(Frames) : lane' = lane \o frames
      <3>1. <<"interrupt", "started">> \in Seq(Frames) /\ <<"stopped">> \in Seq(Frames) /\ <<"interrupt">> \in Seq(Frames)
        BY FramesAre
      <3>2. \A c \in Session!Chunks : <<c>> \in Seq(Frames)
        BY DEF Frames
      <3>. QED  BY <1>4, <3>1, <3>2 DEF Gate, SpeechStarts, SpeechGoesOn, SpeechStops, UpstreamInterrupts, GateSends
    <2>3. lane' \in Seq(Frames)
      BY <1>1, <2>2
    <2>. QED  BY <1>2, <2>1, <2>3
  <1>5. CASE EngineSteps
    <2>1. EngineNext /\ UNCHANGED stageVars
      BY <1>5 DEF EngineSteps, EngineNext
    <2>. QED  BY <1>3, <2>1
  <1>6. CASE TakeInterrupt
    <2>1. EngineInv' /\ Seen
      BY <1>1, <1>6, InterruptSeen DEF Seen, Cancelled
    <2>2. lane' \in Seq(Frames)
      BY <1>1, <1>6, InterruptLane
    <2>. QED  BY <2>1, <2>2 DEF LaneInv
  <1>7. CASE TakeFrame
    <2>1. Effect(Head(lane)) \in Session!Ops /\ lane' \in Seq(Frames)
      BY <1>1, <1>7, TakeFrameCalls, EffectIs
    <2>2. EngineNext
      BY <1>7, <2>1 DEF TakeFrame, EngineNext
    <2>. QED  BY <1>1, <2>1, <2>2, EngineSeen DEF LaneInv
  <1>8. CASE Resume
    BY <1>1, <1>2, <1>8 DEF Resume
  <1>9. CASE UNCHANGED sttVars
    BY <1>1, <1>2, <1>9 DEF sttVars, stageVars
  <1>. QED  BY <1>3, <1>4, <1>5, <1>6, <1>7, <1>8, <1>9 DEF SttNext, StageSteps

\* The contract documented at StreamingTranscriber and VoiceActivityDetector, whichever
\* engine serves it: a call acts on the session at once and answers for exactly that
\* session's audio, however far the worker lags behind and whenever the session is cancelled.
THEOREM EnginesKeepContract == SttSpec => SessionContract
  <1>1. SttInit => LaneInv /\ Promise!AInit
    <2>. SUFFICES ASSUME SttInit
                  PROVE  LaneInv /\ Promise!AInit
      OBVIOUS
    <2>1. EngineInit /\ lane = <<>>
      BY DEF SttInit
    <2>2. EngineInv
      BY <2>1, EngineInitKeeps
    <2>3. /\ engine \in Engines /\ generation = 0 /\ commands = <<>> /\ pending = NoPending /\ got = Nothing
          /\ worker.pc = "idle" /\ worker.generation = 0 /\ worker.stream = Session!Fresh(engine)
      BY <2>1 DEF EngineInit
    <2>. DEFINE hand == HandOf(engine, worker, generation)
    <2>4. hand = Session!Fresh(engine)
      BY <2>3 DEF HandOf, InWork
    <2>5. hand \in Streams /\ commands \in Seq(Commands) /\ generation \in Nat
      BY <2>2, HandType
    <2>6. MySession = Caught(commands, generation, hand)
      BY <2>2, <2>3, MapIs DEF SessionAs
    <2>. HIDE DEF hand
    <2>7. MySession = Session!Fresh(engine)
      BY <2>3, <2>4, <2>5, <2>6, CaughtIs
    <2>8. MyCall = NoAnswer
      BY <2>3 DEF MyCall
    <2>9. Promise!AInit
      BY <2>3, <2>7, <2>8, PromiseIsSession DEF Promise!AInit, MySession, MyCall
    <2>. QED  BY <2>1, <2>2, <2>9 DEF LaneInv
  <1>2. LaneInv /\ [SttNext]_sttVars => LaneInv' /\ [Promise!ANext]_Promise!avars
    BY StepSeen, SeenIsPromised
  <1>. QED  BY <1>1, <1>2, PTL DEF SttSpec, SessionContract, Promise!ASpec

-----------------------------------------------------------------------------
(***************************************************************************)
(* What the stage meets: edges that bracket speech, and calls that are     *)
(* never out of protocol.                                                  *)
(***************************************************************************)

OpenEnded == {"started"} \cup Session!Chunks
Inside    == {"stopped"} \cup Session!Chunks

\* l brackets speech: sp, the gate is open behind it; open, the session is in front of it;
\* dead, the engine is gone, and it does not matter.
EdgesBracket(l, sp, open, dead) ==
    /\ \A i \in 1..Len(l) : l[i] = "started" /\ i > 1 => l[i - 1] = "interrupt"
    /\ \A i \in 1..Len(l) : l[i] \in Inside /\ i > 1 => l[i - 1] \in OpenEnded
    /\ l # <<>> /\ l[1] = "started" => ~open
    /\ l # <<>> /\ l[1] \in Inside => open \/ dead
    /\ sp /\ l # <<>> => l[Len(l)] \in OpenEnded
    /\ sp /\ l = <<>> => open \/ dead

LEMMA EdgesAre ==
    /\ OpenEnded = {"started", "voice", "silence"} /\ Inside = {"stopped", "voice", "silence"}
    /\ \A f \in Frames : f = "interrupt" \/ f = "started" \/ f \in Inside
  BY FramesAre DEF OpenEnded, Inside

LEMMA EdgesBracketMore ==
    ASSUME NEW l \in Seq(Frames), NEW f \in Frames, NEW sp, NEW more, NEW open, NEW dead,
           EdgesBracket(l, sp, open, dead),
           \/ f = "interrupt"
           \/ f = "started" /\ l # <<>> /\ l[Len(l)] = "interrupt"
           \/ f \in Inside /\ sp,
           more => f \in OpenEnded
    PROVE  Append(l, f) \in Seq(Frames) /\ EdgesBracket(Append(l, f), more, open, dead)
  <1>. DEFINE N == Len(l)
              m == Append(l, f)
  <1>1. /\ N \in Nat /\ m \in Seq(Frames) /\ Len(m) = N + 1 /\ m # <<>> /\ m[N + 1] = f
        /\ \A i \in 1..N : m[i] = l[i]
        /\ (N = 0 <=> l = <<>>)
    OBVIOUS
  <1>. HIDE DEF m
  <1>2. ASSUME NEW i \in 1..Len(m), m[i] = "started", i > 1
        PROVE  m[i - 1] = "interrupt"
    <2>1. CASE i \in 1..N
      <3>1. i - 1 \in 1..N /\ l[i] = "started"
        BY <1>1, <1>2, <2>1
      <3>. QED  BY <1>1, <1>2, <2>1, <3>1 DEF EdgesBracket
    <2>2. CASE i = N + 1
      <3>1. f = "started" /\ N \in 1..N /\ i - 1 = N
        BY <1>1, <1>2, <2>2
      <3>2. f \notin Inside
        BY <3>1, EdgesAre
      <3>. QED  BY <1>1, <3>1, <3>2
    <2>. QED  BY <1>1, <2>1, <2>2
  <1>3. ASSUME NEW i \in 1..Len(m), m[i] \in Inside, i > 1
        PROVE  m[i - 1] \in OpenEnded
    <2>1. CASE i \in 1..N
      <3>1. i - 1 \in 1..N /\ l[i] \in Inside
        BY <1>1, <1>3, <2>1
      <3>. QED  BY <1>1, <1>3, <2>1, <3>1 DEF EdgesBracket
    <2>2. CASE i = N + 1
      <3>1. f \in Inside /\ N \in 1..N /\ i - 1 = N /\ l # <<>>
        BY <1>1, <1>3, <2>2
      <3>2. sp
        BY <3>1, EdgesAre
      <3>3. l[N] \in OpenEnded
        BY <3>1, <3>2 DEF EdgesBracket
      <3>. QED  BY <1>1, <3>1, <3>3
    <2>. QED  BY <1>1, <2>1, <2>2
  <1>4. (m[1] = "started" => ~open) /\ (m[1] \in Inside => open \/ dead)
    <2>1. CASE l = <<>>
      <3>1. m[1] = f /\ f # "started"
        BY <1>1, <2>1, EdgesAre
      <3>2. f \in Inside => open \/ dead
        BY <2>1, EdgesAre DEF EdgesBracket
      <3>. QED  BY <3>1, <3>2
    <2>2. CASE l # <<>>
      <3>1. m[1] = l[1]
        BY <1>1, <2>2
      <3>. QED  BY <2>2, <3>1 DEF EdgesBracket
    <2>. QED  BY <2>1, <2>2
  <1>5. more => m[Len(m)] \in OpenEnded
    BY <1>1
  <1>6. EdgesBracket(m, more, open, dead)
    BY <1>1, <1>2, <1>3, <1>4, <1>5 DEF EdgesBracket
  <1>. QED  BY <1>1, <1>6 DEF m

\* What is behind the first Interrupt is met by a session that is closed.
LEMMA EdgesBracketBehind ==
    ASSUME NEW l \in Seq(Frames), NEW m \in Seq(Frames), NEW first \in 1..Len(l),
           l[first] = "interrupt", Len(m) = Len(l) - first, \A i \in 1..Len(m) : m[i] = l[first + i],
           NEW sp, NEW open, NEW dead, EdgesBracket(l, sp, open, dead)
    PROVE  EdgesBracket(m, sp, FALSE, dead)
  <1>1. "interrupt" \notin OpenEnded
    BY EdgesAre
  <1>2. /\ Len(l) \in Nat /\ Len(m) \in Nat /\ (m = <<>> <=> Len(m) = 0) /\ l # <<>> /\ first \in Nat
        /\ \A i \in 1..Len(m) : first + i \in 1..Len(l) /\ first + i > 1 /\ (first + i) - 1 = first + (i - 1)
    OBVIOUS
  <1>3. ASSUME NEW i \in 1..Len(m), m[i] = "started", i > 1
        PROVE  m[i - 1] = "interrupt"
    <2>1. i - 1 \in 1..Len(m) /\ l[first + i] = "started"
      BY <1>2, <1>3
    <2>2. l[(first + i) - 1] = "interrupt"
      BY <1>2, <2>1 DEF EdgesBracket
    <2>. QED  BY <1>2, <2>1, <2>2
  <1>4. ASSUME NEW i \in 1..Len(m), m[i] \in Inside, i > 1
        PROVE  m[i - 1] \in OpenEnded
    <2>1. i - 1 \in 1..Len(m) /\ l[first + i] \in Inside
      BY <1>2, <1>4
    <2>2. l[(first + i) - 1] \in OpenEnded
      BY <1>2, <2>1 DEF EdgesBracket
    <2>. QED  BY <1>2, <2>1, <2>2
  <1>5. m # <<>> => m[1] \notin Inside
    <2>. SUFFICES ASSUME m # <<>>, m[1] \in Inside
                  PROVE  FALSE
      OBVIOUS
    <2>1. 1 \in 1..Len(m) /\ (first + 1) - 1 = first
      BY <1>2
    <2>2. l[first + 1] \in Inside /\ first + 1 \in 1..Len(l) /\ first + 1 > 1
      BY <1>2, <2>1
    <2>3. l[(first + 1) - 1] \in OpenEnded
      BY <2>2 DEF EdgesBracket
    <2>. QED  BY <1>1, <2>1, <2>3
  <1>6. sp => l[Len(l)] \in OpenEnded
    BY <1>2 DEF EdgesBracket
  <1>7. sp => m # <<>> /\ m[Len(m)] \in OpenEnded
    <2>. SUFFICES ASSUME sp
                  PROVE  m # <<>> /\ m[Len(m)] \in OpenEnded
      OBVIOUS
    <2>1. first # Len(l)
      BY <1>1, <1>6
    <2>2. Len(m) \in 1..Len(m) /\ first + Len(m) = Len(l)
      BY <1>2, <2>1
    <2>3. m[Len(m)] = l[first + Len(m)]
      BY <2>2
    <2>. QED  BY <1>2, <1>6, <2>2, <2>3
  <1>. QED  BY <1>3, <1>4, <1>5, <1>7 DEF EdgesBracket

\* The frame in front is taken, and the session is open behind one that has more to follow.
LEMMA EdgesBracketTail ==
    ASSUME NEW l \in Seq(Frames), l # <<>>, \A i \in 1..Len(l) : l[i] # "interrupt",
           NEW sp, NEW open, NEW dead, EdgesBracket(l, sp, open, dead),
           NEW then, NEW gone, l[1] \in OpenEnded => then \/ gone
    PROVE  EdgesBracket(Tail(l), sp, then, gone)
  <1>. DEFINE m == Tail(l)
  <1>1. /\ m \in Seq(Frames) /\ Len(l) \in Nat /\ Len(m) = Len(l) - 1 /\ Len(m) \in Nat
        /\ \A i \in 1..Len(m) : m[i] = l[i + 1] /\ i + 1 \in 1..Len(l) /\ i + 1 > 1 /\ (i + 1) - 1 = i /\ i \in 1..Len(l)
        /\ (m = <<>> <=> Len(m) = 0) /\ 1 \in 1..Len(l)
    <2>1. m \in Seq(Frames) /\ Len(l) \in Nat /\ Len(m) = Len(l) - 1
      OBVIOUS
    <2>2. Len(m) \in Nat /\ \A i \in 1..Len(m) : m[i] = l[i + 1]
      OBVIOUS
    <2>3. (m = <<>> <=> Len(m) = 0)
      <3>. HIDE DEF m
      <3>. QED  BY <2>1
    <2>4. 1 \in 1..Len(l)
      OBVIOUS
    <2>. HIDE DEF m
    <2>5. \A i \in 1..Len(m) : i + 1 \in 1..Len(l) /\ i + 1 > 1 /\ (i + 1) - 1 = i /\ i \in 1..Len(l)
      BY <2>1, <2>2
    <2>. QED  BY <2>1, <2>2, <2>3, <2>4, <2>5
  <1>. HIDE DEF m
  <1>2. \A i \in 1..Len(m) : m[i] # "started"
    <2>. SUFFICES ASSUME NEW i \in 1..Len(m), m[i] = "started"
                  PROVE  FALSE
      OBVIOUS
    <2>1. i + 1 \in 1..Len(l) /\ i + 1 > 1 /\ l[i + 1] = "started" /\ (i + 1) - 1 = i /\ i \in 1..Len(l)
      BY <1>1
    <2>2. l[(i + 1) - 1] = "interrupt"
      BY <2>1 DEF EdgesBracket
    <2>. QED  BY <2>1, <2>2
  <1>3. ASSUME NEW i \in 1..Len(m), m[i] \in Inside
        PROVE  l[i] \in OpenEnded
    <2>1. i + 1 \in 1..Len(l) /\ i + 1 > 1 /\ l[i + 1] \in Inside /\ (i + 1) - 1 = i
      BY <1>1, <1>3
    <2>2. l[(i + 1) - 1] \in OpenEnded
      BY <2>1 DEF EdgesBracket
    <2>. QED  BY <2>1, <2>2
  <1>4. ASSUME NEW i \in 1..Len(m), m[i] \in Inside, i > 1
        PROVE  m[i - 1] \in OpenEnded
    <2>1. l[i] \in OpenEnded
      BY <1>3, <1>4
    <2>2. i - 1 \in 1..Len(m) /\ (i - 1) + 1 = i
      BY <1>1, <1>4
    <2>3. m[i - 1] = l[(i - 1) + 1]
      BY <1>1, <2>2
    <2>. QED  BY <2>1, <2>2, <2>3
  <1>5. m # <<>> /\ m[1] \in Inside => then \/ gone
    <2>. SUFFICES ASSUME m # <<>>, m[1] \in Inside
                  PROVE  then \/ gone
      OBVIOUS
    <2>1. 1 \in 1..Len(m)
      BY <1>1
    <2>. QED  BY <1>3, <2>1
  <1>6. m # <<>> => m[1] # "started"
    BY <1>1, <1>2
  <1>7. sp => l[Len(l)] \in OpenEnded
    BY <1>1 DEF EdgesBracket
  <1>8. sp /\ m # <<>> => m[Len(m)] \in OpenEnded
    <2>. SUFFICES ASSUME m # <<>>
                  PROVE  m[Len(m)] = l[Len(l)]
      BY <1>7
    <2>1. Len(m) \in 1..Len(m) /\ Len(m) + 1 = Len(l)
      BY <1>1
    <2>. QED  BY <1>1, <2>1
  <1>9. sp /\ m = <<>> => then \/ gone
    <2>. SUFFICES ASSUME sp, m = <<>>
                  PROVE  l[1] \in OpenEnded
      OBVIOUS
    <2>1. Len(l) = 1
      BY <1>1
    <2>. QED  BY <1>7, <2>1
  <1>10. EdgesBracket(m, sp, then, gone)
    BY <1>2, <1>4, <1>5, <1>6, <1>8, <1>9 DEF EdgesBracket
  <1>. QED  BY <1>10 DEF m

LEMMA EdgesBracketSame ==
    ASSUME NEW l, NEW sp, NEW open, NEW dead, NEW then, NEW gone, EdgesBracket(l, sp, open, dead),
           then => open, open \/ dead => then \/ gone
    PROVE  EdgesBracket(l, sp, then, gone)
  BY DEF EdgesBracket

Whole(u) == {Session!Events(<<Session!Final(u)>>), Session!EngineFailed}

\* The caller is the stage: the session is what it was given since it last began, and no
\* call is out of protocol; a closing edge is answered with the whole utterance.
StageKeeps ==
    /\ engine # "vad"
    /\ EdgesBracket(lane, speaking, MySession.open, worker.pc = "dead")
    /\ MySession.open => MySession.audio = utterance
    /\ got.is # "protocol" /\ MyCall.is # "protocol"
    /\ performing = "end" => IF pending = NoPending THEN got \in Whole(utterance) ELSE MyCall \in Whole(utterance)

GotTyped == got \in Answers \cup {Session!EngineFailed}

StageInv ==
    /\ LaneInv /\ GotTyped
    /\ forwarded \in Seq(EventRecords)
    /\ caller = "stage" => StageKeeps
    /\ caller # "stage" => performing = "none"

LEMMA AnswersAreNot ==
    /\ NoAnswer.is # "protocol" /\ Nothing.is # "protocol" /\ Session!EngineFailed.is # "protocol"
    /\ \A es : Session!Events(es).is # "protocol" /\ Session!Events(es).events = es
    /\ Session!EngineFailed.events = <<>>
  BY DEF NoAnswer, Nothing, Session!Ok, Session!EngineFailed, Session!Events

LEMMA GotStays ==
    ASSUME EngineInv, Seen, GotTyped
    PROVE  GotTyped'
  <1>1. MyCall \in Answers \cup {NoAnswer, Session!EngineFailed}
    BY CallType
  <1>2. MySession \in Streams
    BY HandType
  <1>3. ASSUME NEW op \in Session!Ops, Made(op)
        PROVE  GotTyped'
    <2>1. Session!Answer(engine, MySession, op) \in Answers
      BY <1>2, AnswerType
    <2>. QED  BY <1>3, <2>1 DEF Made, GotTyped
  <1>4. CASE Ended
    BY <1>1, <1>4 DEF Ended, GotTyped
  <1>5. CASE Broken \/ Refused \/ Cancelled \/ (Quiet /\ got' = got)
    BY <1>5 DEF Broken, Refused, Cancelled, GotTyped
  <1>. QED  BY <1>3, <1>4, <1>5 DEF Seen

\* A call of the stage acts at once, unless the engine is gone.
LEMMA StageCalls ==
    ASSUME EngineInv, NEW op \in Session!Ops, Ask(op) \/ BufferNow(op) \/ (op.op = "end" /\ BufferEnd)
    PROVE  /\ EngineInv' /\ Seen /\ engine' = engine
           /\ \/ /\ worker.pc = "dead" /\ worker'.pc = "dead" /\ MySession' = MySession
                 /\ got' = Session!EngineFailed /\ MyCall' = NoAnswer /\ pending' = NoPending
              \/ /\ worker.pc # "dead" /\ worker'.pc # "dead" /\ MySession' = Session!After(MySession, op)
                 /\ \/ pending' # NoPending /\ MyCall' = Session!Answer(engine, MySession, op) /\ got' = got
                    \/ pending' = NoPending /\ MyCall' = NoAnswer /\ got' = Session!Answer(engine, MySession, op)
  <1>1. EngineNext
    BY DEF EngineNext
  <1>2. EngineInv' /\ Seen
    BY <1>1, EngineSeen
  <1>3. engine' = engine
    BY <1>2 DEF Seen
  <1>4. CASE Ask(op)
    <2>1. Submits(op)
      BY <1>4 DEF Ask, AskOnline, AskOffline, AskDetector
    <2>2. /\ MyCall = NoAnswer /\ pending = NoPending
          /\ IF worker.pc = "dead" THEN Quiet /\ got' = Session!EngineFailed /\ worker' = worker /\ pending' = NoPending
             ELSE /\ MySession' = Session!After(MySession, op)
                  /\ MyCall' = Session!Answer(engine, MySession, op)
                  /\ got' = got /\ worker' = worker /\ pending' # NoPending
      BY <1>2, <2>1, SubmitsMaps
    <2>3. CASE worker.pc = "dead"
      BY <1>2, <1>3, <2>2, <2>3 DEF Quiet
    <2>4. CASE worker.pc # "dead"
      BY <1>2, <1>3, <2>2, <2>4
    <2>. QED  BY <2>3, <2>4
  <1>5. CASE BufferNow(op)
    <2>1. Made(op) /\ pending' = NoPending /\ got' = Session!Answer(engine, MySession, op) /\ engine = "buffered"
      BY <1>2, <1>5, BufferNowSeen
    <2>2. worker.pc = "idle" /\ worker'.pc = "idle"
      BY <1>5, BufferNowKeeps
    <2>3. MyCall' = NoAnswer
      BY <2>1 DEF MyCall
    <2>. QED  BY <1>2, <1>3, <2>1, <2>2, <2>3 DEF Made
  <1>6. CASE op.op = "end" /\ BufferEnd
    <2>1. op = EndOp
      BY <1>6 DEF Session!Ops, EndOp
    <2>2. /\ Made(op)
          /\ pending' = NoPending => got' = Session!Answer(engine, MySession, op)
          /\ pending' # NoPending => MyCall' = Session!Answer(engine, MySession, op) /\ got' = got
      BY <1>2, <1>6, <2>1, BufferEndSeen
    <2>3. worker.pc = "idle" /\ worker'.pc = "idle"
      BY <1>6, BufferEndKeeps
    <2>4. pending' = NoPending => MyCall' = NoAnswer
      BY DEF MyCall
    <2>. QED  BY <1>2, <1>3, <2>2, <2>3, <2>4 DEF Made
  <1>. QED  BY <1>4, <1>5, <1>6

\* What each frame asks of the engine, and what becomes of the utterance.
LEMMA TakeFrameIs ==
    ASSUME lane \in Seq(Frames), TakeFrame
    PROVE  LET op == Effect(Head(lane))
           IN  /\ op \in Session!Ops
               /\ Ask(op) \/ BufferNow(op) \/ (op.op = "end" /\ BufferEnd)
               /\ performing' = op.op /\ performing = "none"
               /\ op.op = "begin" => utterance' = <<>>
               /\ op.op = "feed" => utterance' = Append(utterance, op.chunk)
               /\ op.op = "end" => utterance' = utterance
               /\ UNCHANGED <<speaking, forwarded>>
  <1>. DEFINE op == Effect(Head(lane))
  <1>1. op \in Session!Ops
    BY TakeFrameCalls, EffectIs
  <1>2. /\ Ask(op) \/ BufferNow(op) \/ (op.op = "end" /\ BufferEnd)
        /\ performing' = op.op /\ performing = "none" /\ UNCHANGED <<speaking, forwarded>>
    BY DEF TakeFrame
  <1>3. utterance' = CASE op.op = "begin" -> <<>>
                       [] op.op = "feed"  -> Append(utterance, op.chunk)
                       [] op.op = "end"   -> utterance
    BY Zenon DEF TakeFrame
  <1>. HIDE DEF op
  <1>4. op.op = "begin" => utterance' = <<>>
    BY <1>3, Zenon
  <1>5. op.op = "feed" => utterance' = Append(utterance, op.chunk)
    BY <1>3, Zenon
  <1>6. op.op = "end" => utterance' = utterance
    BY <1>3, Zenon
  <1>. QED  BY <1>1, <1>2, <1>4, <1>5, <1>6 DEF op

LEMMA CallTypeThen == EngineInv' => ((MyCall' = NoAnswer) <=> (pending' = NoPending))
  <1>1. EngineInv => ((MyCall = NoAnswer) <=> (pending = NoPending))
    BY CallType
  <1>2. (EngineInv => ((MyCall = NoAnswer) <=> (pending = NoPending)))'
    BY <1>1, PTL
  <1>. QED  BY <1>2

LEMMA StageInit ==
    ASSUME SttInit
    PROVE  StageInv
  <1>1. /\ EngineInit /\ lane = <<>> /\ speaking = FALSE /\ performing = "none" /\ forwarded = <<>>
        /\ utterance = <<>> /\ (caller = "stage" => engine # "vad")
    BY DEF SttInit
  <1>2. EngineInv /\ lane \in Seq(Frames) /\ forwarded \in Seq(EventRecords)
    BY <1>1, EngineInitKeeps
  <1>3. got = Nothing /\ pending = NoPending /\ commands = <<>>
    BY <1>1 DEF EngineInit
  <1>4. GotTyped
    BY <1>3, AnswersAre DEF GotTyped
  <1>5. ASSUME caller = "stage"
        PROVE  StageKeeps
    <2>1. MyCall = NoAnswer
      BY <1>3 DEF MyCall
    <2>2. MySession = Session!Fresh(engine)
      <3>. DEFINE hand == HandOf(engine, worker, generation)
      <3>1. worker.pc = "idle" /\ worker.generation = 0 /\ generation = 0 /\ worker.stream = Session!Fresh(engine)
        BY <1>1 DEF EngineInit
      <3>2. hand = Session!Fresh(engine)
        BY <3>1 DEF HandOf, InWork
      <3>3. hand \in Streams /\ commands \in Seq(Commands) /\ generation \in Nat
        BY <1>2, HandType
      <3>4. MySession = Caught(commands, generation, hand)
        BY <1>2, <3>1, MapIs DEF SessionAs
      <3>. HIDE DEF hand
      <3>. QED  BY <1>3, <3>2, <3>3, <3>4, CaughtIs
    <2>3. MySession.open = FALSE
      BY <1>1, <1>5, <2>2, FreshIs
    <2>4. EdgesBracket(lane, speaking, MySession.open, worker.pc = "dead")
      BY <1>1 DEF EdgesBracket
    <2>. QED  BY <1>1, <1>3, <1>5, <2>1, <2>3, <2>4, AnswersAreNot DEF StageKeeps
  <1>. QED  BY <1>1, <1>2, <1>4, <1>5 DEF StageInv, LaneInv

\* The gate sends: nothing is called.
LEMMA GateKeeps ==
    ASSUME StageInv, caller = "stage", Gate, UNCHANGED caller
    PROVE  StageInv'
  <1>. DEFINE open == MySession.open
              dead == worker.pc = "dead"
  <1>1. EngineInv /\ lane \in Seq(Frames) /\ StageKeeps /\ GotTyped /\ forwarded \in Seq(EventRecords)
    BY DEF StageInv, LaneInv
  <1>2. UNCHANGED <<engine, generation, commands, worker, pending, got, performing, forwarded, utterance>>
    BY DEF Gate, SpeechStarts, SpeechGoesOn, SpeechStops, UpstreamInterrupts, GateSends, engineVars
  <1>3. EngineInv' /\ MySession' = MySession /\ MyCall' = MyCall
    BY <1>1, <1>2, NothingSeen DEF Quiet
  <1>4. EdgesBracket(lane, speaking, open, dead)
    BY <1>1 DEF StageKeeps
  <1>. HIDE DEF open, dead
  <1>5. lane' \in Seq(Frames) /\ EdgesBracket(lane', speaking', open, dead)
    <2>0. /\ \A f : lane \o <<f>> = Append(lane, f)
          /\ lane \o <<"interrupt", "started">> = Append(Append(lane, "interrupt"), "started")
      BY <1>1
    <2>1. CASE SpeechStarts
      <3>. DEFINE m == Append(lane, "interrupt")
      <3>1. "interrupt" \in Frames /\ "started" \in Frames /\ "started" \in OpenEnded
        BY FramesAre, EdgesAre
      <3>2. m \in Seq(Frames) /\ EdgesBracket(m, FALSE, open, dead)
        BY <1>1, <1>4, <3>1, EdgesBracketMore
      <3>3. m # <<>> /\ m[Len(m)] = "interrupt"
        BY <1>1, <3>1
      <3>. HIDE DEF m
      <3>4. Append(m, "started") \in Seq(Frames) /\ EdgesBracket(Append(m, "started"), TRUE, open, dead)
        BY <3>1, <3>2, <3>3, EdgesBracketMore
      <3>5. lane' = Append(m, "started") /\ speaking' = TRUE
        BY <2>0, <2>1 DEF SpeechStarts, GateSends, m
      <3>. QED  BY <3>4, <3>5
    <2>2. CASE SpeechGoesOn
      <3>1. PICK c \in Session!Chunks : lane' = lane \o <<c>> /\ speaking' = speaking /\ speaking
        BY <2>2 DEF SpeechGoesOn, GateSends
      <3>2. c \in Frames /\ c \in OpenEnded /\ c \in Inside
        BY DEF Frames, OpenEnded, Inside
      <3>3. Append(lane, c) \in Seq(Frames) /\ EdgesBracket(Append(lane, c), speaking, open, dead)
        BY <1>1, <1>4, <3>1, <3>2, EdgesBracketMore
      <3>. QED  BY <2>0, <3>1, <3>3
    <2>3. CASE SpeechStops
      <3>1. lane' = lane \o <<"stopped">> /\ speaking' = FALSE /\ speaking
        BY <2>3 DEF SpeechStops, GateSends
      <3>2. "stopped" \in Frames /\ "stopped" \in Inside
        BY FramesAre, EdgesAre
      <3>3. Append(lane, "stopped") \in Seq(Frames) /\ EdgesBracket(Append(lane, "stopped"), FALSE, open, dead)
        BY <1>1, <1>4, <3>1, <3>2, EdgesBracketMore
      <3>. QED  BY <2>0, <3>1, <3>3
    <2>4. CASE UpstreamInterrupts
      <3>1. lane' = lane \o <<"interrupt">> /\ speaking' = FALSE
        BY <2>4 DEF UpstreamInterrupts, GateSends
      <3>2. "interrupt" \in Frames
        BY FramesAre
      <3>3. Append(lane, "interrupt") \in Seq(Frames) /\ EdgesBracket(Append(lane, "interrupt"), FALSE, open, dead)
        BY <1>1, <1>4, <3>2, EdgesBracketMore
      <3>. QED  BY <2>0, <3>1, <3>3
    <2>. QED  BY <2>1, <2>2, <2>3, <2>4 DEF Gate
  <1>6. open = MySession'.open /\ dead = (worker'.pc = "dead")
    BY <1>2, <1>3 DEF open, dead
  <1>7. StageKeeps'
    BY <1>1, <1>2, <1>3, <1>5, <1>6 DEF StageKeeps
  <1>. QED  BY <1>1, <1>2, <1>3, <1>5, <1>7 DEF StageInv, LaneInv, GotTyped

\* An engine at work leaves the session and what the call is going to answer alone, unless it
\* breaks down.
LEMMA EngineStepsKeep ==
    ASSUME StageInv, caller = "stage", EngineSteps, UNCHANGED caller
    PROVE  StageInv'
  <1>1. EngineInv /\ lane \in Seq(Frames) /\ StageKeeps /\ GotTyped /\ forwarded \in Seq(EventRecords)
    BY DEF StageInv, LaneInv
  <1>2. UNCHANGED <<lane, speaking, performing, forwarded, utterance>>
    BY DEF EngineSteps, stageVars
  <1>3. EngineNext
    BY DEF EngineSteps, EngineNext
  <1>4. EngineInv' /\ Seen
    BY <1>1, <1>3, EngineSeen
  <1>5. GotTyped' /\ engine' = engine
    BY <1>1, <1>4, GotStays DEF Seen
  <1>6. engine # "vad" /\ EdgesBracket(lane, speaking, MySession.open, worker.pc = "dead")
    BY <1>1 DEF StageKeeps
  <1>7. CASE Worker
    <2>1. Quiet /\ got' = got
      BY <1>1, <1>7, WorkerSeen
    <2>2. worker.pc # "dead" /\ worker'.pc # "dead"
      <3>1. CASE TakeCommand
        BY <1>1, <3>1, TakeCommandWork
      <3>2. CASE Abandon
        BY <1>1, <3>2, AbandonWork
      <3>3. CASE Decoded
        BY <1>1, <3>3, DecodedWork
      <3>4. CASE Reply
        BY <1>1, <3>4, ReplyWork
      <3>. QED  BY <1>7, <3>1, <3>2, <3>3, <3>4 DEF Worker
    <2>3. pending = NoPending <=> pending' = NoPending
      <3>1. (pending' = NoPending) <=> (MyCall' = NoAnswer)
        BY <1>4, CallTypeThen
      <3>. QED  BY <1>1, <2>1, <3>1, CallType DEF Quiet
    <2>4. (worker.pc = "dead") = (worker'.pc = "dead")
      BY <2>2
    <2>5. StageKeeps'
      BY <1>1, <1>2, <1>5, <2>1, <2>3, <2>4 DEF StageKeeps, Quiet
    <2>. QED  BY <1>1, <1>2, <1>4, <1>5, <2>5 DEF StageInv, LaneInv
  <1>8. CASE Die
    <2>1. /\ got' = got /\ worker'.pc = "dead" /\ MySession' = Session!Fresh(engine)
          /\ MyCall' \in IF MyCall = NoAnswer THEN {NoAnswer} ELSE {MyCall, Session!EngineFailed}
          /\ pending = NoPending <=> pending' = NoPending
      BY <1>1, <1>4, <1>8, DieMaps
    <2>2. MySession'.open = FALSE
      BY <1>6, <2>1, FreshIs
    <2>3. EdgesBracket(lane, speaking, FALSE, TRUE)
      BY <1>6, EdgesBracketSame
    <2>4. EdgesBracket(lane', speaking', MySession'.open, worker'.pc = "dead")
      <3>1. (worker'.pc = "dead") = TRUE
        BY <2>1
      <3>. QED  BY <1>2, <2>2, <2>3, <3>1
    <2>5. MyCall'.is # "protocol"
      BY <1>1, <2>1, AnswersAreNot DEF StageKeeps
    <2>6. MyCall \in Whole(utterance) /\ pending # NoPending => MyCall' \in Whole(utterance)
      BY <1>1, <2>1, CallType DEF Whole
    <2>7. StageKeeps'
      BY <1>1, <1>2, <1>5, <2>1, <2>2, <2>4, <2>5, <2>6 DEF StageKeeps
    <2>. QED  BY <1>1, <1>2, <1>4, <1>5, <2>7 DEF StageInv, LaneInv
  <1>9. CASE Return \/ BufferFails
    <2>1. /\ worker' = worker /\ pending' = NoPending /\ MySession' = MySession
          /\ MyCall' = NoAnswer /\ MyCall # NoAnswer
          /\ got' = MyCall \/ got' = Session!EngineFailed
      BY <1>1, <1>4, <1>9, ReturnMaps, BufferFailsMaps
    <2>2. pending # NoPending
      BY <1>1, <2>1, CallType
    <2>3. got'.is # "protocol" /\ MyCall'.is # "protocol"
      BY <1>1, <2>1, AnswersAreNot DEF StageKeeps
    <2>4. performing = "end" => got' \in Whole(utterance)
      BY <1>1, <2>1, <2>2 DEF StageKeeps, Whole
    <2>5. StageKeeps'
      BY <1>1, <1>2, <1>5, <2>1, <2>3, <2>4 DEF StageKeeps
    <2>. QED  BY <1>1, <1>2, <1>4, <1>5, <2>5 DEF StageInv, LaneInv
  <1>. QED  BY <1>7, <1>8, <1>9 DEF EngineSteps

\* An Interrupt closes the session, and drops the call and every frame sent before it.
LEMMA TakeInterruptKeeps ==
    ASSUME StageInv, caller = "stage", TakeInterrupt, UNCHANGED caller
    PROVE  StageInv'
  <1>1. EngineInv /\ lane \in Seq(Frames) /\ StageKeeps /\ GotTyped /\ forwarded \in Seq(EventRecords)
    BY DEF StageInv, LaneInv
  <1>2. performing' = "none" /\ UNCHANGED <<speaking, forwarded>>
    BY DEF TakeInterrupt
  <1>3. /\ EngineInv' /\ engine' = engine /\ pending' = NoPending /\ got' = got
        /\ MySession' = Session!Fresh(engine) /\ MyCall' = NoAnswer
    BY <1>1, InterruptSeen
  <1>4. engine # "vad" /\ EdgesBracket(lane, speaking, MySession.open, worker.pc = "dead") /\ got.is # "protocol"
    BY <1>1 DEF StageKeeps
  <1>5. MySession'.open = FALSE
    BY <1>3, <1>4, FreshIs
  <1>6. PICK first \in 1..Len(lane) :
             /\ lane[first] = "interrupt"
             /\ lane' \in Seq(Frames) /\ Len(lane') = Len(lane) - first
             /\ \A i \in 1..Len(lane') : lane'[i] = lane[first + i]
    BY <1>1, InterruptLane
  <1>7. (worker'.pc = "dead") = (worker.pc = "dead")
    <2>1. worker' = [worker EXCEPT !.command.awaited = FALSE,
                                   !.stream = IF engine = "buffered" THEN NoStream ELSE @]
      BY DEF TakeInterrupt
    <2>2. worker \in Workers
      BY <1>1 DEF EngineInv, EngineTyped
    <2>3. worker'.pc = worker.pc
      BY <2>1, <2>2 DEF Workers
    <2>. QED  BY <2>3
  <1>8. EdgesBracket(lane', speaking, FALSE, worker.pc = "dead")
    <2>. DEFINE m == lane'
                open == MySession.open
                dead == worker.pc = "dead"
    <2>1. /\ m \in Seq(Frames) /\ Len(m) = Len(lane) - first /\ lane[first] = "interrupt"
          /\ \A i \in 1..Len(m) : m[i] = lane[first + i]
          /\ EdgesBracket(lane, speaking, open, dead)
      BY <1>4, <1>6
    <2>. HIDE DEF m, open, dead
    <2>2. EdgesBracket(m, speaking, FALSE, dead)
      BY <1>1, <2>1, EdgesBracketBehind
    <2>. QED  BY <2>2 DEF m, dead
  <1>9. StageKeeps'
    BY <1>2, <1>3, <1>4, <1>5, <1>7, <1>8, AnswersAreNot DEF StageKeeps
  <1>. QED  BY <1>1, <1>2, <1>3, <1>6, <1>9 DEF StageInv, LaneInv, GotTyped

\* What the frame in front makes of the session, which its edges bracket.
LEMMA TakeFrameKeeps ==
    ASSUME StageInv, caller = "stage", TakeFrame, UNCHANGED caller
    PROVE  StageInv'
  <1>. DEFINE f == Head(lane)
              op == Effect(f)
              s == MySession
  <1>1. EngineInv /\ lane \in Seq(Frames) /\ StageKeeps /\ GotTyped /\ forwarded \in Seq(EventRecords)
    BY DEF StageInv, LaneInv
  <1>2. /\ f \in Frames /\ f # "interrupt" /\ Tail(lane) \in Seq(Frames)
        /\ lane # <<>> /\ lane' = Tail(lane) /\ lane[1] = f
        /\ \A i \in 1..Len(lane) : lane[i] # "interrupt"
    BY <1>1, TakeFrameCalls
  <1>3. /\ op \in Session!Ops /\ performing' = op.op
        /\ Ask(op) \/ BufferNow(op) \/ (op.op = "end" /\ BufferEnd)
        /\ op.op = "begin" => utterance' = <<>>
        /\ op.op = "feed" => utterance' = Append(utterance, op.chunk)
        /\ op.op = "end" => utterance' = utterance
        /\ UNCHANGED <<speaking, forwarded>>
    BY <1>1, TakeFrameIs
  <1>4. /\ f = "started" => op = [op |-> "begin", chunk |-> "none"]
        /\ f = "stopped" => op = [op |-> "end", chunk |-> "none"]
        /\ f \in Session!Chunks => op = [op |-> "feed", chunk |-> f]
    BY EffectIs
  <1>5. s \in Streams /\ s.open \in BOOLEAN
    BY <1>1, HandType, StreamIs
  <1>6. /\ engine # "vad" /\ EdgesBracket(lane, speaking, s.open, worker.pc = "dead")
        /\ (s.open => s.audio = utterance) /\ got.is # "protocol"
    BY <1>1 DEF StageKeeps
  <1>7. /\ f = "started" => ~s.open
        /\ f \in Inside => s.open \/ worker.pc = "dead"
    BY <1>2, <1>6 DEF EdgesBracket
  <1>8. worker.pc = "dead" => s = NoStream /\ s.open = FALSE
    BY <1>6, FreshIs DEF MySession
  <1>. HIDE DEF s, op
  <1>9. /\ EngineInv' /\ Seen /\ engine' = engine
        /\ \/ /\ worker.pc = "dead" /\ worker'.pc = "dead" /\ MySession' = s
              /\ got' = Session!EngineFailed /\ MyCall' = NoAnswer /\ pending' = NoPending
           \/ /\ worker.pc # "dead" /\ worker'.pc # "dead" /\ MySession' = Session!After(s, op)
              /\ \/ pending' # NoPending /\ MyCall' = Session!Answer(engine, s, op) /\ got' = got
                 \/ pending' = NoPending /\ MyCall' = NoAnswer /\ got' = Session!Answer(engine, s, op)
    BY <1>1, <1>3, StageCalls DEF s
  <1>10. GotTyped'
    BY <1>1, <1>9, GotStays
  <1>11. ASSUME NEW open, NEW gone, f \in OpenEnded => open \/ gone
         PROVE  EdgesBracket(lane', speaking', open, gone)
    <2>. DEFINE now == s.open
                dead == worker.pc = "dead"
                l == lane
                sp == speaking
    <2>1. /\ l \in Seq(Frames) /\ l # <<>> /\ (\A i \in 1..Len(l) : l[i] # "interrupt")
          /\ EdgesBracket(l, sp, now, dead) /\ (l[1] \in OpenEnded => open \/ gone)
      BY <1>1, <1>2, <1>6, <1>11
    <2>. HIDE DEF now, dead, l, sp
    <2>2. EdgesBracket(Tail(l), sp, open, gone)
      BY <2>1, EdgesBracketTail
    <2>. QED  BY <1>2, <1>3, <2>2 DEF l, sp
  <1>12. ASSUME worker'.pc = "dead" \/ (f \in OpenEnded => MySession'.open),
                MySession'.open => MySession'.audio = utterance',
                got'.is # "protocol", MyCall'.is # "protocol",
                f = "stopped" => IF pending' = NoPending THEN got' \in Whole(utterance') ELSE MyCall' \in Whole(utterance')
         PROVE  StageInv'
    <2>. DEFINE open == MySession'.open
                gone == worker'.pc = "dead"
    <2>1. EdgesBracket(lane', speaking', open, gone)
      <3>1. f \in OpenEnded => open \/ gone
        BY <1>12
      <3>. HIDE DEF open, gone
      <3>. QED  BY <1>11, <3>1
    <2>2. performing' = "end" => f = "stopped"
      <3>1. f = "started" \/ f = "stopped" \/ f \in Session!Chunks
        BY <1>2 DEF Frames
      <3>2. (f = "started" => op.op = "begin") /\ (f \in Session!Chunks => op.op = "feed")
        BY <1>4
      <3>. QED  BY <1>3, <3>1, <3>2
    <2>3. StageKeeps'
      BY <1>6, <1>9, <1>12, <2>1, <2>2 DEF StageKeeps
    <2>. QED  BY <1>1, <1>2, <1>3, <1>9, <1>10, <2>3 DEF StageInv, LaneInv
  <1>13. CASE worker.pc = "dead"
    <2>1. /\ worker'.pc = "dead" /\ MySession' = s /\ got' = Session!EngineFailed /\ MyCall' = NoAnswer
          /\ pending' = NoPending
      BY <1>9, <1>13
    <2>2. MySession'.open = FALSE /\ got' \in Whole(utterance')
      BY <1>8, <1>13, <2>1 DEF Whole
    <2>. QED  BY <1>12, <2>1, <2>2, AnswersAreNot
  <1>14. CASE worker.pc # "dead"
    <2>. DEFINE answer == Session!Answer(engine, s, op)
                after == Session!After(s, op)
    <2>1. /\ MySession' = after
          /\ \/ pending' # NoPending /\ MyCall' = answer /\ got' = got
             \/ pending' = NoPending /\ MyCall' = NoAnswer /\ got' = answer
      BY <1>9, <1>14
    <2>2. CASE f = "started"
      <3>1. op.op = "begin" /\ ~s.open
        BY <1>4, <1>7, <2>2
      <3>2. answer = Nothing /\ after = Session!Opened(<<>>)
        BY <1>3, <1>5, <3>1, AnswerIs, AfterIs
      <3>3. after.open = TRUE /\ after.audio = <<>> /\ utterance' = <<>>
        BY <1>3, <3>1, <3>2 DEF Session!Opened
      <3>. HIDE DEF answer, after
      <3>4. MySession'.open /\ MySession'.audio = utterance' /\ got'.is # "protocol" /\ MyCall'.is # "protocol"
        BY <1>6, <2>1, <3>2, <3>3, AnswersAreNot
      <3>. QED  BY <1>12, <2>2, <3>4
    <2>3. CASE f \in Session!Chunks
      <3>1. op.op = "feed" /\ op.chunk = f /\ s.open /\ s.audio = utterance
        BY <1>4, <1>6, <1>7, <1>14, <2>3 DEF Inside
      <3>2. after = Session!Opened(Append(s.audio, f))
        BY <1>3, <1>5, <3>1, AfterIs
      <3>3. after.open = TRUE /\ after.audio = Append(s.audio, f) /\ utterance' = Append(s.audio, f)
        BY <1>3, <3>1, <3>2 DEF Session!Opened
      <3>4. answer.is # "protocol"
        <4>. DEFINE heard == Session!Heard(engine, Append(s.audio, op.chunk))
                    before == Session!Heard(engine, s.audio)
        <4>1. answer = IF engine \in {"online", "vad"} /\ heard # before
                         THEN Session!Events(<<Session!Partial(heard)>>) ELSE Nothing
          BY <3>1, AnswerIs
        <4>. HIDE DEF answer, heard, before
        <4>2. answer = Session!Events(<<Session!Partial(heard)>>) \/ answer = Nothing
          BY <4>1
        <4>. QED  BY <4>2, AnswersAreNot
      <3>. HIDE DEF answer, after
      <3>5. MySession'.open /\ MySession'.audio = utterance' /\ got'.is # "protocol" /\ MyCall'.is # "protocol"
        BY <1>6, <2>1, <3>3, <3>4, AnswersAreNot
      <3>6. f # "stopped"
        BY <2>3, FramesAre
      <3>. QED  BY <1>12, <3>5, <3>6
    <2>4. CASE f = "stopped"
      <3>1. op.op = "end" /\ s.open /\ s.audio = utterance /\ utterance' = utterance
        BY <1>3, <1>4, <1>6, <1>7, <1>14, <2>4 DEF Inside
      <3>2. answer = Session!Events(<<Session!Final(utterance)>>) /\ after = NoStream
        <4>1. answer = IF s.open THEN Session!Events(<<Session!Final(s.audio)>>) ELSE Protocol
          BY <3>1, AnswerIs
        <4>2. after = NoStream
          BY <1>3, <1>5, <3>1, AfterIs
        <4>. QED  BY <3>1, <4>1, <4>2
      <3>. HIDE DEF answer, after
      <3>3. MySession'.open = FALSE /\ got'.is # "protocol" /\ MyCall'.is # "protocol"
        BY <1>6, <2>1, <3>2, AnswersAreNot, FreshIs
      <3>4. IF pending' = NoPending THEN got' \in Whole(utterance') ELSE MyCall' \in Whole(utterance')
        BY <2>1, <3>1, <3>2 DEF Whole
      <3>5. f \notin OpenEnded
        BY <2>4, EdgesAre
      <3>. QED  BY <1>12, <3>3, <3>4, <3>5
    <2>. QED  BY <1>2, <2>2, <2>3, <2>4 DEF Frames
  <1>. QED  BY <1>13, <1>14

LEMMA ResumeKeeps ==
    ASSUME StageInv, caller = "stage", Resume, UNCHANGED caller
    PROVE  /\ StageInv' /\ engine' = engine
           /\ performing = "end" => \/ forwarded' = Append(forwarded, Session!Final(utterance))
                                    \/ got = Session!EngineFailed /\ forwarded' = forwarded
  <1>1. EngineInv /\ lane \in Seq(Frames) /\ StageKeeps /\ GotTyped /\ forwarded \in Seq(EventRecords)
    BY DEF StageInv, LaneInv
  <1>2. /\ UNCHANGED <<engine, generation, commands, worker, pending, got, lane, speaking, utterance>>
        /\ performing' = "none" /\ pending = NoPending /\ forwarded' = forwarded \o got.events
    BY DEF Resume, engineVars
  <1>3. EngineInv' /\ MySession' = MySession /\ MyCall' = MyCall
    BY <1>1, <1>2, NothingSeen DEF Quiet
  <1>4. got.events \in Seq(EventRecords)
    <2>1. <<>> \in Seq(EventRecords)
      OBVIOUS
    <2>2. Protocol.events = <<>>
      BY DEF Protocol, Session!Protocol
    <2>3. CASE got = Session!EngineFailed \/ got = Protocol
      BY <2>1, <2>2, <2>3, AnswersAreNot
    <2>4. CASE got \in [is : {"ok"}, events : Seq(EventRecords)]
      BY <2>4
    <2>. QED  BY <1>1, <2>3, <2>4 DEF GotTyped, Answers
  <1>5. forwarded' \in Seq(EventRecords)
    BY <1>1, <1>2, <1>4
  <1>6. StageKeeps'
    BY <1>1, <1>2, <1>3 DEF StageKeeps
  <1>7. ASSUME performing = "end"
        PROVE  \/ forwarded' = Append(forwarded, Session!Final(utterance))
               \/ got = Session!EngineFailed /\ forwarded' = forwarded
    <2>1. got \in Whole(utterance)
      BY <1>1, <1>2, <1>7 DEF StageKeeps
    <2>2. CASE got = Session!EngineFailed
      <3>1. forwarded' = forwarded \o <<>>
        BY <1>2, <2>2, AnswersAreNot
      <3>. QED  BY <1>1, <2>2, <3>1
    <2>3. CASE got = Session!Events(<<Session!Final(utterance)>>)
      <3>1. forwarded' = forwarded \o <<Session!Final(utterance)>>
        BY <1>2, <2>3, AnswersAreNot
      <3>. QED  BY <1>1, <3>1, AppendIsConcat
    <2>. QED  BY <2>1, <2>2, <2>3 DEF Whole
  <1>. QED  BY <1>1, <1>2, <1>3, <1>5, <1>6, <1>7 DEF StageInv, LaneInv, GotTyped

LEMMA StageStep ==
    ASSUME StageInv, [SttNext]_sttVars
    PROVE  /\ StageInv'
           /\ caller = "stage" => got'.is # "protocol"
           /\ performing = "end" /\ performing' = "none" /\ generation' = generation
                => \/ forwarded' = Append(forwarded, Session!Final(utterance))
                   \/ got = Session!EngineFailed /\ forwarded' = forwarded
  <1>1. /\ EngineInv /\ lane \in Seq(Frames) /\ GotTyped /\ forwarded \in Seq(EventRecords) /\ LaneInv
        /\ caller # "stage" => performing = "none"
    BY DEF StageInv, LaneInv
  <1>2. caller' = caller
    BY DEF SttNext, sttVars
  <1>3. StageInv' => (caller = "stage" => got'.is # "protocol")
    BY <1>2 DEF StageInv, StageKeeps
  <1>4. CASE caller # "stage" /\ EngineNext /\ UNCHANGED stageVars
    <2>1. UNCHANGED <<lane, performing, forwarded>>
      BY <1>4 DEF stageVars
    <2>2. EngineInv' /\ Seen
      BY <1>1, <1>4, EngineSeen
    <2>3. GotTyped'
      BY <1>1, <2>2, GotStays
    <2>. QED  BY <1>1, <1>2, <1>4, <2>1, <2>2, <2>3 DEF StageInv, LaneInv
  <1>5. CASE caller = "stage" /\ Gate
    <2>1. StageInv'
      BY <1>2, <1>5, GateKeeps
    <2>2. performing' = performing
      BY <1>5 DEF Gate, SpeechStarts, SpeechGoesOn, SpeechStops, UpstreamInterrupts, GateSends
    <2>. QED  BY <1>3, <2>1, <2>2
  <1>6. CASE caller = "stage" /\ EngineSteps
    <2>1. StageInv'
      BY <1>2, <1>6, EngineStepsKeep
    <2>2. performing' = performing
      BY <1>6 DEF EngineSteps, stageVars
    <2>. QED  BY <1>3, <2>1, <2>2
  <1>7. CASE caller = "stage" /\ TakeInterrupt
    <2>1. StageInv'
      BY <1>2, <1>7, TakeInterruptKeeps
    <2>2. generation' # generation
      <3>1. generation' = generation + 1 /\ generation \in Nat
        BY <1>1, <1>7, HandType DEF TakeInterrupt
      <3>. QED  BY <3>1
    <2>. QED  BY <1>3, <2>1, <2>2
  <1>8. CASE caller = "stage" /\ TakeFrame
    <2>1. StageInv'
      BY <1>2, <1>8, TakeFrameKeeps
    <2>2. performing = "none"
      BY <1>8 DEF TakeFrame
    <2>. QED  BY <1>3, <2>1, <2>2
  <1>9. CASE caller = "stage" /\ Resume
    <2>1. StageInv' /\ (performing = "end" => \/ forwarded' = Append(forwarded, Session!Final(utterance))
                                              \/ got = Session!EngineFailed /\ forwarded' = forwarded)
      BY <1>2, <1>9, ResumeKeeps
    <2>. QED  BY <1>3, <2>1
  <1>10. CASE UNCHANGED sttVars
    <2>1. UNCHANGED <<engine, generation, commands, worker, pending, got, caller>>
          /\ UNCHANGED <<lane, speaking, performing, forwarded, utterance>>
      BY <1>10 DEF sttVars, engineVars, stageVars
    <2>2. EngineInv' /\ MySession' = MySession /\ MyCall' = MyCall
      BY <1>1, <2>1, NothingSeen DEF Quiet
    <2>3. StageKeeps => StageKeeps'
      BY <2>1, <2>2 DEF StageKeeps
    <2>4. StageInv'
      BY <1>1, <2>1, <2>2, <2>3 DEF StageInv, LaneInv, GotTyped
    <2>. QED  BY <1>3, <2>1, <2>4
  <1>. QED  BY <1>4, <1>5, <1>6, <1>7, <1>8, <1>9, <1>10 DEF SttNext, StageSteps

\* The stage trusts the gate's edges instead of tracking utterances itself (stage.rs): it
\* never meets a protocol error, however the Interrupts fall between its calls, and an
\* utterance that is handled to its closing edge becomes one final about exactly the audio
\* between its edges, or an error of the engine.
THEOREM StageFinishesUtterances == SttSpec => FinalIsUtterance
  <1>1. SttInit => StageInv
    BY StageInit
  <1>. DEFINE Final == \/ forwarded' = Append(forwarded, Session!Final(utterance))
                       \/ got = Session!EngineFailed /\ forwarded' = forwarded
              Kept == /\ caller = "stage" => got'.is # "protocol"
                      /\ performing = "end" /\ performing' = "none" /\ generation' = generation => Final
  <1>2. StageInv /\ [SttNext]_sttVars => StageInv' /\ Kept
    BY StageStep
  <1>3. StageInv /\ [SttNext]_sttVars => StageInv' /\ [Kept]_sttVars
    BY <1>2
  <1>. QED  BY <1>1, <1>3, PTL DEF SttSpec, FinalIsUtterance
=============================================================================
