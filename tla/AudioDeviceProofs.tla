-------------------------- MODULE AudioDeviceProofs --------------------------
(***************************************************************************)
(* What the device bridge guarantees of both its rings whatever their      *)
(* sizes, checked by TLAPS.                                                *)
(***************************************************************************)
EXTENDS AudioDevice, OutputPumpProofs, SequenceTheorems

-----------------------------------------------------------------------------
(***************************************************************************)
(* The capture ring.                                                       *)
(***************************************************************************)
\* A chunk taken from the ring, or sent, is still where it was in the order of capture.
LEMMA ConcatAgain == \A s, t, u \in Seq(Nat) : (s \o t) \o u = s \o (t \o u)
  <1>. SUFFICES ASSUME NEW s \in Seq(Nat), NEW t \in Seq(Nat), NEW u \in Seq(Nat)
                PROVE  (s \o t) \o u = s \o (t \o u)
    OBVIOUS
  <1>1. /\ s \o t \in Seq(Nat) /\ t \o u \in Seq(Nat)
        /\ Len(s \o t) = Len(s) + Len(t) /\ Len(t \o u) = Len(t) + Len(u)
    OBVIOUS
  <1>2. /\ (s \o t) \o u \in Seq(Nat) /\ s \o (t \o u) \in Seq(Nat)
        /\ Len((s \o t) \o u) = Len(s) + Len(t) + Len(u)
        /\ Len(s \o (t \o u)) = Len(s) + Len(t) + Len(u)
    BY <1>1
  <1>3. ASSUME NEW i \in 1..(Len(s) + Len(t) + Len(u))
        PROVE  ((s \o t) \o u)[i] = (s \o (t \o u))[i]
    BY <1>1
  <1>. QED  BY <1>2, <1>3, SeqEqual

LEMMA KeptLength ==
    ASSUME NEW a \in Seq(Nat), NEW b \in Seq(Nat), NEW c \in Seq(Nat)
    PROVE  a \o b \o c \in Seq(Nat)
  <1>1. a \o b \in Seq(Nat)
    BY ConcatProperties
  <1>. QED  BY <1>1, ConcatProperties

LEMMA KeptSent ==
    ASSUME NEW a \in Seq(Nat), NEW b \in Seq(Nat), NEW c \in Seq(Nat)
    PROVE  (a \o b) \o <<>> \o c = a \o b \o c
  <1>1. a \o b \in Seq(Nat)
    BY ConcatProperties
  <1>. QED  BY <1>1, ConcatEmptySeq

LEMMA KeptCollected ==
    ASSUME NEW a \in Seq(Nat), NEW b \in Seq(Nat), NEW c \in Seq(Nat), c /= <<>>
    PROVE  a \o Append(b, Head(c)) \o Tail(c) = a \o b \o c
  <1>1. a \o b \in Seq(Nat)
    BY ConcatProperties
  <1>2. Head(c) \in Nat /\ Tail(c) \in Seq(Nat) /\ c = <<Head(c)>> \o Tail(c)
    BY HeadTailProperties, ConcatProperties
  <1>3. <<Head(c)>> \in Seq(Nat) /\ Append(b, Head(c)) = b \o <<Head(c)>>
    BY <1>2, AppendIsConcat
  <1>4. a \o (b \o <<Head(c)>>) = (a \o b) \o <<Head(c)>>
    BY <1>3, ConcatAgain
  <1>5. ((a \o b) \o <<Head(c)>>) \o Tail(c) = (a \o b) \o (<<Head(c)>> \o Tail(c))
    BY <1>1, <1>2, <1>3, ConcatAgain
  <1>. QED  BY <1>2, <1>3, <1>4, <1>5

LEMMA KeptWritten ==
    \A a, b, c \in Seq(Nat), n \in Nat : a \o b \o Append(c, n) = Append(a \o b \o c, n)
  <1>. SUFFICES ASSUME NEW a \in Seq(Nat), NEW b \in Seq(Nat), NEW c \in Seq(Nat), NEW n \in Nat
                PROVE  a \o b \o Append(c, n) = Append(a \o b \o c, n)
    OBVIOUS
  <1>1. a \o b \in Seq(Nat) /\ a \o b \o c \in Seq(Nat)
    BY KeptLength, ConcatProperties
  <1>2. <<n>> \in Seq(Nat) /\ Append(c, n) = c \o <<n>>
    BY AppendIsConcat
  <1>3. (a \o b) \o (c \o <<n>>) = ((a \o b) \o c) \o <<n>>
    BY <1>1, <1>2, ConcatAgain
  <1>4. Append(a \o b \o c, n) = (a \o b \o c) \o <<n>>
    BY <1>1, AppendIsConcat
  <1>. QED  BY <1>2, <1>3, <1>4

\* Samples in the order of capture, none of a later one than the last captured.
InOrderTo(kept, last) ==
    /\ \A i \in 1..Len(kept) : kept[i] <= last
    /\ \A i \in 1..(Len(kept) - 1) : kept[i] < kept[i + 1]

LEMMA OneMoreInOrder ==
    ASSUME NEW kept \in Seq(Nat), NEW last \in Nat, InOrderTo(kept, last)
    PROVE  /\ InOrderTo(kept, last + 1)
           /\ InOrderTo(Append(kept, last + 1), last + 1)
           /\ Len(Append(kept, last + 1)) = Len(kept) + 1
  <1>. DEFINE longer == Append(kept, last + 1)
  <1>1. Len(kept) \in Nat /\ \A i \in 1..Len(kept) : kept[i] \in Nat
    OBVIOUS
  <1>2. /\ Len(longer) = Len(kept) + 1 /\ longer[Len(kept) + 1] = last + 1
        /\ \A i \in 1..Len(kept) : longer[i] = kept[i]
    OBVIOUS
  <1>. HIDE DEF longer
  <1>3. InOrderTo(kept, last + 1)
    BY <1>1 DEF InOrderTo
  <1>4. \A i \in 1..Len(longer) : longer[i] <= last + 1
    BY <1>1, <1>2 DEF InOrderTo
  <1>5. ASSUME NEW i \in 1..(Len(longer) - 1)
        PROVE  longer[i] < longer[i + 1]
    <2>1. CASE i = Len(kept)
      BY <1>1, <1>2, <2>1 DEF InOrderTo
    <2>2. CASE i \in 1..(Len(kept) - 1)
      BY <1>1, <1>2, <2>2 DEF InOrderTo
    <2>. QED  BY <1>1, <1>2, <2>1, <2>2
  <1>6. InOrderTo(longer, last + 1)
    BY <1>4, <1>5 DEF InOrderTo
  <1>. QED  BY <1>2, <1>3, <1>6 DEF longer

\* A number of samples that makes whole chunks.
Whole(n) == \E sent \in 0..n : n = sent * ChunkFrames

LEMMA OneMoreChunk ==
    ASSUME NEW n \in Nat, Whole(n)
    PROVE  Whole(n + ChunkFrames)
  <1>1. ChunkFrames \in Nat \ {0}
    BY CaptureAssumption
  <1>2. PICK k \in 0..n : n = k * ChunkFrames
    BY DEF Whole
  <1>3. k + 1 \in 0..(n + ChunkFrames) /\ n + ChunkFrames = (k + 1) * ChunkFrames
    BY <1>1, <1>2
  <1>. QED  BY <1>3 DEF Whole

LEMMA NoChunkYet == Whole(0)
  <1>1. 0 \in 0..0 /\ 0 = 0 * ChunkFrames
    BY CaptureAssumption
  <1>. QED  BY <1>1 DEF Whole

\* Where the reader stands tells what it holds.
ReaderPlaced ==
    /\ reader.at = "collect" => /\ Len(reader.chunk) < ChunkFrames
                               /\ Len(samples) >= ChunkFrames - Len(reader.chunk)
    /\ reader.at = "send" => Len(reader.chunk) = ChunkFrames
    /\ reader.at \notin {"collect", "send", "ended"} => reader.chunk = <<>>

LEMMA ChunksWholeParts ==
    /\ ChunksWhole <=> (Whole(Len(delivered)) /\ ReaderPlaced)
    /\ ChunksWhole' <=> (Whole(Len(delivered')) /\ ReaderPlaced')
  BY DEF ChunksWhole, Whole, ReaderPlaced

\* All that was captured and not dropped: what was sent, is held by the reader, or in the ring.
AllKept == delivered \o reader.chunk \o samples

LEMMA AccountedParts ==
    /\ SamplesAccounted <=> /\ InOrderTo(AllKept, mic.captured)
                            /\ Len(AllKept) + mic.overruns = mic.captured
    /\ SamplesAccounted' <=> /\ InOrderTo(AllKept', mic'.captured)
                             /\ Len(AllKept') + mic'.overruns = mic'.captured
  BY DEF SamplesAccounted, InOrderTo, AllKept

LEMMA KeptSameAccounts ==
    ASSUME SamplesAccounted, AllKept' = AllKept, mic'.captured = mic.captured,
           mic'.overruns = mic.overruns
    PROVE  SamplesAccounted'
  BY AccountedParts

LEMMA CaptureInitially ==
    ASSUME CaptureInit
    PROVE  CaptureInv
  <1>1. <<>> \in Seq(Nat) /\ Len(<<>>) = 0 /\ ChunkFrames \in Nat \ {0}
    BY CaptureAssumption
  <1>2. CaptureType
    BY <1>1 DEF CaptureInit, CaptureType
  <1>3. AllKept = <<>>
    BY <1>1, ConcatEmptySeq DEF CaptureInit, AllKept
  <1>4. SamplesAccounted
    BY <1>1, <1>3, AccountedParts DEF CaptureInit, InOrderTo
  <1>5. ChunksWhole
    BY <1>1, NoChunkYet, ChunksWholeParts DEF CaptureInit, ReaderPlaced
  <1>. QED  BY <1>2, <1>4, <1>5 DEF CaptureInit, BufferBegun, CaptureInv

\* The thread, the failures, the callback before and after it writes, and a look at the ring
\* that moves nothing.
LEMMA CaptureRests ==
    ASSUME CaptureInv,
           \/ StreamThread \/ StreamFails \/ CaptureWakes \/ StreamFailureWakes
           \/ Look \/ Arm \/ LookAgain \/ ParkOrFail \/ SendRefused \/ DropSource
           \/ (\E n \in 1..MaxBuffer : Captures(n)) \/ UNCHANGED capture
    PROVE  CaptureInv'
  <1>0. CaptureType /\ SamplesAccounted /\ ChunksWhole /\ BufferBegun
    BY DEF CaptureInv
  <1>1. ChunkFrames \in Nat \ {0} /\ MaxBuffer \in Nat \ {0} /\ Len(<<>>) = 0
    BY CaptureAssumption
  <1>2. /\ samples' = samples /\ delivered' = delivered /\ reader'.chunk = reader.chunk
        /\ mic'.captured = mic.captured /\ mic'.overruns = mic.overruns
    BY <1>0 DEF StreamThread, Builds, BuildFails, Opens, DropStream, Joined, StreamFails,
         CaptureWakes, StreamFailureWakes, Rouse, Reads, Look, Arm, LookAgain, ParkOrFail,
         SendRefused, DropSource, Captures, CaptureType, capture
  <1>3. mic' = mic \/ mic' = [mic EXCEPT !.closed = TRUE, !.failure = "wake"]
                  \/ mic' = [mic EXCEPT !.callback = "idle"]
                  \/ mic' = [mic EXCEPT !.failure = "none"]
                  \/ \E n \in 1..MaxBuffer : mic' = [mic EXCEPT !.callback = "write", !.left = n]
    BY DEF StreamThread, Builds, BuildFails, Opens, DropStream, Joined, StreamFails,
         CaptureWakes, StreamFailureWakes, Rouse, Reads, Look, Arm, LookAgain, ParkOrFail,
         SendRefused, DropSource, Captures, capture
  <1>4. /\ mic' \in [captured : Nat, left : Nat, callback : {"idle", "write", "wake"},
                    overruns : Nat, closed : BOOLEAN, failure : {"none", "wake"}]
        /\ BufferBegun'
    <2>1. ASSUME NEW n \in 1..MaxBuffer, mic' = [mic EXCEPT !.callback = "write", !.left = n]
          PROVE  /\ mic' \in [captured : Nat, left : Nat, callback : {"idle", "write", "wake"},
                              overruns : Nat, closed : BOOLEAN, failure : {"none", "wake"}]
                 /\ mic'.left > 0
      <3>1. n \in Nat /\ n > 0
        BY <1>1
      <3>. QED  BY <1>0, <2>1, <3>1 DEF CaptureType
    <2>. QED  BY <1>0, <1>3, <2>1 DEF CaptureType, BufferBegun
  <1>5. \/ reader' = reader
        \/ reader' = [reader EXCEPT !.woken = @ \/ reader.waker, !.waker = FALSE]
        \/ /\ reader.at \notin {"collect", "send", "ended"}
           /\ \/ reader' = [reader EXCEPT !.at = IF Enough THEN "collect" ELSE "register",
                                          !.woken = FALSE]
              \/ reader' = [reader EXCEPT !.at = "again", !.waker = TRUE]
              \/ reader' = [reader EXCEPT !.at = IF Enough THEN "collect" ELSE "closed?"]
              \/ reader' = [reader EXCEPT !.at = IF mic.closed THEN "ended" ELSE "parked"]
        \/ reader' = [reader EXCEPT !.at = "ended"]
    BY DEF StreamThread, Builds, BuildFails, Opens, DropStream, Joined, StreamFails,
         CaptureWakes, StreamFailureWakes, Rouse, Reads, Look, Arm, LookAgain, ParkOrFail,
         SendRefused, DropSource, Captures, capture
  <1>6. /\ CaptureType'
        /\ \/ reader'.at = reader.at \/ reader'.at = "ended"
           \/ /\ reader.at \notin {"collect", "send", "ended"}
              /\ reader'.at = "collect" => Enough
              /\ reader'.at /= "send"
    BY <1>0, <1>2, <1>4, <1>5 DEF CaptureType
  <1>7. ChunksWhole'
    <2>1. ReaderPlaced /\ Len(samples) \in Nat
      BY <1>0, ChunksWholeParts DEF CaptureType
    <2>2. ASSUME reader'.at = reader.at \/ reader'.at = "ended"
          PROVE  ReaderPlaced'
      BY <1>2, <2>1, <2>2 DEF ReaderPlaced
    <2>3. ASSUME /\ reader.at \notin {"collect", "send", "ended"}
                 /\ reader'.at = "collect" => Enough
                 /\ reader'.at /= "send"
          PROVE  ReaderPlaced'
      <3>1. Len(reader'.chunk) = 0 /\ reader'.chunk = <<>>
        BY <1>1, <1>2, <2>1, <2>3 DEF ReaderPlaced
      <3>. QED  BY <1>1, <1>2, <2>1, <2>3, <3>1 DEF ReaderPlaced, Enough
    <2>4. ReaderPlaced'
      BY <1>6, <2>2, <2>3
    <2>. QED  BY <1>0, <1>2, <2>4, ChunksWholeParts
  <1>8. SamplesAccounted'
    BY <1>0, <1>2, KeptSameAccounts DEF AllKept
  <1>. QED  BY <1>4, <1>6, <1>7, <1>8 DEF CaptureInv

LEMMA WriteKeeps ==
    ASSUME CaptureInv, WriteSample
    PROVE  CaptureInv'
  <1>0. CaptureType /\ SamplesAccounted /\ ChunksWhole /\ BufferBegun
    BY DEF CaptureInv
  <1>1. /\ mic.captured \in Nat /\ mic.left \in Nat \ {0} /\ mic.overruns \in Nat
        /\ samples \in Seq(Nat) /\ delivered \in Seq(Nat) /\ reader.chunk \in Seq(Nat)
        /\ reader' = reader /\ delivered' = delivered
    BY <1>0 DEF CaptureType, BufferBegun, WriteSample
  <1>. DEFINE after == AfterWriting(mic.left - 1)
              over == IF Len(samples) = CaptureSize THEN mic.overruns + 1 ELSE mic.overruns
  <1>2. /\ mic' = [mic EXCEPT !.captured = mic.captured + 1, !.left = mic.left - 1,
                              !.callback = after, !.overruns = over]
        /\ samples' = IF Len(samples) = CaptureSize THEN samples
                      ELSE Append(samples, mic.captured + 1)
    BY DEF WriteSample
  <1>3. /\ mic.captured + 1 \in Nat /\ mic.left - 1 \in Nat /\ over \in Nat
        /\ after \in {"wake", "write"} /\ (after = "write" => mic.left - 1 > 0)
    BY <1>1 DEF AfterWriting
  <1>4. samples' \in Seq(Nat) /\ Len(samples') >= Len(samples) /\ Len(samples) \in Nat
    BY <1>1, <1>2
  <1>. HIDE DEF over, after
  <1>5. /\ CaptureType' /\ mic'.captured = mic.captured + 1 /\ mic'.overruns = over
        /\ BufferBegun'
    <2>1. /\ mic' \in [captured : Nat, left : Nat, callback : {"idle", "write", "wake"},
                      overruns : Nat, closed : BOOLEAN, failure : {"none", "wake"}]
          /\ mic'.captured = mic.captured + 1 /\ mic'.overruns = over
          /\ mic'.left = mic.left - 1 /\ mic'.callback = after
      BY <1>0, <1>2, <1>3 DEF CaptureType
    <2>. QED  BY <1>0, <1>1, <1>3, <1>4, <2>1 DEF CaptureType, BufferBegun
  <1>6. SamplesAccounted'
    <2>1. AllKept \in Seq(Nat)
      BY <1>1, KeptLength DEF AllKept
    <2>2. InOrderTo(AllKept, mic.captured) /\ Len(AllKept) + mic.overruns = mic.captured
      BY <1>0, AccountedParts
    <2>3. /\ InOrderTo(AllKept, mic.captured + 1)
          /\ InOrderTo(Append(AllKept, mic.captured + 1), mic.captured + 1)
          /\ Len(Append(AllKept, mic.captured + 1)) = Len(AllKept) + 1
      BY <1>1, <2>1, <2>2, OneMoreInOrder, Zenon
    <2>. DEFINE length == Len(AllKept)
    <2>6. length \in Nat
      BY <2>1
    <2>. HIDE DEF length
    <2>4. CASE Len(samples) = CaptureSize
      <3>1. AllKept' = AllKept /\ over = mic.overruns + 1
        BY <1>1, <1>2, <2>4 DEF AllKept, over
      <3>2. Len(AllKept') + mic'.overruns = mic'.captured
        BY <1>1, <1>5, <2>2, <2>6, <3>1 DEF length
      <3>. QED  BY <1>5, <2>3, <3>1, <3>2, AccountedParts
    <2>5. CASE Len(samples) /= CaptureSize
      <3>1. AllKept' = Append(AllKept, mic.captured + 1) /\ over = mic.overruns
        <4>1. samples' = Append(samples, mic.captured + 1) /\ over = mic.overruns
          BY <1>2, <2>5 DEF over
        <4>2. delivered \o reader.chunk \o Append(samples, mic.captured + 1)
                = Append(delivered \o reader.chunk \o samples, mic.captured + 1)
          <5>. DEFINE chunk == reader.chunk
                      n == mic.captured + 1
          <5>1. chunk \in Seq(Nat) /\ n \in Nat
            BY <1>1, <1>3
          <5>. HIDE DEF chunk, n
          <5>3. delivered \in Seq(Nat) /\ samples \in Seq(Nat)
            BY <1>1
          <5>2. delivered \o chunk \o Append(samples, n) = Append(delivered \o chunk \o samples, n)
            BY <5>1, <5>3, KeptWritten
          <5>. QED  BY <5>2 DEF chunk, n
        <4>3. AllKept' = delivered' \o reader'.chunk \o samples'
          BY DEF AllKept
        <4>. QED  BY <1>1, <4>1, <4>2, <4>3 DEF AllKept
      <3>2. Len(AllKept') + mic'.overruns = mic'.captured
        <4>1. Len(AllKept') = length + 1
          BY <2>3, <3>1, Zenon DEF length
        <4>2. length + mic.overruns = mic.captured
          BY <2>2 DEF length
        <4>3. mic'.overruns = mic.overruns /\ mic'.captured = mic.captured + 1
          BY <1>5, <3>1
        <4>4. mic.captured \in Nat /\ mic.overruns \in Nat
          BY <1>1
        <4>. QED  BY <2>6, <4>1, <4>2, <4>3, <4>4
      <3>. QED  BY <1>5, <2>3, <3>1, <3>2, AccountedParts
    <2>. QED  BY <2>4, <2>5
  <1>7. Len(reader.chunk) \in Nat /\ ChunkFrames \in Nat
    BY <1>1, CaptureAssumption
  <1>8. ChunksWhole'
    BY <1>0, <1>1, <1>4, <1>7, ChunksWholeParts DEF ReaderPlaced
  <1>. QED  BY <1>5, <1>6, <1>8 DEF CaptureInv

LEMMA CollectKeeps ==
    ASSUME CaptureInv, Collect
    PROVE  CaptureInv'
  <1>. DEFINE chunk == Append(reader.chunk, Head(samples))
  <1>0. CaptureType /\ SamplesAccounted /\ ChunksWhole /\ BufferBegun
    BY DEF CaptureInv
  <1>1. /\ samples \in Seq(Nat) /\ delivered \in Seq(Nat) /\ reader.chunk \in Seq(Nat)
        /\ mic' = mic /\ ChunkFrames \in Nat \ {0}
    BY <1>0, CaptureAssumption DEF CaptureType, Collect, Reads
  <1>2. /\ reader.at = "collect" /\ samples' = Tail(samples) /\ delivered' = delivered
        /\ reader' = [reader EXCEPT !.chunk = chunk,
                         !.at = IF Len(chunk) = ChunkFrames THEN "send" ELSE "collect"]
    BY DEF Collect
  <1>3. Len(reader.chunk) < ChunkFrames /\ Len(samples) >= ChunkFrames - Len(reader.chunk)
    BY <1>0, <1>2, ChunksWholeParts DEF ReaderPlaced
  <1>4. Len(samples) \in Nat /\ Len(reader.chunk) \in Nat
    BY <1>1
  <1>5. samples /= <<>>
    BY <1>1, <1>3, <1>4
  <1>6. /\ Head(samples) \in Nat /\ Tail(samples) \in Seq(Nat)
        /\ Len(Tail(samples)) = Len(samples) - 1
        /\ chunk \in Seq(Nat) /\ Len(chunk) = Len(reader.chunk) + 1
    BY <1>1, <1>5
  <1>7. delivered \o chunk \o Tail(samples) = AllKept
    BY <1>1, <1>5, KeptCollected DEF AllKept
  <1>. HIDE DEF chunk
  <1>8. /\ CaptureType' /\ reader'.chunk = chunk
        /\ reader'.at = IF Len(chunk) = ChunkFrames THEN "send" ELSE "collect"
    BY <1>0, <1>1, <1>2, <1>6 DEF CaptureType
  <1>9. SamplesAccounted'
    <2>1. AllKept' = delivered' \o reader'.chunk \o samples'
      BY DEF AllKept
    <2>. QED  BY <1>0, <1>1, <1>2, <1>7, <1>8, <2>1, KeptSameAccounts
  <1>10. ReaderPlaced'
    BY <1>1, <1>2, <1>3, <1>4, <1>6, <1>8 DEF ReaderPlaced
  <1>11. ChunksWhole' /\ BufferBegun'
    BY <1>0, <1>1, <1>2, <1>10, ChunksWholeParts DEF BufferBegun
  <1>. QED  BY <1>8, <1>9, <1>11 DEF CaptureInv

LEMMA SentKeeps ==
    ASSUME CaptureInv, ChunkSent
    PROVE  CaptureInv'
  <1>0. CaptureType /\ SamplesAccounted /\ ChunksWhole /\ BufferBegun
    BY DEF CaptureInv
  <1>1. /\ samples \in Seq(Nat) /\ delivered \in Seq(Nat) /\ reader.chunk \in Seq(Nat)
        /\ mic' = mic /\ <<>> \in Seq(Nat)
    BY <1>0 DEF CaptureType, ChunkSent, Reads
  <1>2. /\ reader.at = "send" /\ samples' = samples /\ delivered' = delivered \o reader.chunk
        /\ \E at \in {"poll", "ended"} : reader' = [reader EXCEPT !.at = at, !.chunk = <<>>]
    BY DEF ChunkSent
  <1>3. Whole(Len(delivered)) /\ Len(reader.chunk) = ChunkFrames /\ Len(delivered) \in Nat
    BY <1>0, <1>1, <1>2, ChunksWholeParts DEF ReaderPlaced
  <1>4. delivered' \in Seq(Nat) /\ Len(delivered') = Len(delivered) + ChunkFrames
    <2>1. /\ delivered \o reader.chunk \in Seq(Nat)
          /\ Len(delivered \o reader.chunk) = Len(delivered) + Len(reader.chunk)
      BY <1>1
    <2>. QED  BY <1>2, <1>3, <2>1
  <1>5. CaptureType' /\ reader'.chunk = <<>> /\ reader'.at \in {"poll", "ended"}
    BY <1>0, <1>1, <1>2, <1>4 DEF CaptureType
  <1>6. AllKept' = AllKept
    <2>1. AllKept' = delivered' \o reader'.chunk \o samples'
      BY DEF AllKept
    <2>. QED  BY <1>1, <1>2, <1>5, <2>1, KeptSent DEF AllKept
  <1>7. SamplesAccounted'
    BY <1>0, <1>1, <1>6, KeptSameAccounts
  <1>8. Whole(Len(delivered'))
    BY <1>3, <1>4, OneMoreChunk
  <1>9. ChunksWhole' /\ BufferBegun'
    BY <1>0, <1>1, <1>5, <1>8, ChunksWholeParts DEF ReaderPlaced, BufferBegun
  <1>. QED  BY <1>5, <1>7, <1>9 DEF CaptureInv

LEMMA CaptureStep ==
    ASSUME CaptureInv, CaptureNext \/ UNCHANGED capture
    PROVE  CaptureInv'
  BY CaptureRests, WriteKeeps, CollectKeeps, SentKeeps DEF CaptureNext, Writing, Reading

-----------------------------------------------------------------------------
(***************************************************************************)
(* The playback ring.  PumpP is what was proved of the pump, read with the *)
(* ring and the discard of the device.                                     *)
(***************************************************************************)
PumpP == INSTANCE OutputPumpProofs WITH pump <- Shown

\* The operators mean the same in the instance.
LEMMA SameOperators ==
    /\ PumpP!LinkType = LinkType /\ PumpP!PumpType = PumpType /\ PumpP!DataFrame = DataFrame
    /\ PumpP!NoChunk = NoChunk /\ PumpP!NewLink = NewLink /\ PumpP!NewPump = NewPump
    /\ \A l : PumpP!PopSys(l) = PopSys(l) /\ PumpP!PopData(l) = PopData(l)
    /\ \A l : PumpP!DropInbound(l) = DropInbound(l) /\ PumpP!DropOutbound(l) = DropOutbound(l)
    /\ \A l : PumpP!Drained(l) <=> Drained(l)
    /\ \A lane : PumpP!Durables(lane) = Durables(lane) /\ PumpP!Frames(lane) = Frames(lane)
    /\ \A lane : PumpP!Ascending(lane) <=> Ascending(lane)
    /\ \A lane, n : PumpP!FlushedData(lane, n) = FlushedData(lane, n)
    /\ \A lane, next : PumpP!Precede(lane, next) <=> Precede(lane, next)
  BY DEF PumpP!LinkType, LinkType, PumpP!PumpType, PumpType, PumpP!DataFrame, DataFrame,
     PumpP!SysFrame, SysFrame, PumpP!DataKinds, DataKinds, PumpP!SysKinds, SysKinds,
     PumpP!NoChunk, NoChunk, PumpP!NewLink, NewLink, PumpP!NewPump, NewPump,
     PumpP!PopSys, PopSys, PumpP!PopData, PopData, PumpP!DropInbound, DropInbound,
     PumpP!DropOutbound, DropOutbound, PumpP!Drained, Drained, PumpP!Durables, Durables,
     PumpP!FlushedData, FlushedData, PumpP!Frames, Frames, PumpP!Ascending, Ascending,
     PumpP!Precede, Precede, PumpP!Retain, Retain, PumpP!Kept, Kept, PumpP!SurvivesFlush,
     SurvivesFlush

LEMMA RingFrames ==
    ASSUME bridge \in BridgeType
    PROVE  Frames(bridge.ring) \subseteq DataFrame /\ bridge.ring \in Seq(DataFrame)
  <1>1. bridge.ring \in Seq(DataFrame)
    BY DEF BridgeType
  <1>. QED  BY <1>1, FramesType

LEMMA ShownFields ==
    ASSUME pump \in PumpType, bridge \in BridgeType
    PROVE  /\ Shown \in PumpType
           /\ Shown.pc = pump.pc /\ Shown.pending = pump.pending /\ Shown.taken = pump.taken
           /\ Shown.chunk = pump.chunk /\ Shown.sysOpen = pump.sysOpen
           /\ Shown.floor = pump.floor /\ Shown.cut = pump.cut /\ Shown.heard = pump.heard
           /\ Shown.ring = Frames(bridge.ring)
           /\ Shown.discard = (pump.discard \/ bridge.callback = "discard")
  <1>1. Frames(bridge.ring) \subseteq DataFrame
    BY RingFrames
  <1>2. (pump.discard \/ bridge.callback = "discard") \in BOOLEAN
    OBVIOUS
  <1>. QED  BY <1>1, <1>2 DEF Shown, PumpType

\* A pump is what its fields are.
LEMMA SamePump ==
    ASSUME NEW p \in PumpType, NEW q \in PumpType,
           p.pc = q.pc, p.pending = q.pending, p.taken = q.taken, p.chunk = q.chunk,
           p.sysOpen = q.sysOpen, p.floor = q.floor, p.ring = q.ring, p.discard = q.discard,
           p.cut = q.cut, p.heard = q.heard
    PROVE  p = q
  BY DEF PumpType

LEMMA ShownTakePending ==
    ASSUME TypeOK, bridge \in BridgeType, TakePending,
           bridge'.ring = bridge.ring, bridge'.callback = bridge.callback
    PROVE  PumpP!TakePending
  <1>1. pump \in PumpType
    BY DEF TypeOK
  <1>. DEFINE R == Frames(bridge.ring)
              D == bridge.callback = "discard"
  <1>2. /\ Shown = [pump EXCEPT !.ring = R, !.discard = pump.discard \/ D]
        /\ Shown' = [pump' EXCEPT !.ring = R, !.discard = pump'.discard \/ D]
    BY DEF Shown
  <1>. HIDE DEF R, D
  <1>. QED  BY <1>1, <1>2, ShownFields DEF TakePending, Begin, PumpP!TakePending, PumpP!Begin, PumpType

\* What a step of the pump is with the ring and the callback left alone.
LEMMA ShownSystem ==
    ASSUME TypeOK, bridge \in BridgeType, TakeSystem \/ RaceTakesSystem,
           bridge'.ring = bridge.ring, bridge'.callback = bridge.callback
    PROVE  PumpP!TakeSystem \/ PumpP!RaceTakesSystem
  <1>. DEFINE R == Frames(bridge.ring)
              D == bridge.callback = "discard"
              frame == Head(output.sys)
  <1>1. pump \in PumpType
    BY DEF TypeOK
  <1>2. /\ Shown = [pump EXCEPT !.ring = R, !.discard = pump.discard \/ D]
        /\ Shown' = [pump' EXCEPT !.ring = R, !.discard = pump'.discard \/ D]
    BY DEF Shown
  <1>. HIDE DEF R, D, frame
  <1>3. CASE TakeSystem
    <2>1. /\ pump.pc = "recv" /\ pump.pending = <<>> /\ output.sys /= <<>>
          /\ ApplySystem(frame, [pump EXCEPT !.floor = frame.seq])
      BY <1>3 DEF TakeSystem, frame
    <2>2. PumpP!ApplySystem(frame, [Shown EXCEPT !.floor = frame.seq])
      BY <1>1, <1>2, <2>1, ShownFields, SameOperators
         DEF ApplySystem, PumpP!ApplySystem, PumpType
    <2>. QED  BY <1>1, <2>1, <2>2, ShownFields DEF PumpP!TakeSystem, frame
  <1>4. CASE RaceTakesSystem
    <2>1. /\ pump.pc = "playing" /\ pump.sysOpen /\ output.sys /= <<>>
          /\ \/ /\ frame.kind = "interrupt"
                /\ ApplySystem(frame, [pump EXCEPT !.pc = "recv", !.taken = <<>>,
                                                   !.floor = frame.seq])
             \/ /\ frame.kind /= "interrupt"
                /\ pump' = [pump EXCEPT !.floor = frame.seq, !.taken = Append(pump.taken, frame)]
                /\ output' = PopSys(output)
      BY <1>4 DEF RaceTakesSystem, frame
    <2>2. \/ /\ frame.kind = "interrupt"
             /\ PumpP!ApplySystem(frame, [Shown EXCEPT !.pc = "recv", !.taken = <<>>,
                                                       !.floor = frame.seq])
          \/ /\ frame.kind /= "interrupt"
             /\ Shown' = [Shown EXCEPT !.floor = frame.seq, !.taken = Append(Shown.taken, frame)]
             /\ output' = PumpP!PopSys(output)
      BY <1>1, <1>2, <2>1, ShownFields, SameOperators
         DEF ApplySystem, PumpP!ApplySystem, PumpType
    <2>. QED  BY <1>1, <2>1, <2>2, ShownFields DEF PumpP!RaceTakesSystem, frame
  <1>. QED  BY <1>3, <1>4

LEMMA ShownLeaves ==
    ASSUME TypeOK, bridge \in BridgeType, Leave,
           bridge'.ring = bridge.ring, bridge'.callback = bridge.callback
    PROVE  PumpP!Leave
  <1>1. pump \in PumpType
    BY DEF TypeOK
  <1>. DEFINE R == Frames(bridge.ring)
              D == bridge.callback = "discard"
  <1>2. /\ Shown = [pump EXCEPT !.ring = R, !.discard = pump.discard \/ D]
        /\ Shown' = [pump' EXCEPT !.ring = R, !.discard = pump'.discard \/ D]
    BY DEF Shown
  <1>. HIDE DEF R, D
  <1>. QED  BY <1>1, <1>2, ShownFields, SameOperators DEF Leave, PumpP!Leave, PumpType

LEMMA ShownPumping ==
    ASSUME TypeOK, bridge \in BridgeType, Pumping,
           bridge'.ring = bridge.ring, bridge'.callback = bridge.callback
    PROVE  PumpP!Pumping
  <1>1. pump \in PumpType
    BY DEF TypeOK
  <1>. DEFINE R == Frames(bridge.ring)
              D == bridge.callback = "discard"
  <1>2. /\ Shown = [pump EXCEPT !.ring = R, !.discard = pump.discard \/ D]
        /\ Shown' = [pump' EXCEPT !.ring = R, !.discard = pump'.discard \/ D]
    BY DEF Shown
  <1>. HIDE DEF R, D
  <1>3. CASE TakePending
    BY <1>3, ShownTakePending DEF PumpP!Pumping
  <1>4. CASE TakeSystem \/ RaceTakesSystem
    BY <1>4, ShownSystem DEF PumpP!Pumping
  <1>5. CASE TakeData
    <2>1. PumpP!TakeData
      BY <1>1, <1>2, <1>5, ShownFields, SameOperators
         DEF TakeData, Begin, PumpP!TakeData, PumpP!Begin, PumpType
    <2>. QED  BY <2>1 DEF PumpP!Pumping
  <1>6. CASE RaceSeesClose
    <2>1. PumpP!RaceSeesClose
      BY <1>1, <1>2, <1>6, ShownFields DEF RaceSeesClose, PumpP!RaceSeesClose, PumpType
    <2>. QED  BY <2>1 DEF PumpP!Pumping
  <1>7. CASE Finish
    <2>1. PumpP!Finish
      BY <1>1, <1>7, ShownFields, ShownLeaves, SameOperators DEF Finish, PumpP!Finish
    <2>. QED  BY <2>1 DEF PumpP!Pumping
  <1>. QED  BY <1>3, <1>4, <1>5, <1>6, <1>7 DEF Pumping

\* The steps of a poll, of the callbacks and of a failure that the pump knows nothing of.
Quiet == PollPush \/ RingFull \/ Register \/ Park \/ Callback \/ CallbackWakes \/ DeviceFails
           \/ FailureWakes

LEMMA ShownQuiet ==
    ASSUME TypeOK, bridge \in BridgeType, Quiet
    PROVE  /\ output' = output /\ Shown' = Shown /\ bridge'.ring = bridge.ring
           /\ TypeOK' /\ bridge' \in BridgeType
           /\ pump'.chunk = pump.chunk /\ pump'.pc = pump.pc /\ pump'.sysOpen = pump.sysOpen
           /\ BetweenPolls' \/ bridge'.push = bridge.push \/ Pushing
              \/ (~BetweenPolls /\ ~BetweenPolls')
  <1>1. pump \in PumpType
    BY DEF TypeOK
  <1>. DEFINE R == Frames(bridge.ring)
              D == bridge.callback = "discard"
  <1>2. /\ Shown = [pump EXCEPT !.ring = R, !.discard = pump.discard \/ D]
        /\ Shown' = [pump' EXCEPT !.ring = Frames(bridge'.ring),
                                  !.discard = pump'.discard \/ bridge'.callback = "discard"]
    BY DEF Shown
  <1>3. CASE PollPush \/ RingFull \/ Register \/ Park \/ DeviceFails \/ FailureWakes \/ CallbackWakes
    <2>1. /\ output' = output /\ pump' = pump /\ bridge' \in BridgeType
          /\ bridge'.ring = bridge.ring
          /\ bridge'.callback = bridge.callback
               \/ (bridge.callback = "wake" /\ bridge'.callback = "idle")
          /\ BetweenPolls' \/ bridge'.push = bridge.push \/ Pushing
              \/ (~BetweenPolls /\ ~BetweenPolls')
      BY <1>3 DEF PollPush, RingFull, Register, Park, DeviceFails, FailureWakes, CallbackWakes,
           Woken, BridgeType, BetweenPolls
    <2>. QED  BY <1>1, <1>2, <2>1 DEF TypeOK
  <1>4. CASE Callback
    <2>1. /\ output' = output /\ pump' = [pump EXCEPT !.discard = FALSE] /\ bridge' \in BridgeType
          /\ bridge'.ring = bridge.ring /\ bridge.callback = "idle"
          /\ bridge'.callback = IF pump.discard THEN "discard" ELSE "play"
          /\ bridge'.push = bridge.push
      BY <1>4 DEF Callback, BridgeType
    <2>2. pump' \in PumpType
      BY <1>1, <2>1 DEF PumpType
    <2>3. Shown' = Shown
      <3>1. /\ Shown' = [pump EXCEPT !.ring = R, !.discard = bridge'.callback = "discard"]
        BY <1>1, <1>2, <2>1 DEF PumpType
      <3>2. (bridge'.callback = "discard") = (pump.discard \/ D)
        BY <1>1, <2>1 DEF PumpType
      <3>. QED  BY <1>2, <3>1, <3>2
    <2>. QED  BY <1>1, <2>1, <2>2, <2>3 DEF TypeOK, PumpType
  <1>. QED  BY <1>3, <1>4 DEF Quiet

LEMMA ShownPushes ==
    ASSUME TypeOK, bridge \in BridgeType, MidPoll, PushSample \/ PushFails
    PROVE  /\ PumpP!PumpNext /\ TypeOK' /\ bridge' \in BridgeType
           /\ pump'.chunk = pump.chunk
           /\ bridge'.ring = bridge.ring \/ bridge'.ring = Append(bridge.ring, pump.chunk)
           /\ BetweenPolls' \/ (bridge'.push = bridge.push /\ pump' = pump /\ output' = output)
  <1>1. pump \in PumpType /\ output \in LinkType /\ bridge.ring \in Seq(DataFrame)
    BY DEF TypeOK, BridgeType
  <1>2. pump.chunk \in DataFrame /\ Append(bridge.ring, pump.chunk) \in Seq(DataFrame)
    BY <1>1 DEF PumpType, NoChunk, DataFrame, DataKinds
  <1>3. Frames(Append(bridge.ring, pump.chunk)) = Frames(bridge.ring) \cup {pump.chunk}
    BY <1>1, <1>2, FramesOfAppend
  <1>4. PumpP!Pushing <=> Pushing
    BY <1>1, ShownFields DEF PumpP!Pushing, Pushing
  <1>5. CASE PushSample
    <2>. DEFINE longer == Append(bridge.ring, pump.chunk)
                R == Frames(bridge.ring)
                D == bridge.callback = "discard"
    <2>1. /\ Pushing /\ bridge.push \in {"first", "again"} /\ output' = output
          /\ \/ /\ bridge.offset + 1 /= ChunkSize /\ pump' = pump
                /\ bridge' = [bridge EXCEPT !.ring = longer, !.offset = bridge.offset + 1]
             \/ /\ pump' = [pump EXCEPT !.pc = "recv", !.taken = <<>>]
                /\ bridge' = [bridge EXCEPT !.ring = longer, !.offset = 0, !.push = "none"]
      BY <1>5 DEF PushSample, MidPoll, BetweenPolls, BridgeType
    <2>2. ChunkSize \in Nat \ {0} /\ <<>> \in Seq(SysFrame) /\ longer \in Seq(DataFrame)
      BY <1>2, DeviceAssumption
    <2>. HIDE DEF longer
    <2>3. bridge.offset + 1 /= ChunkSize => bridge.offset + 1 \in 0..(ChunkSize - 1)
      BY <2>2 DEF BridgeType
    <2>4. /\ bridge' \in BridgeType /\ bridge'.ring = longer
          /\ bridge'.callback = bridge.callback
          /\ BetweenPolls' \/ (bridge'.push = bridge.push /\ pump' = pump)
      <3>1. CASE /\ bridge.offset + 1 /= ChunkSize /\ pump' = pump
                 /\ bridge' = [bridge EXCEPT !.ring = longer, !.offset = bridge.offset + 1]
        <4>. DEFINE next == bridge.offset + 1
        <4>1. next \in 0..(ChunkSize - 1) /\ bridge' = [bridge EXCEPT !.ring = longer, !.offset = next]
          BY <2>3, <3>1
        <4>. HIDE DEF next
        <4>. QED  BY <2>2, <3>1, <4>1 DEF BridgeType
      <3>2. CASE bridge' = [bridge EXCEPT !.ring = longer, !.offset = 0, !.push = "none"]
        <4>1. 0 \in 0..(ChunkSize - 1)
          BY <2>2
        <4>. QED  BY <2>2, <3>2, <4>1 DEF BridgeType, BetweenPolls
      <3>. QED  BY <2>1, <3>1, <3>2
    <2>5. TypeOK' /\ pump'.chunk = pump.chunk
      BY <1>1, <2>1, <2>2 DEF TypeOK, PumpType
    <2>6. /\ Shown = [pump EXCEPT !.ring = R, !.discard = pump.discard \/ D]
          /\ Shown' = [pump' EXCEPT !.ring = R \cup {pump.chunk}, !.discard = pump'.discard \/ D]
      BY <1>3, <2>4 DEF Shown, longer
    <2>. HIDE DEF R, D
    <2>7. PumpP!Push \/ PumpP!PlayDone
      BY <1>1, <1>4, <2>1, <2>6, ShownFields DEF PumpP!Push, PumpP!PlayDone, PumpType
    <2>. QED  BY <2>1, <2>4, <2>5, <2>7 DEF PumpP!PumpNext, PumpP!Device, longer
  <1>6. CASE PushFails
    <2>1. /\ Pushing /\ Leave /\ bridge'.push = "none" /\ bridge'.ring = bridge.ring
          /\ bridge' \in BridgeType /\ bridge'.callback = bridge.callback
      BY <1>6 DEF PushFails, MidPoll, BetweenPolls, BridgeType
    <2>2. PumpP!PlayFails
      BY <1>4, <2>1, ShownLeaves DEF PumpP!PlayFails
    <2>3. TypeOK' /\ pump'.chunk = pump.chunk
      BY <2>1, Leaves DEF PlayFails, Left
    <2>. QED  BY <2>1, <2>2, <2>3 DEF PumpP!PumpNext, PumpP!Device, BetweenPolls
  <1>. QED  BY <1>5, <1>6

LEMMA ShownDiscards ==
    ASSUME TypeOK, bridge \in BridgeType, DiscardRing
    PROVE  /\ PumpP!DeviceDiscards /\ pump' = pump /\ output' = output /\ bridge' \in BridgeType
           /\ bridge'.ring = <<>> /\ bridge'.push = bridge.push
  <1>1. pump \in PumpType /\ <<>> \in Seq(DataFrame) /\ Frames(<<>>) = {}
    BY FramesOfEmpty DEF TypeOK
  <1>2. /\ bridge.callback = "discard" /\ pump' = pump /\ output' = output
        /\ bridge' = [bridge EXCEPT !.callback = "play", !.ring = <<>>]
    BY DEF DiscardRing
  <1>3. /\ bridge' \in BridgeType /\ bridge'.ring = <<>> /\ bridge'.push = bridge.push
        /\ bridge'.callback = "play"
    BY <1>1, <1>2 DEF BridgeType
  <1>. DEFINE R == Frames(bridge.ring)
  <1>4. /\ Shown = [pump EXCEPT !.ring = R, !.discard = pump.discard \/ TRUE]
        /\ Shown' = [pump EXCEPT !.ring = {}, !.discard = pump.discard \/ FALSE]
    BY <1>1, <1>2, <1>3 DEF Shown
  <1>. HIDE DEF R
  <1>5. /\ Shown.discard /\ pump.discard \in BOOLEAN
        /\ Shown' = [Shown EXCEPT !.discard = pump.discard, !.ring = {}]
    BY <1>1, <1>4 DEF PumpType
  <1>6. PumpP!DeviceDiscards
    BY <1>2, <1>5 DEF PumpP!DeviceDiscards
  <1>. QED  BY <1>2, <1>3, <1>6

LEMMA ShownPlays ==
    ASSUME TypeOK, bridge \in BridgeType, RingInOrder, PlaySample
    PROVE  /\ PumpP!DevicePlays \/ Shown' = Shown
           /\ pump' = pump /\ output' = output /\ bridge' \in BridgeType
           /\ bridge'.ring = IF bridge.ring = <<>> THEN <<>> ELSE Tail(bridge.ring)
           /\ bridge'.push = bridge.push
  <1>1. pump \in PumpType /\ bridge.ring \in Seq(DataFrame)
    BY DEF TypeOK, BridgeType
  <1>. DEFINE rest == IF bridge.ring = <<>> THEN <<>> ELSE Tail(bridge.ring)
              R == Frames(bridge.ring)
  <1>2. rest \in Seq(DataFrame)
    BY <1>1
  <1>3. /\ bridge.callback = "play" /\ pump' = pump /\ output' = output
        /\ bridge' = [bridge EXCEPT !.callback = "wake", !.ring = rest]
    BY DEF PlaySample, BridgeType
  <1>. HIDE DEF rest, R
  <1>4. /\ bridge' \in BridgeType /\ bridge'.ring = rest /\ bridge'.push = bridge.push
        /\ bridge'.callback = "wake"
    BY <1>2, <1>3 DEF BridgeType
  <1>5. /\ Shown = [pump EXCEPT !.ring = R, !.discard = pump.discard \/ FALSE]
        /\ Shown' = [pump EXCEPT !.ring = Frames(rest), !.discard = pump.discard \/ FALSE]
    BY <1>3, <1>4 DEF Shown, R
  <1>6. CASE bridge.ring = <<>>
    <2>1. rest = bridge.ring
      BY <1>6 DEF rest
    <2>. QED  BY <1>3, <1>4, <1>5, <1>6, <2>1 DEF R, rest
  <1>7. CASE bridge.ring /= <<>>
    <2>. DEFINE chunk == Head(bridge.ring)
    <2>1. rest = Tail(bridge.ring) /\ R = {chunk} \cup Frames(rest)
      BY <1>1, <1>7, FramesOfTail DEF rest, R
    <2>2. \A other \in R : chunk.seq <= other.seq
      <3>1. Len(bridge.ring) > 0 /\ chunk = bridge.ring[1]
        BY <1>1, <1>7
      <3>2. \A j \in 1..Len(bridge.ring) : bridge.ring[1].seq <= bridge.ring[j].seq
        BY <1>1, <3>1 DEF RingInOrder, NoLater
      <3>. QED  BY <3>1, <3>2 DEF R, Frames
    <2>. HIDE DEF chunk
    <2>3. CASE chunk \in Frames(rest)
      <3>1. Frames(rest) = R
        BY <2>1, <2>3
      <3>. QED  BY <1>3, <1>4, <1>5, <3>1 DEF rest
    <2>4. CASE chunk \notin Frames(rest)
      <3>1. Frames(rest) = R \ {chunk} /\ chunk \in R
        BY <2>1, <2>4
      <3>2. Shown.ring = R /\ Shown' = [Shown EXCEPT !.ring = R \ {chunk}]
        BY <1>1, <1>5, <3>1 DEF PumpType
      <3>3. PumpP!DevicePlays
        BY <1>3, <2>2, <3>1, <3>2 DEF PumpP!DevicePlays
      <3>. QED  BY <1>3, <1>4, <3>3 DEF rest
    <2>. QED  BY <2>3, <2>4
  <1>. QED  BY <1>6, <1>7

-----------------------------------------------------------------------------
(***************************************************************************)
(* The ring implements the pump's, and keeps what the pump promises.       *)
(***************************************************************************)
LEMMA SameInv == Abstract!PumpInv <=> PumpP!PumpInv
  BY DEF
     Abstract!SysKinds, Abstract!DataKinds, Abstract!SysFrame, Abstract!DataFrame,
     Abstract!LinkType, Abstract!NoChunk, Abstract!PumpType, Abstract!SurvivesFlush,
     Abstract!Kept, Abstract!Frames, Abstract!Ascending, Abstract!Precede, Abstract!TypeOK,
     Abstract!Ordered, Abstract!NothingStaleAudible, Abstract!NothingStaleHeld,
     Abstract!Interrupts, Abstract!CausesInOrder, Abstract!PumpInv, PumpP!SysKinds,
     PumpP!DataKinds, PumpP!SysFrame, PumpP!DataFrame, PumpP!LinkType, PumpP!NoChunk,
     PumpP!PumpType, PumpP!SurvivesFlush, PumpP!Kept, PumpP!Frames, PumpP!Ascending,
     PumpP!Precede, PumpP!TypeOK, PumpP!Ordered, PumpP!NothingStaleAudible,
     PumpP!NothingStaleHeld, PumpP!Interrupts, PumpP!CausesInOrder, PumpP!PumpInv

LEMMA SameInit == Abstract!Init <=> PumpP!Init
  BY DEF Abstract!Init, Abstract!NewLink, Abstract!NewPump, Abstract!NoChunk, PumpP!Init,
     PumpP!NewLink, PumpP!NewPump, PumpP!NoChunk

LEMMA SameNext == Abstract!Next <=> PumpP!Next
  BY DEF
     Abstract!SurvivesFlush, Abstract!Kept, Abstract!Retain, Abstract!Frames,
     Abstract!FlushedData, Abstract!Durables, Abstract!PopSys, Abstract!PopData,
     Abstract!Drained, Abstract!DropInbound, Abstract!NoChunk, Abstract!ApplySystem,
     Abstract!Begin, Abstract!TakePending, Abstract!TakeSystem, Abstract!TakeData,
     Abstract!RaceTakesSystem, Abstract!RaceSeesClose, Abstract!Pushing, Abstract!Push,
     Abstract!PlayDone, Abstract!Leave, Abstract!PlayFails, Abstract!Finish,
     Abstract!DeviceDiscards, Abstract!DevicePlays, Abstract!Pumping, Abstract!Device,
     Abstract!PumpNext, Abstract!SendData, Abstract!SendSystem, Abstract!DropOutbound,
     Abstract!TailSends, Abstract!TailReturns, Abstract!Next, Abstract!DataKinds,
     PumpP!SurvivesFlush, PumpP!Kept, PumpP!Retain, PumpP!Frames, PumpP!FlushedData,
     PumpP!Durables, PumpP!PopSys, PumpP!PopData, PumpP!Drained, PumpP!DropInbound,
     PumpP!NoChunk, PumpP!ApplySystem, PumpP!Begin, PumpP!TakePending, PumpP!TakeSystem,
     PumpP!TakeData, PumpP!RaceTakesSystem, PumpP!RaceSeesClose, PumpP!Pushing, PumpP!Push,
     PumpP!PlayDone, PumpP!Leave, PumpP!PlayFails, PumpP!Finish, PumpP!DeviceDiscards,
     PumpP!DevicePlays, PumpP!Pumping, PumpP!Device, PumpP!PumpNext, PumpP!SendData,
     PumpP!SendSystem, PumpP!DropOutbound, PumpP!TailSends, PumpP!TailReturns, PumpP!Next,
     PumpP!DataKinds

LEMMA TailGiven == SentData \subseteq PumpP!DataKinds /\ SentSystem \subseteq PumpP!SysKinds /\ MaxSent \in Nat
  BY TailAssumption DEF PumpP!DataKinds, DataKinds, PumpP!SysKinds, SysKinds

LEMMA ShownOrdered ==
    ASSUME pump \in PumpType, bridge \in BridgeType, PumpP!Ordered
    PROVE  Ordered
  <1>1. /\ Ascending(pump.pending) /\ Ascending(output.data) /\ Precede(pump.pending, output.data)
        /\ Ascending(output.sys)
        /\ pump.chunk.seq < output.next /\ pump.cut < output.next
        /\ pump.pc /= "playing" => pump.taken = <<>>
    BY ShownFields, SameOperators DEF PumpP!Ordered
  <1>2. /\ \A f \in Frames(pump.pending) \cup Frames(output.data) :
             pump.chunk.seq < f.seq /\ f.seq < output.next
        /\ \A f \in Frames(output.sys) : pump.cut < f.seq /\ f.seq < output.next
    BY ShownFields, SameOperators DEF PumpP!Ordered
  <1>. QED  BY <1>1, <1>2 DEF Ordered

\* play is called with chunks in the order in which they were sent.
LEMMA NextChunk ==
    ASSUME TypeOK, Ordered, Pumping
    PROVE  /\ TypeOK'
           /\ pump'.chunk = pump.chunk \/ pump.chunk.seq < pump'.chunk.seq
  <1>1. /\ pump.pending \in Seq(DataFrame) /\ output.data \in Seq(DataFrame)
    BY TypedFields
  <1>2. CASE TakeSystem \/ RaceTakesSystem
    BY <1>2, SystemFrames DEF Interrupted, TakenSystem
  <1>3. CASE TakePending \/ TakeData
    <2>1. TypeOK' /\ Begun
      BY <1>3, DataFrames
    <2>2. pump.pending /= <<>> => Head(pump.pending) \in Frames(pump.pending)
      BY <1>1, FramesOfTail
    <2>3. output.data /= <<>> => Head(output.data) \in Frames(output.data)
      BY <1>1, FramesOfTail
    <2>. QED  BY <2>1, <2>2, <2>3 DEF Begun, Ordered
  <1>4. CASE RaceSeesClose
    BY <1>4, Pushes DEF Pushed
  <1>5. CASE Finish
    BY <1>5, Leaves DEF Left
  <1>. QED  BY <1>2, <1>3, <1>4, <1>5 DEF Pumping

LEMMA RingKeepsOrder ==
    ASSUME TypeOK, bridge \in BridgeType, RingInOrder, TypeOK',
           \/ /\ bridge'.ring = bridge.ring
              /\ pump'.chunk = pump.chunk \/ pump.chunk.seq < pump'.chunk.seq
           \/ /\ pump'.chunk = pump.chunk
              /\ \/ bridge'.ring = Append(bridge.ring, pump.chunk)
                 \/ bridge'.ring = <<>>
                 \/ bridge.ring /= <<>> /\ bridge'.ring = Tail(bridge.ring)
    PROVE  RingInOrder'
  <1>1. /\ bridge.ring \in Seq(DataFrame) /\ pump.chunk \in DataFrame /\ pump'.chunk \in DataFrame
        /\ \A f \in Frames(bridge.ring) : f.seq \in Nat
        /\ pump.chunk.seq \in Nat /\ pump'.chunk.seq \in Nat
    <2>1. bridge.ring \in Seq(DataFrame) /\ Frames(bridge.ring) \subseteq DataFrame
      BY RingFrames
    <2>2. pump.chunk \in DataFrame /\ pump'.chunk \in DataFrame
      BY DEF TypeOK, PumpType, NoChunk, DataFrame, DataKinds
    <2>3. \A f \in DataFrame : f.seq \in Nat
      BY DEF DataFrame
    <2>. QED  BY <2>1, <2>2, <2>3
  <1>2. /\ \A i, j \in 1..Len(bridge.ring) : i <= j => NoLater(bridge.ring[i], bridge.ring[j])
        /\ \A f \in Frames(bridge.ring) : NoLater(f, pump.chunk)
    BY DEF RingInOrder
  <1>3. CASE /\ bridge'.ring = bridge.ring
             /\ pump'.chunk = pump.chunk \/ pump.chunk.seq < pump'.chunk.seq
    <2>1. \A f \in Frames(bridge.ring) : NoLater(f, pump'.chunk)
      BY <1>1, <1>2, <1>3 DEF NoLater
    <2>. QED  BY <1>2, <1>3, <2>1 DEF RingInOrder
  <1>4. CASE pump'.chunk = pump.chunk /\ bridge'.ring = Append(bridge.ring, pump.chunk)
    <2>. DEFINE longer == Append(bridge.ring, pump.chunk)
                n == Len(bridge.ring)
    <2>1. /\ n \in Nat /\ Len(longer) = n + 1 /\ longer[n + 1] = pump.chunk
          /\ \A i \in 1..n : longer[i] = bridge.ring[i] /\ bridge.ring[i] \in Frames(bridge.ring)
      BY <1>1 DEF Frames
    <2>2. Frames(longer) = Frames(bridge.ring) \cup {pump.chunk}
      BY <1>1, FramesOfAppend
    <2>. HIDE DEF longer
    <2>3. NoLater(pump.chunk, pump.chunk)
      BY <1>1 DEF NoLater
    <2>4. ASSUME NEW i \in 1..Len(longer), NEW j \in 1..Len(longer), i <= j
          PROVE  NoLater(longer[i], longer[j])
      <3>1. CASE j = n + 1
        BY <1>2, <2>1, <2>3, <3>1
      <3>2. CASE j \in 1..n
        <4>1. i \in 1..n
          BY <2>1, <2>4, <3>2
        <4>. QED  BY <1>2, <2>1, <2>4, <3>2, <4>1
      <3>. QED  BY <2>1, <3>1, <3>2
    <2>5. \A f \in Frames(longer) : NoLater(f, pump.chunk)
      BY <1>2, <2>2, <2>3
    <2>6. bridge'.ring = longer
      BY <1>4 DEF longer
    <2>. QED  BY <1>4, <2>4, <2>5, <2>6 DEF RingInOrder
  <1>5. CASE pump'.chunk = pump.chunk /\ bridge'.ring = <<>>
    <2>1. Frames(bridge'.ring) = {} /\ Len(bridge'.ring) = 0
      BY <1>5, FramesOfEmpty
    <2>. QED  BY <2>1 DEF RingInOrder
  <1>6. CASE pump'.chunk = pump.chunk /\ bridge.ring /= <<>> /\ bridge'.ring = Tail(bridge.ring)
    <2>. DEFINE rest == Tail(bridge.ring)
    <2>1. /\ Len(bridge.ring) \in Nat /\ Len(rest) = Len(bridge.ring) - 1
          /\ \A i \in 1..Len(rest) : rest[i] = bridge.ring[i + 1]
      BY <1>1, <1>6
    <2>2. Frames(rest) \subseteq Frames(bridge.ring)
      BY <1>1, <1>6, FramesOfTail
    <2>3. bridge'.ring = rest
      BY <1>6
    <2>. HIDE DEF rest
    <2>4. \A i, j \in 1..Len(rest) : i <= j => NoLater(rest[i], rest[j])
      <3>. SUFFICES ASSUME NEW i \in 1..Len(rest), NEW j \in 1..Len(rest), i <= j
                    PROVE  NoLater(rest[i], rest[j])
        OBVIOUS
      <3>1. i + 1 \in 1..Len(bridge.ring) /\ j + 1 \in 1..Len(bridge.ring) /\ i + 1 <= j + 1
        BY <2>1
      <3>. QED  BY <1>2, <2>1, <3>1
    <2>. QED  BY <1>2, <1>6, <2>2, <2>3, <2>4 DEF RingInOrder
  <1>. QED  BY <1>3, <1>4, <1>5, <1>6

LEMMA RingInitially ==
    ASSUME DeviceInit
    PROVE  NothingStaleInRing /\ Abstract!Init
  <1>1. /\ output = NewLink /\ pump = NewPump
        /\ bridge = [push |-> "none", offset |-> 0, ring |-> <<>>, closed |-> FALSE,
                     waker |-> FALSE, woken |-> FALSE, callback |-> "idle", failure |-> "none"]
    BY DEF DeviceInit, Init
  <1>2. TypeOK
    BY <1>1, PumpInit DEF Init, PumpInv
  <1>3. <<>> \in Seq(DataFrame) /\ Frames(<<>>) = {} /\ Len(<<>>) = 0 /\ 0 \in 0..(ChunkSize - 1)
    BY FramesOfEmpty, DeviceAssumption
  <1>4. bridge \in BridgeType
    BY <1>1, <1>3 DEF BridgeType
  <1>5. MidPoll /\ RingInOrder
    BY <1>1, <1>3 DEF MidPoll, BetweenPolls, RingInOrder
  <1>6. Shown = NewPump
    <2>1. Frames(bridge.ring) = {} /\ bridge.callback /= "discard" /\ pump.discard = FALSE
      BY <1>1, <1>3 DEF NewPump
    <2>2. Shown = [pump EXCEPT !.ring = {}, !.discard = FALSE]
      BY <2>1 DEF Shown
    <2>. QED  BY <1>1, <2>2 DEF NewPump
  <1>7. PumpP!Init
    BY <1>1, <1>6, SameOperators DEF PumpP!Init
  <1>8. PumpP!PumpInv
    BY <1>7, PumpP!PumpInit, TailGiven
  <1>. QED  BY <1>2, <1>4, <1>5, <1>7, <1>8, SameInv, SameInit DEF NothingStaleInRing

\* A step of the device's side keeps its own parts and is one of the pump with a ring.
Ring == TypeOK /\ bridge \in BridgeType /\ MidPoll /\ RingInOrder

LEMMA RingStep ==
    ASSUME Ring, Ordered, DeviceNext
    PROVE  Ring' /\ (PumpP!Next \/ (output' = output /\ Shown' = Shown))
  <1>0. TypeOK /\ bridge \in BridgeType /\ MidPoll /\ RingInOrder /\ pump \in PumpType
    BY DEF Ring, TypeOK
  <1>1. CASE PumpSteps
    <2>1. Pumping /\ PlayFollows
      BY <1>1 DEF PumpSteps
    <2>2. TypeOK' /\ (pump'.chunk = pump.chunk \/ pump.chunk.seq < pump'.chunk.seq)
      BY <1>0, <2>1, NextChunk
    <2>3. /\ bridge' \in BridgeType /\ bridge'.ring = bridge.ring
          /\ bridge'.callback = bridge.callback /\ bridge'.push \in {"poll", "none"}
      <3>. DEFINE push == IF pump'.pc = "playing" THEN "poll" ELSE "none"
                  offset == IF pump'.chunk = pump.chunk /\ pump'.pc = "playing"
                            THEN bridge.offset ELSE 0
      <3>1. bridge' = [bridge EXCEPT !.push = push, !.offset = offset]
        BY <2>1 DEF PlayFollows
      <3>2. push \in {"poll", "none"} /\ offset \in 0..(ChunkSize - 1)
        BY <1>0, DeviceAssumption DEF BridgeType
      <3>. HIDE DEF push, offset
      <3>. QED  BY <1>0, <3>1, <3>2 DEF BridgeType
    <2>4. RingInOrder'
      BY <1>0, <2>2, <2>3, RingKeepsOrder
    <2>5. MidPoll'
      BY <2>3 DEF MidPoll, BetweenPolls
    <2>6. PumpP!Next
      BY <1>0, <2>1, <2>3, ShownPumping DEF PumpP!Next, PumpP!PumpNext
    <2>. QED  BY <2>2, <2>3, <2>4, <2>5, <2>6 DEF Ring
  <1>2. CASE Quiet
    <2>1. /\ output' = output /\ Shown' = Shown /\ bridge'.ring = bridge.ring
          /\ TypeOK' /\ bridge' \in BridgeType
          /\ pump'.chunk = pump.chunk /\ pump'.pc = pump.pc /\ pump'.sysOpen = pump.sysOpen
          /\ BetweenPolls' \/ bridge'.push = bridge.push \/ Pushing
             \/ (~BetweenPolls /\ ~BetweenPolls')
      BY <1>0, <1>2, ShownQuiet
    <2>2. RingInOrder'
      BY <1>0, <2>1, RingKeepsOrder
    <2>3. Pushing' <=> Pushing
      BY <2>1 DEF Pushing
    <2>4. MidPoll'
      BY <1>0, <2>1, <2>3 DEF MidPoll, BetweenPolls
    <2>. QED  BY <2>1, <2>2, <2>4 DEF Ring
  <1>3. CASE PushSample \/ PushFails
    <2>1. /\ PumpP!PumpNext /\ TypeOK' /\ bridge' \in BridgeType
          /\ pump'.chunk = pump.chunk
          /\ bridge'.ring = bridge.ring \/ bridge'.ring = Append(bridge.ring, pump.chunk)
          /\ BetweenPolls' \/ (bridge'.push = bridge.push /\ pump' = pump /\ output' = output)
      BY <1>0, <1>3, ShownPushes
    <2>2. RingInOrder'
      BY <1>0, <2>1, RingKeepsOrder
    <2>3. MidPoll'
      BY <1>0, <2>1 DEF MidPoll, BetweenPolls, Pushing
    <2>. QED  BY <2>1, <2>2, <2>3 DEF Ring, PumpP!Next
  <1>4. CASE DiscardRing
    <2>1. /\ PumpP!DeviceDiscards /\ pump' = pump /\ output' = output /\ bridge' \in BridgeType
          /\ bridge'.ring = <<>> /\ bridge'.push = bridge.push
      BY <1>0, <1>4, ShownDiscards
    <2>2. TypeOK'
      BY <1>0, <2>1 DEF TypeOK
    <2>3. RingInOrder'
      BY <1>0, <2>1, <2>2, RingKeepsOrder
    <2>4. MidPoll'
      BY <1>0, <2>1 DEF MidPoll, BetweenPolls, Pushing
    <2>. QED  BY <2>1, <2>2, <2>3, <2>4 DEF Ring, PumpP!Next, PumpP!PumpNext, PumpP!Device
  <1>5. CASE PlaySample
    <2>1. /\ PumpP!DevicePlays \/ Shown' = Shown
          /\ pump' = pump /\ output' = output /\ bridge' \in BridgeType
          /\ bridge'.ring = IF bridge.ring = <<>> THEN <<>> ELSE Tail(bridge.ring)
          /\ bridge'.push = bridge.push
      BY <1>0, <1>5, ShownPlays
    <2>2. TypeOK'
      BY <1>0, <2>1 DEF TypeOK
    <2>3. RingInOrder'
      BY <1>0, <2>1, <2>2, RingKeepsOrder
    <2>4. MidPoll'
      BY <1>0, <2>1 DEF MidPoll, BetweenPolls, Pushing
    <2>. QED  BY <2>1, <2>2, <2>3, <2>4 DEF Ring, PumpP!Next, PumpP!PumpNext, PumpP!Device
  <1>6. CASE TailSteps
    <2>1. /\ TailSends \/ TailReturns
          /\ BetweenPolls /\ bridge' = bridge /\ pump' = pump
      BY <1>6 DEF TailSteps, TailSends, TailReturns
    <2>2. TypeOK' /\ Shown' = Shown
      BY <1>0, <2>1, TailArrives DEF Shown
    <2>3. RingInOrder' /\ bridge' \in BridgeType /\ MidPoll'
      BY <1>0, <2>1, <2>2, RingKeepsOrder DEF MidPoll, BetweenPolls
    <2>4. PumpP!TailSends \/ PumpP!TailReturns
      BY <2>1, <2>2 DEF TailSends, TailReturns, PumpP!TailSends, PumpP!TailReturns,
         PumpP!SendData, SendData, PumpP!SendSystem, SendSystem, PumpP!DropOutbound, DropOutbound
    <2>. QED  BY <2>2, <2>3, <2>4 DEF Ring, PumpP!Next
  <1>. QED  BY <1>1, <1>2, <1>3, <1>4, <1>5, <1>6 DEF DeviceNext, Polling, Quiet

LEMMA RingRests ==
    ASSUME Ring, UNCHANGED deviceVars
    PROVE  Ring' /\ output' = output /\ Shown' = Shown
  <1>1. output' = output /\ pump' = pump /\ bridge' = bridge
    BY DEF deviceVars
  <1>. QED  BY <1>1 DEF Ring, TypeOK, MidPoll, BetweenPolls, Pushing, RingInOrder, Shown

LEMMA DeviceStep ==
    ASSUME NothingStaleInRing, DeviceNext \/ UNCHANGED deviceVars
    PROVE  NothingStaleInRing' /\ (Abstract!Next \/ UNCHANGED <<output, Shown>>)
  <1>1. Ring /\ PumpP!PumpInv
    BY SameInv DEF NothingStaleInRing, Ring
  <1>2. Ordered
    BY <1>1, ShownOrdered DEF Ring, TypeOK, PumpP!PumpInv
  <1>3. Ring' /\ (PumpP!Next \/ (output' = output /\ Shown' = Shown))
    BY <1>1, <1>2, RingStep, RingRests
  <1>4. PumpP!PumpInv'
    <2>1. CASE PumpP!PumpNext
      BY <1>1, <2>1, PumpP!PumpStep, TailGiven
    <2>2. CASE PumpP!TailSends \/ PumpP!TailReturns
      BY <1>1, <2>2, PumpP!TailArrives, PumpP!TailArrivalKeeps, TailGiven DEF PumpP!PumpInv
    <2>3. CASE output' = output /\ Shown' = Shown
      BY <1>1, <2>3, PumpP!PumpRests, TailGiven DEF PumpP!vars
    <2>. QED  BY <1>3, <2>1, <2>2, <2>3 DEF PumpP!Next
  <1>5. Abstract!PumpInv'
    BY <1>4, SameInv, PTL
  <1>. QED  BY <1>3, <1>4, <1>5, SameNext DEF NothingStaleInRing, Ring

-----------------------------------------------------------------------------
LEMMA AudioStep ==
    ASSUME SamplesAreCurrent, [AudioNext]_deviceAndMic
    PROVE  SamplesAreCurrent' /\ [Abstract!Next]_(Abstract!vars)
  <1>1. NothingStaleInRing /\ CaptureInv
    BY DEF SamplesAreCurrent
  <1>2. /\ DeviceNext \/ UNCHANGED deviceVars
        /\ CaptureNext \/ UNCHANGED capture
    BY DEF AudioNext, Playback, Capture, deviceAndMic
  <1>3. NothingStaleInRing' /\ (Abstract!Next \/ UNCHANGED <<output, Shown>>)
    BY <1>1, <1>2, DeviceStep
  <1>4. CaptureInv'
    BY <1>1, <1>2, CaptureStep
  <1>. QED  BY <1>3, <1>4 DEF SamplesAreCurrent, Abstract!vars

LEMMA AudioInitially ==
    ASSUME AudioInit
    PROVE  SamplesAreCurrent /\ Abstract!Init
  BY RingInitially, CaptureInitially DEF AudioInit, SamplesAreCurrent

\* Whatever the sizes of the rings, the chunks and the buffers, and wherever between two
\* accesses of a poll the callbacks run: no sample of what was sent before an Interrupt that was
\* applied is left in the playback ring behind the callback that discards, nor pushed after; and
\* of the microphone's none is lost but those counted as overruns, none sent twice or out of
\* order.
THEOREM AudioInvariant == AudioSpec => []SamplesAreCurrent
  <1>1. AudioInit => SamplesAreCurrent
    BY AudioInitially
  <1>2. SamplesAreCurrent /\ [AudioNext]_deviceAndMic => SamplesAreCurrent'
    BY AudioStep
  <1>. QED  BY <1>1, <1>2, PTL DEF AudioSpec

\* Every step of the polls and of the callbacks is one that OutputPump allows its device, or
\* nothing to it: what is proved of the pump holds of the samples in the ring.
THEOREM RingImplementsPump == AudioSpec => ImplementsPump
  <1>1. AudioInit => SamplesAreCurrent /\ Abstract!Init
    BY AudioInitially
  <1>2. SamplesAreCurrent /\ [AudioNext]_deviceAndMic
          => SamplesAreCurrent' /\ [Abstract!Next]_(Abstract!vars)
    BY AudioStep
  <1>. QED  BY <1>1, <1>2, PTL DEF AudioSpec, ImplementsPump, Abstract!Spec
=============================================================================
