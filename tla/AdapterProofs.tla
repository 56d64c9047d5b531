---------------------------- MODULE AdapterProofs ----------------------------
(***************************************************************************)
(* What the adapters promise, checked by TLAPS.  In the browser: a reply   *)
(* of the model is one generation's and whole, the clauses that are spoken *)
(* are the sentence, and what plays is no older than the last Interrupt,   *)
(* however long the page is open.  Of ZeroClaw: the turns of its session   *)
(* are kept apart, however many there are and wherever cancels and lost    *)
(* connections fall, and no delegation is told twice.                      *)
(***************************************************************************)
EXTENDS Browser, ZeroclawLm, SequenceTheorems, FiniteSetTheorems, TLAPS

Data == INSTANCE LinkProofs

(***************************************************************************)
(* The engines.                                                            *)
(***************************************************************************)
Phases == {"waiting", "running", "settled"}
Generation == [phase : Phases, stop : BOOLEAN, queue : Seq({"text", "empty"}),
               failed : BOOLEAN, tokens : Nat, made : Nat, whole : BOOLEAN]

OneAtATime(chain) ==
    \A h, i \in DOMAIN chain : h < i /\ chain[i].phase = "running" => chain[h].phase = "settled"

\* The pieces of text in a queue.
TextsIn(queue) == Cardinality({i \in 1..Len(queue) : queue[i] = "text"})

\* What the stage has read of its generation and what is queued of it is what it has made.
ReadInFull ==
    pull.gen /= 0 =>
      /\ ~Pulled.stop
      /\ pull.read + TextsIn(Pulled.queue) = Pulled.made
      /\ Pulled.phase = "settled" /\ ~Pulled.failed => Pulled.whole

GenerationsOK ==
    /\ gens \in Seq(Generation)
    /\ pull \in [gen : Nat, at : {"idle", "next", "parked"}, read : Nat, waited : 0..1]
    /\ pull.gen \in {0, Len(gens)}
    /\ OneAtATime(gens)
    /\ \A g \in DOMAIN gens : g /= pull.gen => gens[g].stop
    /\ pull.gen /= 0 /\ pull.waited = 1 =>
         \A g \in DOMAIN gens : g /= pull.gen => gens[g].phase /= "running"
    /\ ReadInFull
    /\ committed \subseteq [gen : Nat, read : Nat]
    /\ \A reply \in committed :
         /\ reply.gen \in DOMAIN gens /\ gens[reply.gen].phase = "settled"
         /\ gens[reply.gen].whole /\ reply.read = gens[reply.gen].made

Clip == [raw : Seq(BOOLEAN), before : BOOLEAN, after : BOOLEAN]

\* What WebTts keeps of the sentence it speaks.
SpeechState == [on : BOOLEAN, words : Seq(BOOLEAN), ends : Seq(Nat), next : Nat, run : Nat,
           result : {"none", "clip", "error"}, clip : Clip, waited : Nat]

SpeechOK ==
    /\ runs \in Seq([phase : Phases]) /\ OneAtATime(runs)
    /\ speech \in SpeechState
    /\ speech.on => speech.ends = Clauses(speech.words)

EnginesInv == GenerationsOK /\ SpeechOK

(***************************************************************************)
(* The session.                                                            *)
(***************************************************************************)
Pages == {"idle", "resuming", "asking", "wiring", "loading", "running", "stopping", "stopped",
          "failed"}

Rising(s) == \A i, j \in DOMAIN s : i < j => s[i] < s[j]
Under(s, t) == \A i \in DOMAIN s, j \in DOMAIN t : s[i] < t[j]

\* The chunks taken, queued and posted rise, in this order, up to the last one captured.
Numbered(captured, posted, chunks, taken) ==
    /\ captured \in Nat /\ posted \in Seq(Nat) /\ chunks \in Seq(Nat) /\ taken \in Seq(Nat)
    /\ Rising(taken) /\ Rising(chunks) /\ Rising(posted)
    /\ Under(taken, chunks) /\ Under(taken, posted) /\ Under(chunks, posted)
    /\ \A i \in DOMAIN taken : taken[i] <= captured
    /\ \A i \in DOMAIN chunks : chunks[i] <= captured
    /\ \A i \in DOMAIN posted : posted[i] <= captured

Mic == [live : BOOLEAN, handler : BOOLEAN, closure : BOOLEAN, posted : Seq(Nat), captured : Nat]
Received == [chunks : Seq(Nat), overruns : Nat, taken : Seq(Nat), over : BOOLEAN]

CaptureOK ==
    /\ page \in Pages /\ mic \in Mic /\ inbox \in Received
    /\ Numbered(mic.captured, mic.posted, inbox.chunks, inbox.taken)
    /\ mic.handler => mic.closure
    /\ page \in {"idle", "resuming", "asking", "wiring"} =>
         /\ mic.captured = 0 /\ mic.posted = <<>> /\ ~mic.handler
         /\ inbox.chunks = <<>> /\ inbox.taken = <<>> /\ inbox.overruns = 0
    /\ page \in {"asking", "wiring"} => mic.closure
    /\ page \in {"loading", "running", "stopping"} /\ ~inbox.over =>
         /\ mic.handler
         /\ Len(inbox.taken) + Len(inbox.chunks) + inbox.overruns + Len(mic.posted) = mic.captured

Source == [seq : Nat, start : Nat, length : Nat, slack : Int]

Latest(a, b) == IF a >= b THEN a ELSE b

Speakers == [open : BOOLEAN, now : Nat, next : Nat, sources : Seq(Source)]

\* The i-th source: what ScheduleIsCurrent says of it, and how far the end of the schedule lies
\* beyond its own end, or beyond the lead.
Placed(sources, i, now, next, cut) ==
    /\ i > 1 => sources[i].start >= Ends(sources[i - 1])
    /\ sources[i].slack <= LeadSeconds
    /\ sources[i].seq >= cut
    /\ Ends(sources[i]) <= next
    /\ next <= Latest(now + LeadSeconds, Ends(sources[i]))
                 + Total(SubSeq(sources, i + 1, Len(sources)))

Scheduled(sp, cut) ==
    /\ sp \in Speakers
    /\ \A i \in 1..Len(sp.sources) : Placed(sp.sources, i, sp.now, sp.next, cut)
    /\ sp.next <= sp.now + LeadSeconds + Total(sp.sources)

\* What the pump holds, and the lanes it reads: nothing from before the last Interrupt it took.
TailOK ==
    /\ out \in [pending : Seq(DataFrame), cut : Nat, over : BOOLEAN]
    /\ tail \in LinkType
    /\ \A i \in DOMAIN out.pending : Kept(out.pending[i], out.cut)
    /\ \A i \in DOMAIN tail.data : tail.data[i].seq >= out.cut
    /\ \A i \in DOMAIN tail.sys : tail.sys[i].seq < tail.next
    /\ out.cut < tail.next

SessionInv == CaptureOK /\ Scheduled(speakers, out.cut) /\ TailOK
BInv == EnginesInv /\ SessionInv

-----------------------------------------------------------------------------
(***************************************************************************)
(* How a sentence is cut into clauses.                                     *)
(***************************************************************************)
\* What the loop has after n words: each end is a word that clause punctuation ends, at least
\* MinWords behind the one before, and the count is what lies behind the last.
Begun(ends, i) == IF i = 1 THEN 0 ELSE ends[i - 1]
Cut(words, n, at) ==
    /\ at \in [ends : Seq(Nat), count : Nat]
    /\ \A i \in 1..Len(at.ends) :
         /\ at.ends[i] \in 1..n /\ words[at.ends[i]]
         /\ at.ends[i] - Begun(at.ends, i) >= MinWords
    /\ Begun(at.ends, Len(at.ends) + 1) + at.count = n

\* One word more.
LEMMA CutStep ==
    ASSUME NEW words \in Seq(BOOLEAN), NEW n \in 0..(Len(words) - 1), NEW at, Cut(words, n, at)
    PROVE  /\ words[n + 1] /\ at.count + 1 >= MinWords =>
                Cut(words, n + 1, [ends |-> Append(at.ends, n + 1), count |-> 0])
           /\ ~(words[n + 1] /\ at.count + 1 >= MinWords) =>
                Cut(words, n + 1, [ends |-> at.ends, count |-> at.count + 1])
  <1>. DEFINE ends == at.ends
              K == Len(ends)
              longer == Append(ends, n + 1)
  <1>1. /\ ends \in Seq(Nat) /\ at.count \in Nat /\ K \in Nat /\ n \in Nat
        /\ longer \in Seq(Nat) /\ Len(longer) = K + 1 /\ longer[K + 1] = n + 1
        /\ \A i \in 1..K : longer[i] = ends[i]
    BY DEF Cut
  <1>2. /\ \A i \in 1..K : /\ ends[i] \in 1..n /\ words[ends[i]]
                           /\ ends[i] - Begun(ends, i) >= MinWords
        /\ Begun(ends, K + 1) + at.count = n
    BY DEF Cut
  <1>. HIDE DEF longer, ends
  <1>3. \A i \in 1..(K + 1) : Begun(longer, i) = Begun(ends, i)
    <2>1. \A i \in 1..(K + 1) : i /= 1 => i - 1 \in 1..K
      BY <1>1
    <2>. QED  BY <1>1, <2>1 DEF Begun
  <1>4. Begun(longer, K + 2) = n + 1
    BY <1>1 DEF Begun
  <1>5. Begun(ends, K + 1) \in Nat
    <2>1. K + 1 /= 1 => K \in 1..K /\ (K + 1) - 1 = K
      BY <1>1
    <2>. QED  BY <1>1, <2>1 DEF Begun
  <1>6. MinWords \in Nat
    BY EnginesAssumption
  <1>7. ASSUME words[n + 1], at.count + 1 >= MinWords
        PROVE  Cut(words, n + 1, [ends |-> longer, count |-> 0])
    <2>1. ASSUME NEW i \in 1..(K + 1)
          PROVE  /\ longer[i] \in 1..(n + 1) /\ words[longer[i]]
                 /\ longer[i] - Begun(longer, i) >= MinWords
      <3>1. CASE i = K + 1
        <4>1. longer[i] = n + 1 /\ Begun(longer, i) = Begun(ends, K + 1)
          BY <1>1, <1>3, <3>1
        <4>2. (n + 1) - Begun(ends, K + 1) >= MinWords
          BY <1>1, <1>2, <1>5, <1>6, <1>7
        <4>. QED  BY <1>1, <1>7, <4>1, <4>2
      <3>2. CASE i \in 1..K
        <4>1. longer[i] = ends[i] /\ Begun(longer, i) = Begun(ends, i)
          BY <1>1, <1>3, <3>2
        <4>. QED  BY <1>1, <1>2, <3>2, <4>1
      <3>. QED  BY <1>1, <3>1, <3>2
    <2>2. (K + 1) + 1 = K + 2 /\ (n + 1) + 0 = n + 1
      BY <1>1
    <2>. QED  BY <1>1, <1>4, <2>1, <2>2 DEF Cut
  <1>8. Cut(words, n + 1, [ends |-> ends, count |-> at.count + 1])
    <2>1. \A i \in 1..K : ends[i] \in 1..(n + 1)
      BY <1>1, <1>2
    <2>2. Begun(ends, K + 1) + (at.count + 1) = n + 1
      BY <1>1, <1>2, <1>5
    <2>. QED  BY <1>1, <1>2, <2>1, <2>2 DEF Cut
  <1>. QED  BY <1>7, <1>8 DEF longer, ends

\* The loop goes through all words.
LEMMA CutToTheEnd ==
    ASSUME NEW words \in Seq(BOOLEAN)
    PROVE  Cut(words, Len(words), Clausing(words))
  <1>. DEFINE N == Len(words)
              A == [ends : Seq(Nat), count : Nat]
              Next1(at, n) == IF words[n] /\ at.count + 1 >= MinWords
                              THEN [ends |-> Append(at.ends, n), count |-> 0]
                              ELSE [ends |-> at.ends, count |-> at.count + 1]
              a == [ends |-> <<>>, count |-> 0]
              Body(k) == [i \in 0..N |-> IF i = 0 THEN a ELSE Next1(k[i - 1], i)]
              H == [i \in 1..N |-> [at \in A |-> Next1(at, i)]]
              f == CHOOSE k : k = Body(k)
  <1>1. N \in Nat /\ a \in A
    OBVIOUS
  <1>2. ASSUME NEW i \in 1..N, NEW at \in A
        PROVE  Next1(at, i) \in A
    <2>1. Append(at.ends, i) \in Seq(Nat) /\ at.ends \in Seq(Nat) /\ at.count + 1 \in Nat
      BY <1>1
    <2>. QED  BY <2>1
  <1>3. f = Body(f)
    <2>. HIDE DEF Next1, A, a, N
    <2>1. H \in [1..N -> [A -> A]]
      BY <1>2
    <2>11. \A i \in 1..N, at \in A : H[i][at] = Next1(at, i)
      OBVIOUS
    <2>. HIDE DEF H
    <2>2. PICK g \in [0..N -> A] : g[0] = a /\ \A i \in 1..N : g[i] = H[i][g[i - 1]]
      BY ONLY <1>1, <2>1, Data!Iteration
    <2>3. ASSUME NEW i \in 1..N
          PROVE  g[i] = Next1(g[i - 1], i)
      <3>1. i - 1 \in 0..N
        BY <1>1
      <3>. QED  BY <2>11, <2>2, <3>1
    <2>4. g = Body(g)
      <3>1. ASSUME NEW i \in 0..N
            PROVE  g[i] = IF i = 0 THEN a ELSE Next1(g[i - 1], i)
        BY <1>1, <2>2, <2>3
      <3>. QED  BY <2>2, <3>1
    <2>. HIDE DEF Body
    <2>. QED  BY <2>4
  <1>4. Clausing(words) = f[N]
    BY DEF Clausing
  <1>. DEFINE T == {n \in 0..N : Cut(words, n, f[n])}
  <1>5. f[0] = a /\ \A i \in 1..N : f[i] = Next1(f[i - 1], i)
    <2>. HIDE DEF f, Next1, a, N
    <2>1. \A i \in 0..N : f[i] = IF i = 0 THEN a ELSE Next1(f[i - 1], i)
      BY <1>3
    <2>2. 0 \in 0..N
      BY <1>1
    <2>3. ASSUME NEW i \in 1..N
          PROVE  f[i] = Next1(f[i - 1], i)
      <3>1. i \in 0..N /\ i /= 0
        BY <1>1
      <3>. QED  BY <2>1, <3>1
    <2>. QED  BY <2>1, <2>2, <2>3
  <1>. HIDE DEF f
  <1>6. 0 \in T
    <2>1. Cut(words, 0, a)
      BY DEF Cut, Begun
    <2>. HIDE DEF a
    <2>. QED  BY <1>1, <1>5, <2>1
  <1>7. ASSUME NEW n \in 0..N, n + 1 <= N, n \in T
        PROVE  n + 1 \in T
    <2>1. n + 1 \in 1..N /\ (n + 1) - 1 = n /\ n \in 0..(N - 1) /\ n + 1 \in 0..N
      BY <1>1, <1>7
    <2>2. Cut(words, n, f[n])
      BY <1>7
    <2>3. f[n + 1] = Next1(f[n], n + 1)
      BY <1>5, <2>1
    <2>4. Cut(words, n + 1, f[n + 1])
      BY <2>1, <2>2, <2>3, CutStep
    <2>. QED  BY <2>1, <2>4
  <1>. HIDE DEF T
  <1>8. \A n \in 0..N : n \in T
    BY <1>1, <1>6, <1>7, Data!CountingUp
  <1>9. N \in T
    BY <1>1, <1>8
  <1>. QED  BY <1>4, <1>9 DEF T

\* All of the words, cut at punctuation, no clause short but one that is the sentence.
WellCut(words, ends) ==
    LET n == Len(words)
        begin(i) == IF i = 1 THEN 1 ELSE ends[i - 1] + 1
    IN  /\ n > 0 => ends /= <<>> /\ Last(ends) = n
        /\ \A i \in DOMAIN ends :
             /\ begin(i) <= ends[i]
             /\ Len(ends) > 1 => ends[i] - begin(i) + 1 >= MinWords
             /\ i < Len(ends) => words[ends[i]]

\* What becomes of the words behind the last end, by their number.
LEMMA ClausesCutWell ==
    ASSUME NEW words \in Seq(BOOLEAN)
    PROVE  WellCut(words, Clauses(words)) /\ Clauses(words) \in Seq(Nat)
  <1>. DEFINE n == Len(words)
              ends == Clausing(words).ends
              count == Clausing(words).count
              K == Len(ends)
              grown == Clauses(words)
  <1>1. /\ ends \in Seq(Nat) /\ count \in Nat /\ K \in Nat /\ n \in Nat
        /\ \A i \in 1..K : /\ ends[i] \in 1..n /\ words[ends[i]] /\ ends[i] \in Nat
                           /\ ends[i] - Begun(ends, i) >= MinWords
        /\ Begun(ends, K + 1) + count = n
    BY CutToTheEnd DEF Cut
  <1>2. MinWords \in Nat /\ MinWords >= 1
    BY EnginesAssumption
  <1>3. grown = CASE ends /= <<>> /\ count < MinWords -> Append(Front(ends), n)
                [] count > 0 /\ (ends = <<>> \/ count >= MinWords) -> Append(ends, n)
                [] OTHER -> ends
    BY DEF Clauses
  <1>. HIDE DEF n, ends, count, grown
  <1>31. \A i \in 1..K : Begun(ends, i) \in Nat /\ (i /= 1 => i - 1 \in 1..K /\ Begun(ends, i) = ends[i - 1])
    <2>1. \A i \in 1..K : i /= 1 => i - 1 \in 1..K
      BY <1>1
    <2>. QED  BY <1>1, <2>1 DEF Begun
  <1>4. CASE ends /= <<>> /\ count < MinWords
    <2>. DEFINE front == Front(ends)
    <2>1. grown = Append(front, n)
      BY <1>1, <1>2, <1>3, <1>4
    <2>2. /\ K > 0 /\ front \in Seq(Nat) /\ Len(front) = K - 1
          /\ \A i \in 1..(K - 1) : front[i] = ends[i]
      <3>1. K > 0 /\ K - 1 \in 0..K
        BY <1>1, <1>4
      <3>2. \A i \in 1..(K - 1) : ends[i] \in Nat
        BY <1>1
      <3>3. /\ front \in Seq(Nat)
            /\ Len(front) = IF 1 <= K - 1 THEN (K - 1) - 1 + 1 ELSE 0
            /\ \A i \in 1..((K - 1) - 1 + 1) : front[i] = ends[1 + i - 1]
        <4>1. 1 \in Int /\ K - 1 \in Int
          BY <1>1
        <4>. QED  BY <3>2, <4>1, SubSeqProperties DEF Front
      <3>. HIDE DEF front
      <3>4. \A i \in 1..(K - 1) : front[i] = ends[i]
        BY <1>1, <3>3
      <3>5. Len(front) = K - 1
        <4>1. \A k \in Nat : k > 0 => (IF 1 <= k - 1 THEN (k - 1) - 1 + 1 ELSE 0) = k - 1
          OBVIOUS
        <4>. QED  BY <1>1, <3>1, <3>3, <4>1
      <3>. QED  BY <3>1, <3>3, <3>4, <3>5
    <2>. HIDE DEF front
    <2>3. /\ grown \in Seq(Nat) /\ Len(grown) = K /\ grown[K] = n
          /\ \A i \in 1..(K - 1) : grown[i] = ends[i]
      BY <1>1, <2>1, <2>2
    <2>4. ends[K] + count = n /\ ends[K] \in Nat
      BY <1>1, <2>2 DEF Begun
    <2>5. ASSUME NEW i \in 1..K
          PROVE  LET begin == IF i = 1 THEN 1 ELSE grown[i - 1] + 1
                 IN  begin <= grown[i] /\ grown[i] - begin + 1 >= MinWords
                      /\ (i < K => words[grown[i]])
      <3>1. grown[i] >= ends[i] /\ grown[i] \in Nat
        <4>1. CASE i = K
          BY <1>1, <2>3, <2>4, <4>1
        <4>2. CASE i \in 1..(K - 1)
          <5>1. grown[i] = ends[i] /\ ends[i] \in Nat
            BY <1>1, <2>3, <4>2
          <5>. QED  BY <5>1
        <4>3. i = K \/ i \in 1..(K - 1)
          BY <1>1
        <4>. QED  BY <4>1, <4>2, <4>3
      <3>2. i /= 1 => i - 1 \in 1..(K - 1) /\ grown[i - 1] = Begun(ends, i)
        <4>1. i /= 1 => i - 1 \in 1..(K - 1)
          BY <1>1
        <4>. QED  BY <1>31, <2>3, <4>1
      <3>3. ends[i] - Begun(ends, i) >= MinWords /\ Begun(ends, i) \in Nat /\ ends[i] \in Nat
        BY <1>1, <1>31
      <3>4. i = 1 => Begun(ends, i) = 0
        BY DEF Begun
      <3>5. i < K => grown[i] = ends[i] /\ words[ends[i]]
        BY <1>1, <2>3
      <3>. QED  BY <1>2, <3>1, <3>2, <3>3, <3>4, <3>5
    <2>6. WellCut(words, grown) /\ grown \in Seq(Nat)
      <3>1. DOMAIN grown = 1..K /\ grown /= <<>> /\ Last(grown) = n
        BY <2>2, <2>3 DEF Last
      <3>. QED  BY <2>3, <2>5, <3>1 DEF WellCut, n
    <2>. QED  BY <2>6 DEF grown
  <1>5. CASE count > 0 /\ (ends = <<>> \/ count >= MinWords) /\ ~(ends /= <<>> /\ count < MinWords)
    <2>1. grown = Append(ends, n)
      BY <1>3, <1>5
    <2>3. /\ grown \in Seq(Nat) /\ Len(grown) = K + 1 /\ grown[K + 1] = n
          /\ \A i \in 1..K : grown[i] = ends[i]
      BY <1>1, <2>1
    <2>4. Begun(ends, K + 1) \in Nat /\ (K + 1 /= 1 => K \in 1..K /\ Begun(ends, K + 1) = ends[K])
      <3>1. K + 1 /= 1 => K \in 1..K /\ (K + 1) - 1 = K
        BY <1>1
      <3>. QED  BY <1>1, <3>1 DEF Begun
    <2>5. ASSUME NEW i \in 1..(K + 1)
          PROVE  LET begin == IF i = 1 THEN 1 ELSE grown[i - 1] + 1
                 IN  begin <= grown[i] /\ (K + 1 > 1 => grown[i] - begin + 1 >= MinWords)
                      /\ (i < K + 1 => words[grown[i]])
      <3>1. CASE i \in 1..K
        <4>1. grown[i] = ends[i] /\ ends[i] \in Nat /\ words[ends[i]]
          BY <1>1, <2>3, <3>1
        <4>2. i /= 1 => grown[i - 1] = Begun(ends, i)
          BY <1>31, <2>3, <3>1
        <4>3. ends[i] - Begun(ends, i) >= MinWords /\ Begun(ends, i) \in Nat
          BY <1>1, <1>31, <3>1
        <4>4. i = 1 => Begun(ends, i) = 0
          BY DEF Begun
        <4>. QED  BY <1>2, <4>1, <4>2, <4>3, <4>4
      <3>2. CASE i = K + 1
        <4>1. i /= 1 => grown[i - 1] = ends[K] /\ ends[K] + count = n /\ ends[K] \in Nat /\ ends /= <<>>
          BY <1>1, <2>3, <2>4, <3>2
        <4>2. i = 1 => count = n
          BY <1>1, <3>2 DEF Begun
        <4>3. grown[i] = n /\ n \in Nat /\ count \in Nat /\ count > 0 /\ (i /= 1 => count >= MinWords)
          BY <1>1, <1>5, <2>3, <3>2, <4>1
        <4>. QED  BY <1>1, <1>2, <3>2, <4>1, <4>2, <4>3
      <3>. QED  BY <1>1, <3>1, <3>2
    <2>6. WellCut(words, grown) /\ grown \in Seq(Nat)
      <3>1. DOMAIN grown = 1..(K + 1) /\ grown /= <<>> /\ Last(grown) = n
        BY <1>1, <2>3 DEF Last
      <3>. QED  BY <2>3, <2>5, <3>1 DEF WellCut, n
    <2>. QED  BY <2>6 DEF grown
  <1>6. CASE ~(ends /= <<>> /\ count < MinWords) /\ ~(count > 0 /\ (ends = <<>> \/ count >= MinWords))
    <2>1. grown = ends /\ ends = <<>> /\ count = 0
      BY <1>1, <1>2, <1>3, <1>6
    <2>2. n = 0
      BY <1>1, <2>1 DEF Begun
    <2>. QED  BY <1>1, <2>1, <2>2 DEF WellCut, n, grown
  <1>. QED  BY <1>4, <1>5, <1>6

-----------------------------------------------------------------------------
(***************************************************************************)
(* Counting, and the silence cut off at a join.                            *)
(***************************************************************************)
LEMMA Extremes ==
    ASSUME NEW n \in Nat, NEW S \in SUBSET (1..n), S /= {}
    PROVE  /\ Min(S) \in S /\ \A i \in S : Min(S) <= i
           /\ Max(S) \in S /\ \A i \in S : Max(S) >= i
  <1>1. \E x \in S : \A y \in S : x <= y
    <2>1. S \in SUBSET Nat
      OBVIOUS
    <2>. QED  BY <2>1, Data!LeastNatural
  <1>2. \E x \in S : \A y \in S : x >= y
    <2>. DEFINE T == {n - i : i \in S}
    <2>0. \A i \in S : n - i \in Nat /\ n - i \in T
      OBVIOUS
    <2>1. T \in SUBSET Nat /\ T /= {}
      BY <2>0
    <2>2. PICK m \in T : \A k \in T : m <= k
      BY <2>1, Data!LeastNatural
    <2>3. PICK x \in S : m = n - x
      BY <2>2
    <2>4. ASSUME NEW y \in S
          PROVE  x >= y
      <3>1. n - y \in T
        OBVIOUS
      <3>2. n - x <= n - y
        BY <2>2, <2>3, <3>1
      <3>. QED  BY <3>2
    <2>. QED  BY <2>4
  <1>. QED  BY <1>1, <1>2 DEF Min, Max

\* Counting within 1..n.
LEMMA FinitePart ==
    ASSUME NEW n \in Nat, NEW S \in SUBSET (1..n)
    PROVE  IsFiniteSet(S) /\ Cardinality(S) \in Nat
  <1>1. IsFiniteSet(1..n)
    BY FS_Interval
  <1>. QED  BY <1>1, FS_Subset, FS_CardinalityType

\* A set moved along has as many members.
LEMMA ShiftedCount ==
    ASSUME NEW n \in Nat, NEW S \in SUBSET (1..n), NEW T \in SUBSET Int, NEW d \in Int,
           \A i \in Int : i \in T <=> i + d \in S
    PROVE  /\ IsFiniteSet(S) /\ IsFiniteSet(T)
           /\ Cardinality(S) \in Nat /\ Cardinality(T) = Cardinality(S)
  <1>. DEFINE f == [j \in S |-> j - d]
  <1>1. IsFiniteSet(S)
    BY FinitePart
  <1>2. f \in Bijection(S, T)
    <2>1. \A j \in S : j - d \in T
      <3>1. \A j \in S : j - d \in Int /\ (j - d) + d = j
        OBVIOUS
      <3>. QED  BY <3>1
    <2>2. f \in [S -> T]
      BY <2>1
    <2>3. \A a, b \in S : f[a] = f[b] => a = b
      OBVIOUS
    <2>4. \A t \in T : \E j \in S : f[j] = t
      <3>1. ASSUME NEW t \in T
            PROVE  \E j \in S : f[j] = t
        <4>1. t \in Int /\ t + d \in S /\ (t + d) - d = t
          OBVIOUS
        <4>2. f[t + d] = t
          BY <4>1
        <4>. QED  BY <4>1, <4>2
      <3>. QED  BY <3>1
    <2>. HIDE DEF f
    <2>. QED  BY <2>2, <2>3, <2>4 DEF Bijection, Injection, Surjection, IsInjective
  <1>3. ExistsBijection(S, T)
    BY <1>2 DEF ExistsBijection
  <1>. QED  BY <1>1, <1>3, FS_Bijection, FS_CardinalityType

\* The pieces of text in a queue that one is put into, or taken from.
LEMMA TextsInChange ==
    ASSUME NEW q \in Seq({"text", "empty"})
    PROVE  /\ TextsIn(q) \in Nat /\ TextsIn(<<>>) = 0
           /\ TextsIn(Append(q, "text")) = TextsIn(q) + 1
           /\ TextsIn(Append(q, "empty")) = TextsIn(q)
           /\ q /= <<>> => TextsIn(q) = IF Head(q) = "text" THEN TextsIn(Tail(q)) + 1
                                                       ELSE TextsIn(Tail(q))
           /\ q /= <<>> => TextsIn(Tail(q)) \in Nat
  <1>. DEFINE Of(s) == {i \in 1..Len(s) : s[i] = "text"}
              N == Len(q)
  <1>0. \A s : TextsIn(s) = Cardinality(Of(s))
    BY DEF TextsIn
  <1>1. \A s \in Seq({"text", "empty"}) : IsFiniteSet(Of(s)) /\ Cardinality(Of(s)) \in Nat
    <2>1. ASSUME NEW s \in Seq({"text", "empty"})
          PROVE  IsFiniteSet(Of(s))
      <3>1. Len(s) \in Nat /\ Of(s) \in SUBSET (1..Len(s))
        OBVIOUS
      <3>. HIDE DEF Of
      <3>. QED  BY <3>1, FinitePart
    <2>. HIDE DEF Of
    <2>. QED  BY <2>1, FS_CardinalityType
  <1>2. Cardinality(Of(<<>>)) = 0
    <2>1. Of(<<>>) = {}
      OBVIOUS
    <2>. QED  BY <2>1, FS_EmptySet
  <1>3. ASSUME NEW x \in {"text", "empty"}
        PROVE  Of(Append(q, x)) = IF x = "text" THEN Of(q) \cup {N + 1} ELSE Of(q)
    <2>1. /\ N \in Nat /\ Len(Append(q, x)) = N + 1 /\ Append(q, x)[N + 1] = x
          /\ \A i \in 1..N : Append(q, x)[i] = q[i]
      OBVIOUS
    <2>2. \A i : i \in 1..(N + 1) <=> i \in 1..N \/ i = N + 1
      BY <2>1
    <2>. QED  BY <2>1, <2>2
  <1>4. N + 1 \notin Of(q)
    OBVIOUS
  <1>5. Cardinality(Of(Append(q, "text"))) = Cardinality(Of(q)) + 1
    <2>. HIDE DEF Of
    <2>. QED  BY <1>1, <1>3, <1>4, FS_AddElement
  <1>6. Of(Append(q, "empty")) = Of(q)
    BY <1>3
  <1>7. ASSUME q /= <<>>
        PROVE  /\ Tail(q) \in Seq({"text", "empty"})
               /\ Cardinality(Of(q)) = IF Head(q) = "text" THEN Cardinality(Of(Tail(q))) + 1
                                                           ELSE Cardinality(Of(Tail(q)))
    <2>. DEFINE t == Tail(q)
                rest == Of(q) \ {1}
    <2>1. /\ t \in Seq({"text", "empty"}) /\ N \in Nat /\ N >= 1 /\ Len(t) = N - 1
          /\ \A i \in 1..(N - 1) : t[i] = q[i + 1]
          /\ Head(q) = q[1]
      BY <1>7
    <2>2. \A i \in Int : i \in Of(t) <=> i + 1 \in rest
      <3>1. ASSUME NEW i \in Int
            PROVE  i \in Of(t) <=> i + 1 \in rest
        <4>1. i \in 1..(N - 1) <=> i + 1 \in 1..N /\ i + 1 /= 1
          BY <2>1
        <4>. HIDE DEF t
        <4>. QED  BY <2>1, <4>1
      <3>. QED  BY <3>1
    <2>3. rest \in SUBSET (1..N) /\ Of(t) \in SUBSET Int /\ 1 \in Int
      BY <2>1
    <2>4. Cardinality(Of(t)) = Cardinality(rest)
      <3>. HIDE DEF t, rest, Of, N
      <3>. QED  BY <2>1, <2>2, <2>3, ShiftedCount
    <2>5. 1 \in Of(q) <=> Head(q) = "text"
      BY <2>1
    <2>6. Cardinality(rest) = IF 1 \in Of(q) THEN Cardinality(Of(q)) - 1 ELSE Cardinality(Of(q))
      <3>. HIDE DEF Of
      <3>. QED  BY <1>1, FS_RemoveElement
    <2>7. Cardinality(Of(q)) \in Nat
      BY <1>1
    <2>. HIDE DEF Of, rest
    <2>. QED  BY <2>1, <2>4, <2>5, <2>6, <2>7
  <1>. HIDE DEF Of
  <1>. QED  BY <1>0, <1>1, <1>2, <1>5, <1>6, <1>7

\* trim_joins keeps every loud sample, and at a join no more silence than it is told to.
LEMMA TrimmedAtJoins ==
    ASSUME NEW clip \in Clip
    PROVE  LET loud(s) == {i \in DOMAIN s : s[i]}
               kept == TrimJoins(clip)
           IN  loud(clip.raw) /= {} =>
               /\ Cardinality(loud(kept)) = Cardinality(loud(clip.raw))
               /\ clip.before => Min(loud(kept)) <= JoinLead + 1
               /\ clip.after => Len(kept) - Max(loud(kept)) <= JoinTail
               /\ ~clip.before /\ ~clip.after => kept = clip.raw
  <1>. DEFINE Loud(s) == {i \in DOMAIN s : s[i]}
              raw == clip.raw
              n == Len(raw)
              first == Min(Loud(raw))
              last == Max(Loud(raw))
              from == IF clip.before /\ first > JoinLead THEN first - JoinLead ELSE 1
              to == IF clip.after /\ last + JoinTail < n THEN last + JoinTail ELSE n
              kept == SubSeq(raw, from, to)
  <1>. SUFFICES ASSUME Loud(raw) /= {}
                PROVE  /\ Cardinality(Loud(kept)) = Cardinality(Loud(raw))
                       /\ clip.before => Min(Loud(kept)) <= JoinLead + 1
                       /\ clip.after => Len(kept) - Max(Loud(kept)) <= JoinTail
                       /\ ~clip.before /\ ~clip.after => kept = raw
    BY DEF TrimJoins
  <1>1. /\ raw \in Seq(BOOLEAN) /\ n \in Nat /\ clip.before \in BOOLEAN /\ clip.after \in BOOLEAN
        /\ JoinLead \in Nat /\ JoinTail \in Nat /\ DOMAIN raw = 1..n
    BY EnginesAssumption DEF Clip
  <1>2. Loud(raw) \in SUBSET (1..n)
    BY <1>1
  <1>. HIDE DEF Loud
  <1>3. /\ first \in Loud(raw) /\ \A i \in Loud(raw) : first <= i
        /\ last \in Loud(raw) /\ \A i \in Loud(raw) : last >= i
    BY <1>1, <1>2, Extremes
  <1>4. first \in 1..n /\ last \in 1..n /\ first <= last
    BY <1>2, <1>3
  <1>. HIDE DEF first, last, n
  <1>5. /\ from \in 1..n /\ to \in 1..n /\ from <= first /\ last <= to
        /\ clip.before => first - from <= JoinLead
        /\ clip.after => to - last <= JoinTail
    BY <1>1, <1>4
  <1>6. ~clip.before /\ ~clip.after => from = 1 /\ to = n
    OBVIOUS
  <1>. HIDE DEF from, to
  <1>7. /\ kept \in Seq(BOOLEAN) /\ Len(kept) = to - from + 1
        /\ \A i \in 1..(to - from + 1) : kept[i] = raw[from + i - 1]
    <2>1. \A i \in from..to : raw[i] \in BOOLEAN
      BY <1>1, <1>5
    <2>2. from \in Int /\ to \in Int /\ from <= to
      BY <1>1, <1>4, <1>5
    <2>. QED  BY <2>1, <2>2, SubSeqProperties
  <1>8. ~clip.before /\ ~clip.after => kept = raw
    <2>. SUFFICES ASSUME ~clip.before, ~clip.after PROVE kept = raw
      OBVIOUS
    <2>1. from = 1 /\ to = n
      BY <1>6
    <2>2. Len(kept) = Len(raw) /\ \A i \in 1..Len(raw) : kept[i] = raw[i]
      BY <1>1, <1>7, <2>1 DEF n
    <2>. HIDE DEF kept
    <2>. QED  BY <1>1, <1>7, <2>2, SeqEqual
  <1>. HIDE DEF kept
  <1>9. DOMAIN kept = 1..(to - from + 1)
    BY <1>7
  <1>10. \A i \in Int : i \in Loud(kept) <=> i + (from - 1) \in Loud(raw)
    <2>1. ASSUME NEW i \in Int
          PROVE  i \in Loud(kept) <=> i + (from - 1) \in Loud(raw)
      <3>1. CASE i \in 1..(to - from + 1)
        <4>1. kept[i] = raw[from + i - 1] /\ from + i - 1 = i + (from - 1)
          BY <1>1, <1>5, <1>7, <3>1
        <4>2. i + (from - 1) \in 1..n
          BY <1>1, <1>5, <3>1
        <4>. QED  BY <1>1, <1>9, <3>1, <4>1, <4>2 DEF Loud
      <3>2. CASE i \notin 1..(to - from + 1)
        <4>1. i \notin Loud(kept)
          BY <1>9, <3>2 DEF Loud
        <4>2. i + (from - 1) \notin first..last
          BY <1>1, <1>4, <1>5, <3>2
        <4>3. i + (from - 1) \notin Loud(raw)
          BY <1>2, <1>3, <1>4, <4>2
        <4>. QED  BY <4>1, <4>3
      <3>. QED  BY <3>1, <3>2
    <2>. QED  BY <2>1
  <1>11. Loud(kept) \in SUBSET (1..(to - from + 1)) /\ to - from + 1 \in Nat /\ from - 1 \in Int
    BY <1>1, <1>4, <1>5, <1>9 DEF Loud
  <1>12. Cardinality(Loud(kept)) = Cardinality(Loud(raw))
    <2>1. Loud(kept) \in SUBSET Int
      BY <1>11
    <2>. QED  BY <1>1, <1>2, <1>10, <1>11, <2>1, ShiftedCount
  <1>13. first - (from - 1) \in Loud(kept) /\ last - (from - 1) \in Loud(kept)
    <2>1. /\ first - (from - 1) \in Int /\ last - (from - 1) \in Int
          /\ (first - (from - 1)) + (from - 1) = first
          /\ (last - (from - 1)) + (from - 1) = last
      BY <1>1, <1>4, <1>5
    <2>. QED  BY <1>3, <1>10, <2>1
  <1>14. /\ Min(Loud(kept)) \in Int /\ Min(Loud(kept)) <= first - (from - 1)
         /\ Max(Loud(kept)) \in Int /\ Max(Loud(kept)) >= last - (from - 1)
    <2>. DEFINE S == Loud(kept)
                m == to - from + 1
    <2>1. S /= {} /\ m \in Nat /\ S \in SUBSET (1..m)
      BY <1>11, <1>13
    <2>2. first - (from - 1) \in S /\ last - (from - 1) \in S
      BY <1>13
    <2>. HIDE DEF S, m
    <2>3. /\ Min(S) \in S /\ \A i \in S : Min(S) <= i
          /\ Max(S) \in S /\ \A i \in S : Max(S) >= i
      BY <2>1, Extremes
    <2>4. Min(S) \in Int /\ Max(S) \in Int
      <3>1. \A i \in S : i \in Int
        BY <2>1
      <3>. QED  BY <2>3, <3>1
    <2>. QED  BY <2>2, <2>3, <2>4 DEF S
  <1>15. clip.before => Min(Loud(kept)) <= JoinLead + 1
    BY <1>1, <1>4, <1>5, <1>14
  <1>16. clip.after => Len(kept) - Max(Loud(kept)) <= JoinTail
    BY <1>1, <1>4, <1>5, <1>7, <1>14
  <1>. QED  BY <1>8, <1>12, <1>15, <1>16

-----------------------------------------------------------------------------
(***************************************************************************)
(* The engines keep EnginesInv.                                            *)
(***************************************************************************)
LEMMA ChainKept ==
    ASSUME NEW n \in Nat, NEW old, NEW new, DOMAIN old = 1..n, DOMAIN new = 1..n, OneAtATime(old),
           NEW i \in 1..n,
           \A j \in 1..n : j /= i => new[j].phase = old[j].phase,
           old[i].phase = "settled" => new[i].phase = "settled",
           new[i].phase = "running" => old[i].phase = "running" \/ InTurn(old, i)
    PROVE  OneAtATime(new)
  <1>1. ASSUME NEW h \in 1..n, NEW k \in 1..n, h < k, new[k].phase = "running"
        PROVE  new[h].phase = "settled"
    <2>1. CASE k = i
      <3>1. h \in 1..(i - 1) /\ h /= i
        BY <1>1, <2>1
      <3>2. old[h].phase = "settled"
        BY <1>1, <2>1, <3>1 DEF InTurn, OneAtATime
      <3>. QED  BY <3>1, <3>2
    <2>2. CASE k /= i
      <3>1. old[h].phase = "settled"
        BY <1>1, <2>2 DEF OneAtATime
      <3>. QED  BY <3>1
    <2>. QED  BY <2>1, <2>2
  <1>. QED  BY <1>1 DEF OneAtATime

\* What a chain is a sequence of.
LEMMA ChainTypes ==
    ASSUME NEW S, NEW chain \in Seq(S)
    PROVE  Len(chain) \in Nat /\ DOMAIN chain = 1..Len(chain) /\ \A i \in DOMAIN chain : chain[i] \in S
  OBVIOUS

\* One that waits is put at the end of a chain.
LEMMA ChainLonger ==
    ASSUME NEW S, NEW chain \in Seq(S), NEW x \in S, OneAtATime(chain), x.phase /= "running"
    PROVE  OneAtATime(Append(chain, x))
  <1>. DEFINE n == Len(chain)
              grown == Append(chain, x)
  <1>1. /\ n \in Nat /\ DOMAIN chain = 1..n /\ DOMAIN grown = 1..(n + 1) /\ grown[n + 1] = x
        /\ \A i \in 1..n : grown[i] = chain[i]
    OBVIOUS
  <1>. HIDE DEF n, grown
  <1>2. ASSUME NEW h \in 1..(n + 1), NEW i \in 1..(n + 1), h < i, grown[i].phase = "running"
        PROVE  grown[h].phase = "settled"
    <2>1. i \in 1..n /\ h \in 1..n
      BY <1>1, <1>2
    <2>. QED  BY <1>1, <1>2, <2>1 DEF OneAtATime
  <1>. QED  BY <1>1, <1>2 DEF OneAtATime, grown

\* Of a chain at most one is running.
LEMMA OneIsRunning ==
    ASSUME NEW S, NEW chain \in Seq(S), OneAtATime(chain)
    PROVE  Cardinality({i \in DOMAIN chain : chain[i].phase = "running"}) <= 1
  <1>. DEFINE R == {i \in DOMAIN chain : chain[i].phase = "running"}
  <1>1. Len(chain) \in Nat /\ DOMAIN chain = 1..Len(chain)
    OBVIOUS
  <1>2. \A h, i \in R : h = i
    <2>1. ASSUME NEW h \in R, NEW i \in R, h < i
          PROVE  FALSE
      BY <2>1 DEF OneAtATime
    <2>2. \A h, i \in R : h \in Int /\ i \in Int
      BY <1>1
    <2>. HIDE DEF R
    <2>3. \A h, i \in R : ~(h < i)
      BY <2>1
    <2>. QED  BY <2>2, <2>3
  <1>. HIDE DEF R
  <1>3. R = {} \/ \E x : R = {x}
    <2>1. ASSUME NEW x \in R
          PROVE  R = {x}
      BY <1>2
    <2>. QED  BY <2>1
  <1>4. Cardinality(R) \in {0, 1}
    BY <1>3, FS_EmptySet, FS_Singleton
  <1>. QED  BY <1>4 DEF R

\* The stage asks for a generation.
LEMMA StartKeeps == GenerationsOK /\ StartGeneration => GenerationsOK'
  <1>. SUFFICES ASSUME GenerationsOK, StartGeneration PROVE GenerationsOK'
    OBVIOUS
  <1>. DEFINE n == Len(gens)
  <1>1. /\ gens \in Seq(Generation) /\ n \in Nat /\ DOMAIN gens = 1..n
        /\ pull.gen = 0 /\ gens' = Append(gens, NewGeneration)
        /\ pull' = [NoPull EXCEPT !.gen = n + 1] /\ committed' = committed
    BY DEF GenerationsOK, StartGeneration
  <1>2. NewGeneration \in Generation /\ NewGeneration.phase = "waiting"
    <2>1. <<>> \in Seq({"text", "empty"})
      OBVIOUS
    <2>. QED  BY <2>1 DEF NewGeneration, Generation, Phases
  <1>3. /\ gens' \in Seq(Generation) /\ DOMAIN gens' = 1..(n + 1) /\ Len(gens') = n + 1
        /\ gens'[n + 1] = NewGeneration /\ \A g \in 1..n : gens'[g] = gens[g]
    BY <1>1, <1>2
  <1>4. /\ pull' = [gen |-> n + 1, at |-> "idle", read |-> 0, waited |-> 0]
        /\ pull' \in [gen : Nat, at : {"idle", "next", "parked"}, read : Nat, waited : 0..1]
    BY <1>1 DEF NoPull
  <1>5. OneAtATime(gens')
    BY <1>1, <1>2, ChainLonger DEF GenerationsOK
  <1>6. \A g \in 1..(n + 1) : g /= n + 1 => g \in 1..n
    BY <1>1
  <1>7. \A g \in DOMAIN gens' : g /= pull'.gen => gens'[g].stop
    BY <1>1, <1>3, <1>4, <1>6 DEF GenerationsOK
  <1>8. ReadInFull'
    <2>1. Pulled' = NewGeneration
      BY <1>3, <1>4 DEF Pulled
    <2>2. TextsIn(<<>>) = 0
      <3>1. <<>> \in Seq({"text", "empty"})
        OBVIOUS
      <3>. QED  BY <3>1, TextsInChange
    <2>. QED  BY <1>4, <2>1, <2>2 DEF ReadInFull, NewGeneration
  <1>9. \A reply \in committed :
          /\ reply.gen \in DOMAIN gens' /\ gens'[reply.gen].phase = "settled"
          /\ gens'[reply.gen].whole /\ reply.read = gens'[reply.gen].made
    <2>1. \A g \in 1..n : g \in 1..(n + 1)
      BY <1>1
    <2>. QED  BY <1>1, <1>3, <2>1 DEF GenerationsOK
  <1>. QED  BY <1>1, <1>3, <1>4, <1>5, <1>7, <1>8, <1>9 DEF GenerationsOK

\* A generation changes that is still under way, the commits as before.
LEMMA Changed ==
    ASSUME GenerationsOK, NEW g \in DOMAIN gens, NEW new \in Generation,
           gens' = [gens EXCEPT ![g] = new], committed' = committed,
           gens[g].phase = "settled" =>
             new.phase = "settled" /\ new.whole = gens[g].whole /\ new.made = gens[g].made,
           new.phase = "running" => gens[g].phase = "running" \/ InTurn(gens, g)
    PROVE  /\ gens' \in Seq(Generation) /\ Len(gens') = Len(gens) /\ DOMAIN gens' = DOMAIN gens
           /\ gens'[g] = new /\ \A h \in DOMAIN gens : h /= g => gens'[h] = gens[h]
           /\ OneAtATime(gens')
           /\ committed' \subseteq [gen : Nat, read : Nat]
           /\ \A reply \in committed' :
                /\ reply.gen \in DOMAIN gens' /\ gens'[reply.gen].phase = "settled"
                /\ gens'[reply.gen].whole /\ reply.read = gens'[reply.gen].made
  <1>1. gens \in Seq(Generation) /\ OneAtATime(gens) /\ DOMAIN gens = 1..Len(gens) /\ Len(gens) \in Nat
    BY DEF GenerationsOK
  <1>2. /\ gens' \in Seq(Generation) /\ Len(gens') = Len(gens) /\ DOMAIN gens' = DOMAIN gens
        /\ gens'[g] = new /\ \A h \in DOMAIN gens : h /= g => gens'[h] = gens[h]
    BY <1>1
  <1>3. OneAtATime(gens')
    <2>. DEFINE n == Len(gens)
    <2>1. /\ n \in Nat /\ DOMAIN gens = 1..n /\ DOMAIN gens' = 1..n /\ g \in 1..n
          /\ \A j \in 1..n : j /= g => gens'[j].phase = gens[j].phase
          /\ gens[g].phase = "settled" => gens'[g].phase = "settled"
          /\ gens'[g].phase = "running" => gens[g].phase = "running" \/ InTurn(gens, g)
      BY <1>1, <1>2
    <2>. HIDE DEF n
    <2>. QED  BY <1>1, <2>1, ChainKept
  <1>4. ASSUME NEW reply \in committed
        PROVE  /\ reply.gen \in DOMAIN gens' /\ gens'[reply.gen].phase = "settled"
               /\ gens'[reply.gen].whole /\ reply.read = gens'[reply.gen].made
    <2>1. /\ reply.gen \in DOMAIN gens /\ gens[reply.gen].phase = "settled"
          /\ gens[reply.gen].whole /\ reply.read = gens[reply.gen].made
      BY DEF GenerationsOK
    <2>. QED  BY <1>2, <2>1
  <1>. QED  BY <1>2, <1>3, <1>4 DEF GenerationsOK

\* What the proofs below need of the generations.
LEMMA GensFacts ==
    ASSUME GenerationsOK, NEW g \in DOMAIN gens
    PROVE  /\ gens[g] \in Generation /\ gens[g].queue \in Seq({"text", "empty"})
           /\ gens[g].phase \in Phases
           /\ gens[g].tokens \in Nat /\ gens[g].made \in Nat /\ gens[g].whole \in BOOLEAN
           /\ gens[g].stop \in BOOLEAN /\ gens[g].failed \in BOOLEAN
           /\ pull.gen \in Nat /\ pull.read \in Nat /\ pull.waited \in 0..1
           /\ pull.at \in {"idle", "next", "parked"}
  <1>1. gens[g] \in Generation
    BY DEF GenerationsOK
  <1>. QED  BY <1>1 DEF GenerationsOK, Generation

\* The stage is woken, or not, and has read nothing by it.
LEMMA RousedPull ==
    ASSUME GenerationsOK, NEW g
    PROVE  /\ Roused(g) \in [gen : Nat, at : {"idle", "next", "parked"}, read : Nat, waited : 0..1]
           /\ Roused(g).gen = pull.gen /\ Roused(g).read = pull.read
           /\ Roused(g).waited = pull.waited
           /\ \A w \in 0..1 :
                LET p == [Roused(g) EXCEPT !.waited = w]
                IN  /\ p \in [gen : Nat, at : {"idle", "next", "parked"}, read : Nat, waited : 0..1]
                    /\ p.gen = pull.gen /\ p.read = pull.read /\ p.waited = w
  BY DEF GenerationsOK, Roused

\* A generation begins, when its turn comes.
LEMMA BeginsKeeps ==
    ASSUME GenerationsOK, NEW g \in DOMAIN gens, Begins(g)
    PROVE  GenerationsOK'
  <1>. DEFINE old == gens[g]
              new == [old EXCEPT !.phase = IF old.stop THEN "settled" ELSE "running"]
  <1>1. /\ old \in Generation /\ old.phase = "waiting" /\ InTurn(gens, g)
        /\ gens' = [gens EXCEPT ![g] = new] /\ pull' = pull /\ committed' = committed
    <2>1. gens \in Seq(Generation)
      BY DEF GenerationsOK
    <2>. QED  BY <2>1, GensFacts DEF Begins
  <1>2. /\ new \in Generation /\ new.stop = old.stop /\ new.queue = old.queue
        /\ new.made = old.made /\ new.failed = old.failed /\ new.whole = old.whole
        /\ new.phase = IF old.stop THEN "settled" ELSE "running"
    BY <1>1 DEF Generation, Phases
  <1>. HIDE DEF old, new
  <1>3. /\ gens' \in Seq(Generation) /\ Len(gens') = Len(gens) /\ DOMAIN gens' = DOMAIN gens
        /\ gens'[g] = new /\ \A h \in DOMAIN gens : h /= g => gens'[h] = gens[h]
        /\ OneAtATime(gens')
        /\ committed' \subseteq [gen : Nat, read : Nat]
        /\ \A reply \in committed' :
             /\ reply.gen \in DOMAIN gens' /\ gens'[reply.gen].phase = "settled"
             /\ gens'[reply.gen].whole /\ reply.read = gens'[reply.gen].made
    BY <1>1, <1>2, Changed DEF old
  <1>4. \A h \in DOMAIN gens' : h /= pull'.gen => gens'[h].stop
    BY <1>1, <1>2, <1>3 DEF GenerationsOK, old
  <1>5. \A h \in DOMAIN gens' : h /= pull.gen /\ gens'[h].phase = "running" => gens[h].phase = "running"
    BY <1>1, <1>2, <1>3, <1>4
  <1>6. ReadInFull'
    <2>1. CASE pull.gen = g
      <3>1. ReadInFull /\ g /= 0
        BY <2>1, ChainTypes DEF GenerationsOK
      <3>2. Pulled = old /\ Pulled' = new
        BY <1>1, <1>3, <2>1 DEF Pulled, old
      <3>. QED  BY <1>1, <1>2, <2>1, <3>1, <3>2 DEF ReadInFull
    <2>2. CASE pull.gen /= g /\ pull.gen /= 0
      <3>1. pull.gen \in DOMAIN gens
        BY <2>2, ChainTypes DEF GenerationsOK
      <3>2. Pulled' = Pulled
        BY <1>1, <1>3, <2>2, <3>1 DEF Pulled
      <3>. QED  BY <1>1, <3>2 DEF ReadInFull, GenerationsOK
    <2>3. CASE pull.gen = 0
      BY <1>1, <2>3 DEF ReadInFull
    <2>. QED  BY <2>1, <2>2, <2>3
  <1>. QED  BY <1>1, <1>3, <1>4, <1>5, <1>6 DEF GenerationsOK

\* What a generation that is not the stage's becomes leaves the stage's as it was.
LEMMA ReadElsewhere ==
    ASSUME GenerationsOK, NEW g \in DOMAIN gens, pull.gen /= g,
           \A h \in DOMAIN gens : h /= g => gens'[h] = gens[h],
           pull'.gen = pull.gen, pull'.read = pull.read
    PROVE  ReadInFull'
  <1>1. CASE pull.gen /= 0
    <2>1. pull.gen \in DOMAIN gens
      BY <1>1, ChainTypes DEF GenerationsOK
    <2>2. Pulled' = Pulled
      BY <2>1 DEF Pulled
    <2>. QED  BY <2>2 DEF ReadInFull, GenerationsOK
  <1>2. CASE pull.gen = 0
    BY <1>2 DEF ReadInFull
  <1>. QED  BY <1>1, <1>2

\* A generation makes a token, and may end with it.
LEMMA DecodesKeeps ==
    ASSUME GenerationsOK, NEW g \in DOMAIN gens, Decodes(g)
    PROVE  GenerationsOK'
  <1>. DEFINE old == gens[g]
              New(pieces, whole) == [old EXCEPT !.queue = @ \o pieces, !.tokens = @ + 1,
                  !.made = IF pieces = <<"text">> THEN @ + 1 ELSE @,
                  !.phase = IF old.stop \/ whole THEN "settled" ELSE "running",
                  !.whole = whole]
  <1>1. /\ old \in Generation /\ old.phase = "running" /\ old.tokens < MaxNewTokens
        /\ old.queue \in Seq({"text", "empty"})
        /\ gens \in Seq(Generation) /\ committed' = committed
        /\ pull' = [Roused(g) EXCEPT !.waited = IF pull.gen \in {0, g} THEN 0 ELSE @ + 1]
    BY GensFacts DEF Decodes, GenerationsOK
  <1>2. PICK pieces \in {<<>>, <<"text">>, <<"empty">>}, whole \in BOOLEAN :
          gens' = [gens EXCEPT ![g] = New(pieces, whole)]
    <2>1. PICK pieces \in {<<>>, <<"text">>, <<"empty">>}, eos \in BOOLEAN :
            gens' = [gens EXCEPT ![g] = New(pieces, eos \/ old.tokens + 1 = MaxNewTokens)]
      BY DEF Decodes
    <2>. QED  BY <2>1
  <1>. DEFINE new == New(pieces, whole)
              queue == old.queue \o pieces
  <1>3. /\ queue \in Seq({"text", "empty"})
        /\ TextsIn(queue) = TextsIn(old.queue) + (IF pieces = <<"text">> THEN 1 ELSE 0)
    <2>1. CASE pieces = <<>>
      <3>1. queue = old.queue
        BY <1>1, <2>1
      <3>2. TextsIn(old.queue) \in Nat
        BY <1>1, TextsInChange
      <3>. HIDE DEF queue
      <3>. QED  BY <1>1, <2>1, <3>1, <3>2
    <2>2. CASE pieces = <<"text">>
      <3>1. queue = Append(old.queue, "text")
        BY <1>1, <2>2
      <3>2. queue \in Seq({"text", "empty"})
        BY <1>1, <3>1
      <3>. HIDE DEF queue
      <3>. QED  BY <1>1, <2>2, <3>1, <3>2, TextsInChange
    <2>3. CASE pieces = <<"empty">>
      <3>1. queue = Append(old.queue, "empty") /\ pieces /= <<"text">>
        BY <1>1, <2>3
      <3>2. queue \in Seq({"text", "empty"})
        BY <1>1, <3>1
      <3>3. TextsIn(old.queue) \in Nat
        BY <1>1, TextsInChange
      <3>. HIDE DEF queue
      <3>. QED  BY <1>1, <3>1, <3>2, <3>3, TextsInChange
    <2>. QED  BY <2>1, <2>2, <2>3
  <1>4. /\ new \in Generation /\ new.stop = old.stop /\ new.failed = old.failed
        /\ new.queue = queue /\ new.whole = whole
        /\ new.made = old.made + (IF pieces = <<"text">> THEN 1 ELSE 0)
        /\ new.phase = IF old.stop \/ whole THEN "settled" ELSE "running"
    <2>. DEFINE made == IF pieces = <<"text">> THEN old.made + 1 ELSE old.made
                phase == IF old.stop \/ whole THEN "settled" ELSE "running"
                tokens == old.tokens + 1
    <2>1. made \in Nat /\ phase \in Phases /\ tokens \in Nat
          /\ made = old.made + (IF pieces = <<"text">> THEN 1 ELSE 0)
      BY <1>1 DEF Generation, Phases
    <2>2. new = [old EXCEPT !.queue = queue, !.tokens = tokens, !.made = made, !.phase = phase,
                            !.whole = whole]
      BY <1>1 DEF Generation
    <2>. HIDE DEF made, phase, tokens, queue, new
    <2>3. /\ new \in Generation /\ new.stop = old.stop /\ new.failed = old.failed
          /\ new.queue = queue /\ new.whole = whole /\ new.made = made /\ new.phase = phase
      BY <1>1, <1>3, <2>1, <2>2 DEF Generation
    <2>. QED  BY <2>1, <2>3 DEF phase
  <1>. HIDE DEF New
  <1>5. gens' = [gens EXCEPT ![g] = new] /\ gens[g] = old
    BY <1>2
  <1>. HIDE DEF old, new, queue
  <1>6. /\ gens' \in Seq(Generation) /\ Len(gens') = Len(gens) /\ DOMAIN gens' = DOMAIN gens
        /\ gens'[g] = new /\ \A h \in DOMAIN gens : h /= g => gens'[h] = gens[h]
        /\ OneAtATime(gens')
        /\ committed' \subseteq [gen : Nat, read : Nat]
        /\ \A reply \in committed' :
             /\ reply.gen \in DOMAIN gens' /\ gens'[reply.gen].phase = "settled"
             /\ gens'[reply.gen].whole /\ reply.read = gens'[reply.gen].made
    BY <1>1, <1>4, <1>5, Changed
  <1>7. /\ pull.waited \in 0..1
        /\ pull.gen \notin {0, g} => pull.waited = 0
    <2>1. pull.waited \in 0..1
      BY GensFacts
    <2>2. ASSUME pull.gen \notin {0, g}, pull.waited = 1
          PROVE  FALSE
      BY <1>1, <1>5, <2>2 DEF GenerationsOK
    <2>. QED  BY <2>1, <2>2
  <1>8. /\ pull' \in [gen : Nat, at : {"idle", "next", "parked"}, read : Nat, waited : 0..1]
        /\ pull'.gen = pull.gen /\ pull'.read = pull.read
        /\ pull'.waited = IF pull.gen \in {0, g} THEN 0 ELSE 1
    <2>. DEFINE w == IF pull.gen \in {0, g} THEN 0 ELSE 1
    <2>1. pull' = [Roused(g) EXCEPT !.waited = w] /\ w \in 0..1
      <3>1. Roused(g).waited = pull.waited
        BY RousedPull
      <3>2. (IF pull.gen \in {0, g} THEN 0 ELSE Roused(g).waited + 1) = w
        BY <1>7, <3>1
      <3>3. w \in 0..1
        OBVIOUS
      <3>. HIDE DEF w
      <3>. QED  BY <1>1, <3>2, <3>3
    <2>. HIDE DEF w
    <2>2. /\ pull' \in [gen : Nat, at : {"idle", "next", "parked"}, read : Nat, waited : 0..1]
          /\ pull'.gen = pull.gen /\ pull'.read = pull.read /\ pull'.waited = w
      BY <2>1, RousedPull
    <2>. QED  BY <2>2 DEF w
  <1>9. \A h \in DOMAIN gens' : h /= pull'.gen => gens'[h].stop
    BY <1>4, <1>5, <1>6, <1>8 DEF GenerationsOK
  <1>10. ASSUME pull'.gen /= 0, pull'.waited = 1, NEW h \in DOMAIN gens', h /= pull'.gen
         PROVE  gens'[h].phase /= "running"
    <2>1. pull.gen \notin {0, g} /\ h \in DOMAIN gens
      BY <1>6, <1>8, <1>10
    <2>2. old.stop
      BY <1>5, <2>1 DEF GenerationsOK
    <2>3. CASE h = g
      BY <1>4, <1>6, <2>2, <2>3
    <2>4. CASE h /= g
      <3>1. h \in 1..Len(gens) /\ g \in 1..Len(gens) /\ Len(gens) \in Nat
        BY <1>1, <2>1
      <3>2. h < g \/ g < h
        BY <2>4, <3>1
      <3>3. gens[h].phase /= "running"
        BY <1>1, <1>5, <2>1, <3>2 DEF GenerationsOK, OneAtATime
      <3>. QED  BY <1>6, <2>1, <2>4, <3>3
    <2>. QED  BY <2>3, <2>4
  <1>11. ReadInFull'
    <2>1. CASE pull.gen = g
      <3>1. ReadInFull /\ g /= 0 /\ pull.gen /= 0
        BY <1>1, <2>1 DEF GenerationsOK
      <3>2. Pulled = old /\ Pulled' = new
        BY <1>5, <1>6, <1>8, <2>1 DEF Pulled
      <3>3. ~old.stop /\ pull.read + TextsIn(old.queue) = old.made
        BY <3>1, <3>2 DEF ReadInFull
      <3>4. /\ TextsIn(old.queue) \in Nat /\ pull.read \in Nat /\ old.made \in Nat
        BY <1>1, <1>5, GensFacts, TextsInChange
      <3>5. pull'.read + TextsIn(new.queue) = new.made
        BY <1>3, <1>4, <1>8, <3>3, <3>4
      <3>6. ~new.stop /\ (new.phase = "settled" => new.whole)
        BY <1>4, <3>3
      <3>. QED  BY <3>2, <3>5, <3>6 DEF ReadInFull
    <2>2. CASE pull.gen /= g
      BY <1>6, <1>8, <2>2, ReadElsewhere
    <2>. QED  BY <2>1, <2>2
  <1>12. pull'.gen \in {0, Len(gens')}
    BY <1>6, <1>8 DEF GenerationsOK
  <1>. QED  BY <1>6, <1>8, <1>9, <1>10, <1>11, <1>12 DEF GenerationsOK

\* A generation fails.
LEMMA FailureKeeps ==
    ASSUME GenerationsOK, NEW g \in DOMAIN gens, GenerationFails(g)
    PROVE  GenerationsOK'
  <1>. DEFINE old == gens[g]
              new == [old EXCEPT !.phase = "settled", !.failed = TRUE]
  <1>1. /\ old \in Generation /\ old.phase = "running"
        /\ gens' = [gens EXCEPT ![g] = new] /\ pull' = Roused(g) /\ committed' = committed
    <2>1. gens \in Seq(Generation)
      BY DEF GenerationsOK
    <2>2. [gens EXCEPT ![g].phase = "settled", ![g].failed = TRUE] = [gens EXCEPT ![g] = new]
      BY <2>1, GensFacts DEF Generation
    <2>. QED  BY <2>1, <2>2, GensFacts DEF GenerationFails
  <1>2. /\ new \in Generation /\ new.stop = old.stop /\ new.queue = old.queue
        /\ new.made = old.made /\ new.failed /\ new.phase = "settled"
    BY <1>1 DEF Generation, Phases
  <1>. HIDE DEF old, new
  <1>3. /\ gens' \in Seq(Generation) /\ Len(gens') = Len(gens) /\ DOMAIN gens' = DOMAIN gens
        /\ gens'[g] = new /\ \A h \in DOMAIN gens : h /= g => gens'[h] = gens[h]
        /\ OneAtATime(gens')
        /\ committed' \subseteq [gen : Nat, read : Nat]
        /\ \A reply \in committed' :
             /\ reply.gen \in DOMAIN gens' /\ gens'[reply.gen].phase = "settled"
             /\ gens'[reply.gen].whole /\ reply.read = gens'[reply.gen].made
    BY <1>1, <1>2, Changed DEF old
  <1>4. /\ pull' \in [gen : Nat, at : {"idle", "next", "parked"}, read : Nat, waited : 0..1]
        /\ pull'.gen = pull.gen /\ pull'.read = pull.read /\ pull'.waited = pull.waited
    BY <1>1, RousedPull
  <1>5. \A h \in DOMAIN gens' : h /= pull'.gen => gens'[h].stop
    BY <1>2, <1>3, <1>4 DEF GenerationsOK, old
  <1>6. \A h \in DOMAIN gens' : gens'[h].phase = "running" => gens[h].phase = "running"
    BY <1>2, <1>3
  <1>7. ReadInFull'
    <2>1. CASE pull.gen = g
      <3>1. ReadInFull /\ g /= 0
        BY <2>1, ChainTypes DEF GenerationsOK
      <3>2. Pulled = old /\ Pulled' = new
        BY <1>3, <1>4, <2>1 DEF Pulled, old
      <3>. QED  BY <1>2, <1>4, <2>1, <3>1, <3>2 DEF ReadInFull
    <2>2. CASE pull.gen /= g
      BY <1>3, <1>4, <2>2, ReadElsewhere
    <2>. QED  BY <2>1, <2>2
  <1>8. pull'.gen \in {0, Len(gens')}
    BY <1>3, <1>4 DEF GenerationsOK
  <1>. QED  BY <1>3, <1>4, <1>5, <1>6, <1>7, <1>8 DEF GenerationsOK

\* The stage's generation is not of those before it; nothing of the others changes.
LEMMA PulledFacts ==
    ASSUME GenerationsOK, pull.gen /= 0
    PROVE  /\ pull.gen = Len(gens) /\ pull.gen \in DOMAIN gens /\ Pulled = gens[pull.gen]
           /\ Pulled \in Generation /\ Pulled.queue \in Seq({"text", "empty"})
           /\ ~Pulled.stop /\ pull.read + TextsIn(Pulled.queue) = Pulled.made
           /\ Pulled.phase = "settled" /\ ~Pulled.failed => Pulled.whole
           /\ pull.read \in Nat /\ Pulled.made \in Nat
  <1>1. pull.gen = Len(gens) /\ pull.gen \in DOMAIN gens
    BY ChainTypes DEF GenerationsOK
  <1>. QED  BY <1>1, GensFacts DEF GenerationsOK, ReadInFull, Pulled

\* The stage finds nothing to read.
LEMMA WaitingKeeps ==
    ASSUME GenerationsOK, Pulls \/ NextParks
    PROVE  GenerationsOK'
  <1>1. /\ gens' = gens /\ committed' = committed
        /\ pull' \in [gen : Nat, at : {"idle", "next", "parked"}, read : Nat, waited : 0..1]
        /\ pull'.gen = pull.gen /\ pull'.read = pull.read /\ pull'.waited = pull.waited
    BY DEF Pulls, NextParks, GenerationsOK
  <1>2. Pulled' = Pulled
    BY <1>1 DEF Pulled
  <1>. QED  BY <1>1, <1>2 DEF GenerationsOK, ReadInFull, OneAtATime

\* The stage reads a piece, or skips an empty one.
LEMMA ReadingKeeps ==
    ASSUME GenerationsOK, NextGives
    PROVE  GenerationsOK'
  <1>. DEFINE g == pull.gen
              old == Pulled
              new == [old EXCEPT !.queue = Tail(@)]
  <1>1. /\ g /= 0 /\ g = Len(gens) /\ g \in DOMAIN gens /\ old = gens[g] /\ old \in Generation
        /\ old.queue \in Seq({"text", "empty"}) /\ old.queue /= <<>>
        /\ ~old.stop /\ pull.read + TextsIn(old.queue) = old.made
        /\ old.phase = "settled" /\ ~old.failed => old.whole
        /\ pull.read \in Nat /\ old.made \in Nat
    BY PulledFacts DEF NextGives
  <1>2. /\ gens' = [gens EXCEPT ![g] = new] /\ committed' = committed
        /\ pull' = IF Head(old.queue) = "text" THEN [pull EXCEPT !.at = "idle", !.read = @ + 1]
                   ELSE pull
    <2>1. gens \in Seq(Generation)
      BY DEF GenerationsOK
    <2>. QED  BY <1>1, <2>1 DEF NextGives
  <1>. DEFINE queue == Tail(old.queue)
  <1>3. queue \in Seq({"text", "empty"})
    BY <1>1
  <1>4. /\ new \in Generation /\ new.stop = old.stop /\ new.queue = queue
        /\ new.made = old.made /\ new.failed = old.failed /\ new.phase = old.phase
        /\ new.whole = old.whole
    BY <1>1, <1>3 DEF Generation
  <1>5. /\ TextsIn(old.queue) = IF Head(old.queue) = "text" THEN TextsIn(queue) + 1
                                ELSE TextsIn(queue)
        /\ TextsIn(queue) \in Nat
    BY <1>1, TextsInChange
  <1>. HIDE DEF old, new, queue
  <1>6. /\ pull' \in [gen : Nat, at : {"idle", "next", "parked"}, read : Nat, waited : 0..1]
        /\ pull'.gen = g /\ pull'.waited = pull.waited
        /\ pull'.read = IF Head(old.queue) = "text" THEN pull.read + 1 ELSE pull.read
    <2>1. pull \in [gen : Nat, at : {"idle", "next", "parked"}, read : Nat, waited : 0..1]
      BY DEF GenerationsOK
    <2>2. CASE Head(old.queue) = "text"
      <3>1. pull' = [[pull EXCEPT !.at = "idle"] EXCEPT !.read = pull.read + 1]
        BY <1>2, <2>2
      <3>2. pull.read + 1 \in Nat
        BY <2>1
      <3>. QED  BY <2>1, <2>2, <3>1, <3>2
    <2>3. CASE Head(old.queue) /= "text"
      BY <1>2, <2>1, <2>3
    <2>. QED  BY <2>2, <2>3
  <1>7. /\ gens' \in Seq(Generation) /\ Len(gens') = Len(gens) /\ DOMAIN gens' = DOMAIN gens
        /\ gens'[g] = new /\ \A h \in DOMAIN gens : h /= g => gens'[h] = gens[h]
        /\ OneAtATime(gens')
        /\ committed' \subseteq [gen : Nat, read : Nat]
        /\ \A reply \in committed' :
             /\ reply.gen \in DOMAIN gens' /\ gens'[reply.gen].phase = "settled"
             /\ gens'[reply.gen].whole /\ reply.read = gens'[reply.gen].made
    BY <1>1, <1>2, <1>4, Changed
  <1>8. \A h \in DOMAIN gens' : /\ gens'[h].phase = gens[h].phase
                                /\ h /= g => gens'[h].stop
    BY <1>1, <1>4, <1>7 DEF GenerationsOK
  <1>9. ReadInFull'
    <2>1. Pulled' = new
      BY <1>6, <1>7 DEF Pulled
    <2>2. pull'.read + TextsIn(new.queue) = new.made
      BY <1>1, <1>4, <1>5, <1>6
    <2>. QED  BY <1>1, <1>4, <2>1, <2>2 DEF ReadInFull
  <1>. QED  BY <1>1, <1>6, <1>7, <1>8, <1>9 DEF GenerationsOK

\* The stage finds its generation at its end, and commits the reply.
LEMMA EndKeeps ==
    ASSUME GenerationsOK, NextEnds
    PROVE  GenerationsOK'
  <1>. DEFINE g == pull.gen
              old == Pulled
              new == [old EXCEPT !.stop = TRUE]
              reply == [gen |-> g, read |-> pull.read]
  <1>1. /\ g /= 0 /\ g = Len(gens) /\ g \in DOMAIN gens /\ old = gens[g] /\ old \in Generation
        /\ ~old.stop /\ pull.read + TextsIn(old.queue) = old.made
        /\ old.phase = "settled" /\ ~old.failed => old.whole
        /\ pull.read \in Nat /\ old.made \in Nat /\ g \in Nat
    <2>1. pull.gen \in Nat
      BY DEF GenerationsOK
    <2>. QED  BY <2>1, PulledFacts DEF NextEnds
  <1>2. /\ gens' = [gens EXCEPT ![g] = new] /\ pull' = NoPull
        /\ old.queue = <<>> /\ old.phase = "settled"
        /\ committed' = IF old.failed THEN committed ELSE committed \cup {reply}
    <2>1. gens \in Seq(Generation)
      BY DEF GenerationsOK
    <2>. QED  BY <1>1, <2>1 DEF NextEnds, Dropped
  <1>3. /\ new \in Generation /\ new.stop /\ new.made = old.made /\ new.phase = "settled"
        /\ new.whole = old.whole
    BY <1>1, <1>2 DEF Generation
  <1>. HIDE DEF old, new
  <1>4. /\ gens' \in Seq(Generation) /\ Len(gens') = Len(gens) /\ DOMAIN gens' = DOMAIN gens
        /\ gens'[g] = new /\ \A h \in DOMAIN gens : h /= g => gens'[h] = gens[h]
    <2>1. gens \in Seq(Generation)
      BY DEF GenerationsOK
    <2>. QED  BY <1>1, <1>2, <1>3, <2>1
  <1>5. OneAtATime(gens')
    <2>. DEFINE n == Len(gens)
    <2>1. /\ n \in Nat /\ DOMAIN gens = 1..n /\ DOMAIN gens' = 1..n /\ g \in 1..n
          /\ \A j \in 1..n : j /= g => gens'[j].phase = gens[j].phase
          /\ gens'[g].phase = "settled" /\ OneAtATime(gens)
      <3>1. gens \in Seq(Generation) /\ OneAtATime(gens)
        BY DEF GenerationsOK
      <3>2. n \in Nat /\ DOMAIN gens = 1..n
        BY <3>1
      <3>. QED  BY <1>1, <1>3, <1>4, <3>1, <3>2
    <2>. HIDE DEF n
    <2>. QED  BY <2>1, ChainKept
  <1>6. old.failed = FALSE => old.whole /\ pull.read = old.made
    <2>1. <<>> \in Seq({"text", "empty"})
      OBVIOUS
    <2>2. TextsIn(old.queue) = 0
      BY <1>2, <2>1, TextsInChange
    <2>. QED  BY <1>1, <1>2, <2>2
  <1>7. ASSUME NEW r \in committed'
        PROVE  /\ r \in [gen : Nat, read : Nat]
               /\ r.gen \in DOMAIN gens' /\ gens'[r.gen].phase = "settled"
               /\ gens'[r.gen].whole /\ r.read = gens'[r.gen].made
    <2>1. CASE r \in committed
      <3>1. /\ r \in [gen : Nat, read : Nat]
            /\ r.gen \in DOMAIN gens /\ gens[r.gen].phase = "settled"
            /\ gens[r.gen].whole /\ r.read = gens[r.gen].made
        BY <2>1 DEF GenerationsOK
      <3>2. CASE r.gen = g
        BY <1>1, <1>3, <1>4, <3>1, <3>2
      <3>3. CASE r.gen /= g
        BY <1>4, <3>1, <3>3
      <3>. QED  BY <3>2, <3>3
    <2>2. CASE r \notin committed
      <3>1. r = reply /\ ~old.failed
        BY <1>2, <1>7, <2>2
      <3>2. old.failed \in BOOLEAN
        BY <1>1 DEF Generation
      <3>. QED  BY <1>1, <1>3, <1>4, <1>6, <3>1, <3>2
    <2>. QED  BY <2>1, <2>2
  <1>8. /\ pull' \in [gen : Nat, at : {"idle", "next", "parked"}, read : Nat, waited : 0..1]
        /\ pull'.gen = 0
    BY <1>2 DEF NoPull
  <1>9. \A h \in DOMAIN gens' : gens'[h].stop
    BY <1>3, <1>4 DEF GenerationsOK
  <1>10. ReadInFull'
    BY <1>8 DEF ReadInFull
  <1>11. committed' \subseteq [gen : Nat, read : Nat]
    BY <1>7
  <1>. QED  BY <1>4, <1>5, <1>7, <1>8, <1>9, <1>10, <1>11 DEF GenerationsOK

\* A barge-in drops the stream that is read.
LEMMA LmBargeInKeeps ==
    ASSUME GenerationsOK, LmBargeIn
    PROVE  GenerationsOK'
  <1>. DEFINE n == Len(gens)
  <1>1. /\ gens \in Seq(Generation) /\ n \in Nat /\ DOMAIN gens = 1..n
        /\ gens' = [g \in 1..n |-> IF g \in {pull.gen, Current} THEN Dropped(g)[g] ELSE gens[g]]
        /\ pull' = NoPull /\ committed' = committed
    BY DEF GenerationsOK, LmBargeIn
  <1>2. ASSUME NEW g \in 1..n
        PROVE  /\ gens'[g] \in Generation /\ gens'[g].phase = gens[g].phase
               /\ gens'[g].whole = gens[g].whole /\ gens'[g].made = gens[g].made
               /\ gens'[g].stop
    <2>1. gens[g] \in Generation /\ (g /= pull.gen => gens[g].stop)
      BY <1>1 DEF GenerationsOK
    <2>2. Dropped(g)[g] = [gens[g] EXCEPT !.stop = TRUE]
      BY <1>1 DEF Dropped
    <2>3. gens'[g] = IF g \in {pull.gen, Current} THEN [gens[g] EXCEPT !.stop = TRUE] ELSE gens[g]
      BY <1>1, <2>2
    <2>. QED  BY <2>1, <2>3 DEF Generation
  <1>3. gens' \in Seq(Generation) /\ DOMAIN gens' = 1..n /\ Len(gens') = n
    <2>1. gens' \in [1..n -> Generation]
      BY <1>1, <1>2
    <2>. QED  BY <1>1, <2>1
  <1>4. OneAtATime(gens')
    BY <1>1, <1>2, <1>3 DEF GenerationsOK, OneAtATime
  <1>5. /\ pull' \in [gen : Nat, at : {"idle", "next", "parked"}, read : Nat, waited : 0..1]
        /\ pull'.gen = 0
    BY <1>1 DEF NoPull
  <1>6. \A reply \in committed' :
          /\ reply.gen \in DOMAIN gens' /\ gens'[reply.gen].phase = "settled"
          /\ gens'[reply.gen].whole /\ reply.read = gens'[reply.gen].made
    BY <1>1, <1>2, <1>3 DEF GenerationsOK
  <1>7. ReadInFull'
    BY <1>5 DEF ReadInFull
  <1>. QED  BY <1>1, <1>2, <1>3, <1>4, <1>5, <1>6, <1>7 DEF GenerationsOK

\* A clip is a sequence.
LEMMA BooleanSequences ==
    ASSUME NEW n \in Nat, NEW s \in [1..n -> BOOLEAN]
    PROVE  s \in Seq(BOOLEAN)
  OBVIOUS

\* One of a chain begins in its turn, or ends.
LEMMA ChainMoves ==
    ASSUME NEW chain \in Seq([phase : Phases]), OneAtATime(chain), NEW i \in DOMAIN chain,
           NEW phase \in Phases,
           chain[i].phase = "settled" => phase = "settled",
           phase = "running" => chain[i].phase = "running" \/ InTurn(chain, i)
    PROVE  /\ [chain EXCEPT ![i].phase = phase] \in Seq([phase : Phases])
           /\ OneAtATime([chain EXCEPT ![i].phase = phase])
  <1>. DEFINE elem == [chain[i] EXCEPT !.phase = phase]
              new == [chain EXCEPT ![i] = elem]
              n == Len(chain)
  <1>0. elem \in [phase : Phases] /\ elem.phase = phase
    <2>1. chain[i] \in [phase : Phases]
      BY ChainTypes
    <2>. QED  BY <2>1
  <1>1. /\ n \in Nat /\ DOMAIN chain = 1..n /\ DOMAIN new = 1..n /\ i \in 1..n
        /\ new \in Seq([phase : Phases])
        /\ new[i].phase = phase /\ \A j \in 1..n : j /= i => new[j].phase = chain[j].phase
    <2>. HIDE DEF elem
    <2>. QED  BY <1>0
  <1>. HIDE DEF new, n
  <1>2. OneAtATime(new)
    BY <1>1, ChainKept
  <1>. QED  BY <1>1, <1>2 DEF new

\* The synthesis at rest.
LEMMA NoSpeechType == NoSpeech \in SpeechState /\ NoClip \in Clip
  <1>1. <<>> \in Seq(BOOLEAN) /\ <<>> \in Seq(Nat)
    OBVIOUS
  <1>2. NoClip \in Clip
    BY <1>1 DEF NoClip, Clip
  <1>. QED  BY <1>1, <1>2 DEF NoSpeech, SpeechState

\* Every step of the synthesis keeps its types and the clauses it is at.
LEMMA SpeechKeeps ==
    ASSUME SpeechOK, Speaks \/ TtsReader \/ TtsModel \/ TtsBargeIn
    PROVE  SpeechOK'
  <1>1. /\ runs \in Seq([phase : Phases]) /\ OneAtATime(runs) /\ speech \in SpeechState
        /\ speech.on => speech.ends = Clauses(speech.words)
    BY DEF SpeechOK, SpeechState
  <1>. SUFFICES /\ runs' \in Seq([phase : Phases]) /\ OneAtATime(runs') /\ speech' \in SpeechState
                /\ speech'.on => speech'.ends = Clauses(speech'.words)
    BY DEF SpeechOK, SpeechState
  <1>2. ASSUME runs' = runs, speech' = NoSpeech
        PROVE  /\ runs' \in Seq([phase : Phases]) /\ OneAtATime(runs') /\ speech' \in SpeechState
               /\ speech'.on => speech'.ends = Clauses(speech'.words)
    BY <1>1, <1>2, NoSpeechType DEF NoSpeech
  <1>3. CASE Speaks
    <2>1. PICK words \in Texts :
            speech' = [NoSpeech EXCEPT !.on = TRUE, !.words = words, !.ends = Clauses(words)]
      BY <1>3 DEF Speaks
    <2>2. words \in Seq(BOOLEAN)
      <3>1. PICK n \in 0..MaxSentenceWords : words \in [1..n -> BOOLEAN]
        BY DEF Texts
      <3>2. n \in Nat
        OBVIOUS
      <3>. QED  BY <3>1, <3>2, BooleanSequences
    <2>3. Clauses(words) \in Seq(Nat)
      BY <2>2, ClausesCutWell
    <2>4. speech' \in SpeechState /\ speech'.ends = Clauses(words) /\ speech'.words = words
      BY <2>1, <2>2, <2>3, NoSpeechType DEF SpeechState
    <2>5. runs' = runs
      BY <1>3 DEF Speaks
    <2>. QED  BY <1>1, <2>4, <2>5
  <1>4. CASE PullsClause
    <2>1. /\ runs' = Append(runs, [phase |-> "waiting"])
          /\ speech' = [speech EXCEPT !.run = Len(runs) + 1]
      BY <1>4 DEF PullsClause
    <2>2. [phase |-> "waiting"] \in [phase : Phases] /\ Len(runs) + 1 \in Nat
      BY <1>1 DEF Phases
    <2>3. runs' \in Seq([phase : Phases]) /\ OneAtATime(runs')
      <3>. DEFINE S == [phase : Phases]
                  x == [phase |-> "waiting"]
      <3>1. runs \in Seq(S) /\ x \in S /\ x.phase /= "running" /\ runs' = Append(runs, x)
        BY <1>1, <2>1, <2>2
      <3>. HIDE DEF S, x
      <3>2. runs' \in Seq(S) /\ OneAtATime(runs')
        BY <1>1, <3>1, ChainLonger
      <3>. QED  BY <3>2 DEF S
    <2>4. speech' \in SpeechState /\ speech'.on = speech.on /\ speech'.ends = speech.ends
          /\ speech'.words = speech.words
      BY <1>1, <2>1, <2>2 DEF SpeechState
    <2>. QED  BY <1>1, <2>3, <2>4
  <1>5. CASE SendsClause
    <2>1. runs' = runs /\ speech' = [speech EXCEPT !.result = "none", !.run = 0, !.next = speech.next + 1,
                                                   !.clip = NoClip]
      BY <1>5 DEF SendsClause
    <2>2. speech' \in SpeechState /\ speech'.on = speech.on /\ speech'.ends = speech.ends
          /\ speech'.words = speech.words
      <3>1. speech.next + 1 \in Nat /\ NoClip \in Clip
        BY <1>1, NoSpeechType DEF SpeechState
      <3>. QED  BY <1>1, <2>1, <3>1 DEF SpeechState
    <2>. QED  BY <1>1, <2>1, <2>2
  <1>6. CASE SpeechEnds
    BY <1>2, <1>6 DEF SpeechEnds
  <1>7. CASE TtsBargeIn
    BY <1>2, <1>7 DEF TtsBargeIn
  <1>8. ASSUME NEW i \in DOMAIN runs, RunBegins(i)
        PROVE  /\ runs' \in Seq([phase : Phases]) /\ OneAtATime(runs') /\ speech' \in SpeechState
               /\ speech'.on => speech'.ends = Clauses(speech'.words)
    <2>1. /\ runs[i].phase = "waiting" /\ InTurn(runs, i) /\ speech' = speech
          /\ runs' = [runs EXCEPT ![i].phase = "running"] /\ "running" \in Phases
      BY <1>8 DEF RunBegins, Phases
    <2>. QED  BY <1>1, <2>1, ChainMoves
  <1>9. ASSUME NEW i \in DOMAIN runs, RunEnds(i)
        PROVE  /\ runs' \in Seq([phase : Phases]) /\ OneAtATime(runs') /\ speech' \in SpeechState
               /\ speech'.on => speech'.ends = Clauses(speech'.words)
    <2>1. runs' = [runs EXCEPT ![i].phase = "settled"] /\ "settled" \in Phases
      BY <1>9 DEF RunEnds, Phases
    <2>2. runs' \in Seq([phase : Phases]) /\ OneAtATime(runs')
      BY <1>1, <2>1, ChainMoves
    <2>3. /\ speech' \in SpeechState /\ speech'.on = speech.on /\ speech'.ends = speech.ends
          /\ speech'.words = speech.words
      <3>1. CASE speech.run = i
        <4>1. PICK clip \in Clips, failed \in BOOLEAN :
                speech' = [speech EXCEPT !.result = IF failed THEN "error" ELSE "clip",
                             !.clip = [raw |-> IF failed THEN <<>> ELSE clip,
                                       before |-> speech.next > 1,
                                       after |-> speech.next < Len(speech.ends)]]
          BY <1>9, <3>1 DEF RunEnds
        <4>2. clip \in Seq(BOOLEAN) /\ <<>> \in Seq(BOOLEAN)
          <5>1. PICK n \in 0..MaxClip : clip \in [1..n -> BOOLEAN]
            BY DEF Clips
          <5>2. n \in Nat
            OBVIOUS
          <5>. QED  BY <5>1, <5>2, BooleanSequences
        <4>. DEFINE new == [raw |-> IF failed THEN <<>> ELSE clip, before |-> speech.next > 1,
                            after |-> speech.next < Len(speech.ends)]
                    result == IF failed THEN "error" ELSE "clip"
        <4>3. new \in Clip /\ result \in {"none", "clip", "error"}
          <5>1. (speech.next > 1) \in BOOLEAN /\ (speech.next < Len(speech.ends)) \in BOOLEAN
            BY <1>1 DEF SpeechState
          <5>2. (IF failed THEN <<>> ELSE clip) \in Seq(BOOLEAN)
            BY <4>2
          <5>. QED  BY <5>1, <5>2 DEF Clip
        <4>4. speech' = [speech EXCEPT !.result = result, !.clip = new]
          BY <4>1
        <4>. HIDE DEF new, result
        <4>. QED  BY <1>1, <4>3, <4>4 DEF SpeechState
      <3>2. CASE speech.run /= i
        <4>. DEFINE w == IF speech.run = 0 THEN speech.waited ELSE speech.waited + 1
        <4>1. speech' = [speech EXCEPT !.waited = w]
          BY <1>9, <3>2 DEF RunEnds
        <4>2. w \in Nat
          BY <1>1 DEF SpeechState
        <4>. HIDE DEF w
        <4>. QED  BY <1>1, <4>1, <4>2 DEF SpeechState
      <3>. QED  BY <3>1, <3>2
    <2>. QED  BY <1>1, <2>2, <2>3
  <1>. QED  BY <1>3, <1>4, <1>5, <1>6, <1>7, <1>8, <1>9 DEF TtsReader, TtsModel

\* The invariant of the engines: where they start, what a step makes of it, and what it shows.
LEMMA EnginesStart == EnginesInit => EnginesInv
  <1>. SUFFICES ASSUME EnginesInit PROVE EnginesInv
    OBVIOUS
  <1>1. gens = <<>> /\ pull = NoPull /\ committed = {} /\ runs = <<>> /\ speech = NoSpeech
    BY DEF EnginesInit
  <1>2. OneAtATime(<<>>)
    BY DEF OneAtATime
  <1>3. GenerationsOK
    <2>1. <<>> \in Seq(Generation)
      OBVIOUS
    <2>2. /\ pull.gen = 0
          /\ pull \in [gen : Nat, at : {"idle", "next", "parked"}, read : Nat, waited : 0..1]
      BY <1>1 DEF NoPull
    <2>. QED  BY <1>1, <1>2, <2>1, <2>2 DEF GenerationsOK, ReadInFull
  <1>4. SpeechOK
    <2>1. <<>> \in Seq([phase : Phases]) /\ ~NoSpeech.on
      BY DEF NoSpeech
    <2>. QED  BY <1>1, <1>2, <2>1, NoSpeechType DEF SpeechOK, SpeechState
  <1>. QED  BY <1>3, <1>4 DEF EnginesInv

\* One step of an engine leaves the parts of the others alone.
LEMMA EnginesStep == EnginesInv /\ [EnginesNext]_engines => EnginesInv'
  <1>. SUFFICES ASSUME EnginesInv, [EnginesNext]_engines PROVE EnginesInv'
    OBVIOUS
  <1>0. GenerationsOK /\ SpeechOK
    BY DEF EnginesInv
  <1>1. UNCHANGED lmPart => GenerationsOK'
    BY <1>0 DEF lmPart, GenerationsOK, ReadInFull, Pulled, OneAtATime
  <1>2. UNCHANGED ttsPart => SpeechOK'
    BY <1>0 DEF ttsPart, SpeechOK, OneAtATime
  <1>3. CASE Lm(StartGeneration \/ LmModel \/ LmReader)
    <2>1. (StartGeneration \/ LmModel \/ LmReader) /\ UNCHANGED ttsPart
      BY <1>3 DEF Lm
    <2>2. ASSUME NEW g \in DOMAIN gens, Begins(g) \/ Decodes(g) \/ GenerationFails(g)
          PROVE  GenerationsOK'
      BY <1>0, <2>2, BeginsKeeps, DecodesKeeps, FailureKeeps
    <2>3. LmReader => GenerationsOK'
      BY <1>0, WaitingKeeps, ReadingKeeps, EndKeeps DEF LmReader
    <2>4. GenerationsOK'
      BY <1>0, <2>1, <2>2, <2>3, StartKeeps DEF LmModel
    <2>. QED  BY <1>2, <2>1, <2>4 DEF EnginesInv
  <1>4. CASE Tts(Speaks \/ TtsModel \/ TtsReader)
    <2>1. (Speaks \/ TtsModel \/ TtsReader) /\ UNCHANGED lmPart
      BY <1>4 DEF Tts
    <2>. QED  BY <1>0, <1>1, <2>1, SpeechKeeps DEF EnginesInv
  <1>5. CASE Vad(Scores \/ \E call \in scorer.calls : ScoreComes(call))
    <2>1. UNCHANGED lmPart /\ UNCHANGED ttsPart
      BY <1>5 DEF Vad
    <2>. QED  BY <1>1, <1>2, <2>1 DEF EnginesInv
  <1>6. CASE BargesIn
    <2>1. \/ LmBargeIn /\ UNCHANGED ttsPart
          \/ TtsBargeIn /\ UNCHANGED lmPart
          \/ UNCHANGED lmPart /\ UNCHANGED ttsPart
      BY <1>6 DEF BargesIn
    <2>. QED  BY <1>0, <1>1, <1>2, <2>1, LmBargeInKeeps, SpeechKeeps DEF EnginesInv
  <1>7. CASE UNCHANGED engines
    BY <1>1, <1>2, <1>7 DEF engines, EnginesInv
  <1>. QED  BY <1>3, <1>4, <1>5, <1>6, <1>7 DEF EnginesNext

\* Of a chain that is worked off in order one member runs.
LEMMA EnginesShow == EnginesInv => RepliesAreWhole /\ ClausesMakeTheSentence
  <1>. SUFFICES ASSUME EnginesInv PROVE RepliesAreWhole /\ ClausesMakeTheSentence
    OBVIOUS
  <1>1. /\ gens \in Seq(Generation) /\ OneAtATime(gens) /\ pull.waited \in 0..1
        /\ runs \in Seq([phase : Phases]) /\ OneAtATime(runs)
        /\ \A reply \in committed : gens[reply.gen].whole /\ reply.read = gens[reply.gen].made
        /\ speech \in SpeechState /\ (speech.on => speech.ends = Clauses(speech.words))
    BY DEF EnginesInv, GenerationsOK, SpeechOK, SpeechState
  <1>2. BargeInCostsOneToken
    <2>1. /\ Cardinality({i \in DOMAIN gens : gens[i].phase = "running"}) <= 1
          /\ Cardinality({i \in DOMAIN runs : runs[i].phase = "running"}) <= 1
      BY <1>1, OneIsRunning
    <2>2. pull.waited <= 1
      BY <1>1
    <2>. QED  BY <2>1, <2>2 DEF BargeInCostsOneToken
  <1>3. CommittedIsWhole
    BY <1>1 DEF CommittedIsWhole
  <1>4. ClausesMakeTheSentence
    <2>1. speech.words \in Seq(BOOLEAN) /\ speech.clip \in Clip
      BY <1>1 DEF SpeechState
    <2>2. speech.on => WellCut(speech.words, speech.ends)
      BY <1>1, <2>1, ClausesCutWell
    <2>. QED  BY <2>1, <2>2, TrimmedAtJoins DEF ClausesMakeTheSentence, WellCut
  <1>. QED  BY <1>2, <1>3, <1>4 DEF RepliesAreWhole

-----------------------------------------------------------------------------
(***************************************************************************)
(* The session: what the schedule lasts.                                   *)
(***************************************************************************)
\* g[n] is what the first n sources last.
Adds(g, sources) ==
    /\ g[0] = 0
    /\ \A i \in 1..Len(sources) : g[i] = g[i - 1] + sources[i].length
    /\ Total(sources) = g[Len(sources)]

\* Total, as an iteration.
LEMMA Additions ==
    ASSUME NEW sources \in Seq(Source)
    PROVE  \E g \in [0..Len(sources) -> Nat] : Adds(g, sources)
  <1>. DEFINE N == Len(sources)
              Body(k) == [i \in 0..N |-> IF i = 0 THEN 0 ELSE k[i - 1] + sources[i].length]
              H == [i \in 1..N |-> [t \in Nat |-> t + sources[i].length]]
              f == CHOOSE k : k = Body(k)
  <1>1. N \in Nat /\ \A i \in 1..N : sources[i].length \in Nat
    <2>1. \A i \in 1..N : sources[i] \in Source
      OBVIOUS
    <2>. HIDE DEF N
    <2>2. \A i \in 1..N : sources[i].length \in Nat
      BY <2>1 DEF Source
    <2>. QED  BY <2>2 DEF N
  <1>2. H \in [1..N -> [Nat -> Nat]] /\ \A i \in 1..N, t \in Nat : H[i][t] = t + sources[i].length
    <2>1. \A i \in 1..N, t \in Nat : t + sources[i].length \in Nat
      BY <1>1
    <2>. QED  BY <2>1
  <1>. HIDE DEF H, N
  <1>3. PICK g \in [0..N -> Nat] : g[0] = 0 /\ \A i \in 1..N : g[i] = H[i][g[i - 1]]
    <2>. DEFINE A == Nat
                a == 0
    <2>1. a \in A /\ H \in [1..N -> [A -> A]] /\ N \in Nat
      BY <1>1, <1>2
    <2>. HIDE DEF A, a
    <2>2. \E g \in [0..N -> A] : g[0] = a /\ \A i \in 1..N : g[i] = H[i][g[i - 1]]
      BY ONLY <2>1, Data!Iteration
    <2>. QED  BY <2>2 DEF A, a
  <1>4. ASSUME NEW i \in 1..N
        PROVE  g[i] = g[i - 1] + sources[i].length
    <2>1. i - 1 \in 0..N
      BY <1>1
    <2>. QED  BY <1>2, <1>3, <2>1
  <1>5. g = Body(g)
    <2>1. ASSUME NEW n \in 0..N
          PROVE  g[n] = IF n = 0 THEN 0 ELSE g[n - 1] + sources[n].length
      BY <1>1, <1>3, <1>4
    <2>. QED  BY <1>3, <2>1
  <1>. HIDE DEF Body
  <1>6. f = Body(f)
    BY <1>5
  <1>. HIDE DEF f
  <1>7. \A n \in 0..N : f[n] = IF n = 0 THEN 0 ELSE f[n - 1] + sources[n].length
    BY <1>6 DEF Body
  <1>8. f[N] = g[N]
    <2>. DEFINE T == {n \in 0..N : f[n] = g[n]}
    <2>1. 0 \in T
      BY <1>1, <1>3, <1>7
    <2>2. ASSUME NEW n \in 0..N, n + 1 <= N, n \in T
          PROVE  n + 1 \in T
      <3>0. n \in Nat /\ n + 1 <= N /\ f[n] = g[n]
        BY <2>2
      <3>1. n + 1 \in 1..N /\ n + 1 \in 0..N /\ n + 1 /= 0 /\ (n + 1) - 1 = n
        <4>1. N \in Nat
          BY <1>1
        <4>. QED  BY <3>0, <4>1
      <3>2. f[n + 1] = f[n] + sources[n + 1].length /\ g[n + 1] = g[n] + sources[n + 1].length
        BY <1>4, <1>7, <3>1
      <3>. QED  BY <3>0, <3>1, <3>2
    <2>. HIDE DEF T
    <2>3. \A n \in 0..N : n \in T
      BY <1>1, <2>1, <2>2, Data!CountingUp
    <2>. QED  BY <1>1, <2>3 DEF T
  <1>9. Total(sources) = f[N]
    BY DEF Total, f, Body, N
  <1>. QED  BY <1>3, <1>4, <1>8, <1>9 DEF N, Adds

\* Nothing lasts no time.
LEMMA TotalOfEmpty == Total(<<>>) = 0
  <1>1. <<>> \in Seq(Source) /\ Len(<<>>) = 0
    OBVIOUS
  <1>2. PICK g \in [0..Len(<<>>) -> Nat] : Adds(g, <<>>)
    BY <1>1, Additions
  <1>. QED  BY <1>1, <1>2 DEF Adds

\* One source more.
LEMMA TotalOfAppend ==
    ASSUME NEW sources \in Seq(Source), NEW source \in Source
    PROVE  /\ Total(sources) \in Nat
           /\ Total(Append(sources, source)) = Total(sources) + source.length
  <1>. DEFINE grown == Append(sources, source)
              N == Len(sources)
  <1>1. /\ N \in Nat /\ grown \in Seq(Source) /\ Len(grown) = N + 1 /\ grown[N + 1] = source
        /\ \A i \in 1..N : grown[i] = sources[i]
    OBVIOUS
  <1>. HIDE DEF grown
  <1>2. PICK g \in [0..N -> Nat] : Adds(g, sources)
    BY Additions
  <1>3. PICK h \in [0..Len(grown) -> Nat] : Adds(h, grown)
    BY <1>1, Additions
  <1>. HIDE DEF N
  <1>4. /\ g[0] = 0 /\ h[0] = 0
        /\ \A i \in 1..N : g[i] = g[i - 1] + sources[i].length
        /\ \A i \in 1..(N + 1) : h[i] = h[i - 1] + grown[i].length
        /\ Total(sources) = g[N] /\ Total(grown) = h[N + 1]
    BY <1>1, <1>2, <1>3 DEF Adds, N
  <1>5. g[N] = h[N]
    <2>. DEFINE T == {n \in 0..N : g[n] = h[n]}
    <2>1. 0 \in T
      BY <1>1, <1>4
    <2>2. ASSUME NEW n \in 0..N, n + 1 <= N, n \in T
          PROVE  n + 1 \in T
      <3>1. n + 1 \in 1..N /\ n + 1 \in 1..(N + 1) /\ (n + 1) - 1 = n /\ g[n] = h[n]
        BY <1>1, <2>2
      <3>2. g[n + 1] = g[n] + sources[n + 1].length /\ h[n + 1] = h[n] + grown[n + 1].length
        BY <1>4, <3>1
      <3>. QED  BY <1>1, <3>1, <3>2
    <2>. HIDE DEF T
    <2>3. \A n \in 0..N : n \in T
      BY <1>1, <2>1, <2>2, Data!CountingUp
    <2>. QED  BY <1>1, <2>3 DEF T
  <1>6. N + 1 \in 1..(N + 1) /\ (N + 1) - 1 = N /\ N \in 0..N
    BY <1>1
  <1>7. h[N + 1] = h[N] + grown[N + 1].length
    BY <1>4, <1>6
  <1>. QED  BY <1>1, <1>2, <1>4, <1>5, <1>6, <1>7 DEF grown

\* What lies behind a source of the schedule when one is added, and when the first has ended.
LEMMA BehindOfAppend ==
    ASSUME NEW sources \in Seq(Source), NEW source \in Source, NEW i \in 1..Len(sources)
    PROVE  LET n == Len(sources)
           IN  /\ SubSeq(sources, i + 1, n) \in Seq(Source)
               /\ SubSeq(Append(sources, source), i + 1, n + 1)
                    = Append(SubSeq(sources, i + 1, n), source)
  <1>. DEFINE n == Len(sources)
              grown == Append(sources, source)
              rest == SubSeq(sources, i + 1, n)
              longer == SubSeq(grown, i + 1, n + 1)
  <1>1. /\ n \in Nat /\ i \in Nat /\ i <= n /\ grown \in Seq(Source) /\ Len(grown) = n + 1
        /\ grown[n + 1] = source /\ \A j \in 1..n : grown[j] = sources[j]
    OBVIOUS
  <1>. HIDE DEF grown
  <1>2. /\ rest \in Seq(Source) /\ Len(rest) = n - i
        /\ \A j \in 1..(n - i) : rest[j] = sources[i + j]
    <2>1. i + 1 \in Int /\ n \in Int /\ \A j \in (i + 1)..n : sources[j] \in Source
      BY <1>1
    <2>2. /\ rest \in Seq(Source)
          /\ Len(rest) = IF i + 1 <= n THEN n - (i + 1) + 1 ELSE 0
          /\ \A j \in 1..(n - (i + 1) + 1) : rest[j] = sources[(i + 1) + j - 1]
      BY <2>1, SubSeqProperties
    <2>. HIDE DEF rest
    <2>3. Len(rest) = n - i
      BY <1>1, <2>2
    <2>4. \A j \in 1..(n - i) : rest[j] = sources[i + j]
      BY <1>1, <2>2
    <2>. QED  BY <2>2, <2>3, <2>4
  <1>3. /\ longer \in Seq(Source) /\ Len(longer) = n + 1 - i
        /\ \A j \in 1..(n + 1 - i) : longer[j] = grown[i + j]
    <2>1. i + 1 \in Int /\ n + 1 \in Int /\ \A j \in (i + 1)..(n + 1) : grown[j] \in Source
      BY <1>1
    <2>2. /\ longer \in Seq(Source)
          /\ Len(longer) = IF i + 1 <= n + 1 THEN (n + 1) - (i + 1) + 1 ELSE 0
          /\ \A j \in 1..((n + 1) - (i + 1) + 1) : longer[j] = grown[(i + 1) + j - 1]
      BY <2>1, SubSeqProperties
    <2>. HIDE DEF longer
    <2>3. Len(longer) = n + 1 - i
      BY <1>1, <2>2
    <2>4. \A j \in 1..(n + 1 - i) : longer[j] = grown[i + j]
      BY <1>1, <2>2
    <2>. QED  BY <2>2, <2>3, <2>4
  <1>. HIDE DEF rest, longer, n
  <1>4. Append(rest, source) \in Seq(Source) /\ Len(Append(rest, source)) = n + 1 - i
    <2>1. Append(rest, source) \in Seq(Source) /\ Len(Append(rest, source)) = Len(rest) + 1
      BY <1>2
    <2>2. (n - i) + 1 = n + 1 - i
      BY <1>1
    <2>. QED  BY <1>2, <2>1, <2>2
  <1>5. \A j \in 1..(n + 1 - i) : longer[j] = Append(rest, source)[j]
    <2>1. ASSUME NEW j \in 1..(n + 1 - i)
          PROVE  longer[j] = Append(rest, source)[j]
      <3>1. CASE j \in 1..(n - i)
        <4>1. i + j \in 1..n /\ Append(rest, source)[j] = rest[j]
          BY <1>1, <1>2, <3>1
        <4>. QED  BY <1>1, <1>2, <1>3, <3>1, <4>1
      <3>2. CASE j = n + 1 - i
        <4>1. i + j = n + 1 /\ j = Len(rest) + 1
          BY <1>1, <1>2, <3>2
        <4>2. Append(rest, source)[j] = source
          BY <1>2, <4>1
        <4>. QED  BY <1>1, <1>3, <4>1, <4>2
      <3>3. j \in 1..(n - i) \/ j = n + 1 - i
        <4>1. n \in Int /\ i \in Int
          BY <1>1
        <4>. QED  BY <4>1
      <3>. QED  BY <3>1, <3>2, <3>3
    <2>. QED  BY <2>1
  <1>6. longer = Append(rest, source)
    BY <1>3, <1>4, <1>5, SeqEqual
  <1>. QED  BY <1>2, <1>6 DEF rest, longer, grown, n

\* The first source has ended.
LEMMA BehindOfTail ==
    ASSUME NEW sources \in Seq(Source), sources /= <<>>
    PROVE  LET n == Len(sources)
           IN  /\ Tail(sources) = SubSeq(sources, 2, n)
               /\ \A i \in 1..(n - 1) :
                    SubSeq(Tail(sources), i + 1, n - 1) = SubSeq(sources, i + 2, n)
  <1>. DEFINE n == Len(sources)
              rest == Tail(sources)
  <1>1. /\ n \in Nat /\ n >= 1 /\ rest \in Seq(Source) /\ Len(rest) = n - 1
        /\ \A j \in 1..(n - 1) : rest[j] = sources[j + 1]
    OBVIOUS
  <1>. HIDE DEF rest
  <1>2. ASSUME NEW i \in 0..(n - 1)
        PROVE  /\ SubSeq(rest, i + 1, n - 1) \in Seq(Source)
               /\ SubSeq(rest, i + 1, n - 1) = SubSeq(sources, i + 2, n)
    <2>. DEFINE a == SubSeq(rest, i + 1, n - 1)
                b == SubSeq(sources, i + 2, n)
    <2>1. i + 1 \in Int /\ n - 1 \in Int /\ \A j \in (i + 1)..(n - 1) : rest[j] \in Source
      BY <1>1
    <2>2. /\ a \in Seq(Source) /\ Len(a) = IF i + 1 <= n - 1 THEN (n - 1) - (i + 1) + 1 ELSE 0
          /\ \A j \in 1..((n - 1) - (i + 1) + 1) : a[j] = rest[(i + 1) + j - 1]
      BY <2>1, SubSeqProperties
    <2>3. i + 2 \in Int /\ n \in Int /\ \A j \in (i + 2)..n : sources[j] \in Source
      BY <1>1
    <2>4. /\ b \in Seq(Source) /\ Len(b) = IF i + 2 <= n THEN n - (i + 2) + 1 ELSE 0
          /\ \A j \in 1..(n - (i + 2) + 1) : b[j] = sources[(i + 2) + j - 1]
      BY <2>3, SubSeqProperties
    <2>. HIDE DEF a, b
    <2>5. Len(a) = n - 1 - i /\ Len(b) = n - 1 - i
      BY <1>1, <2>2, <2>4
    <2>6. ASSUME NEW j \in 1..(n - 1 - i)
          PROVE  a[j] = b[j]
      <3>1. /\ j \in 1..((n - 1) - (i + 1) + 1) /\ j \in 1..(n - (i + 2) + 1)
            /\ (i + 1) + j - 1 = i + j /\ (i + 2) + j - 1 = (i + j) + 1 /\ i + j \in 1..(n - 1)
        BY <1>1
      <3>2. a[j] = rest[i + j] /\ b[j] = sources[(i + j) + 1]
        BY <2>2, <2>4, <3>1
      <3>. QED  BY <1>1, <3>1, <3>2
    <2>7. a = b
      BY <2>2, <2>4, <2>5, <2>6, SeqEqual
    <2>. QED  BY <2>2, <2>7 DEF a, b
  <1>3. SubSeq(rest, 1, n - 1) = rest
    <2>1. rest \in Seq(Source) /\ Len(rest) = n - 1
      BY <1>1
    <2>. DEFINE a == SubSeq(rest, 1, n - 1)
    <2>2. /\ a \in Seq(Source) /\ Len(a) = IF 1 <= n - 1 THEN (n - 1) - 1 + 1 ELSE 0
          /\ \A j \in 1..((n - 1) - 1 + 1) : a[j] = rest[1 + j - 1]
      <3>1. 1 \in Int /\ n - 1 \in Int /\ \A j \in 1..(n - 1) : rest[j] \in Source
        BY <1>1
      <3>. QED  BY <3>1, SubSeqProperties
    <2>. HIDE DEF a
    <2>3. Len(a) = n - 1 /\ \A j \in 1..(n - 1) : a[j] = rest[j]
      BY <1>1, <2>2
    <2>4. a = rest
      BY <2>1, <2>2, <2>3, SeqEqual
    <2>. QED  BY <2>4 DEF a
  <1>4. 0 \in 0..(n - 1) /\ 0 + 1 = 1 /\ 0 + 2 = 2 /\ \A i \in 1..(n - 1) : i \in 0..(n - 1)
    BY <1>1
  <1>5. rest = SubSeq(sources, 2, n)
    BY <1>2, <1>3, <1>4
  <1>. QED  BY <1>2, <1>4, <1>5 DEF rest
-----------------------------------------------------------------------------
(***************************************************************************)
(* The microphone's chunks.                                                *)
(***************************************************************************)
LEMMA TailIs ==
    ASSUME NEW S, NEW s \in Seq(S), s /= <<>>
    PROVE  /\ Tail(s) \in Seq(S) /\ Len(s) = Len(Tail(s)) + 1 /\ Len(Tail(s)) \in Nat
           /\ 1 \in DOMAIN s /\ Head(s) = s[1] /\ Head(s) \in S
           /\ \A i \in DOMAIN Tail(s) : i \in Nat /\ i >= 1 /\ i + 1 \in DOMAIN s /\ Tail(s)[i] = s[i + 1]
  OBVIOUS

\* What a sequence is with one more at its end.
LEMMA AppendIs ==
    ASSUME NEW S, NEW s \in Seq(S), NEW x \in S
    PROVE  /\ Append(s, x) \in Seq(S) /\ Len(Append(s, x)) = Len(s) + 1
           /\ Len(s) + 1 \in DOMAIN Append(s, x) /\ Append(s, x)[Len(s) + 1] = x
           /\ \A i \in DOMAIN s : i \in Nat /\ i < Len(s) + 1
           /\ \A i \in DOMAIN Append(s, x) :
                (i \in DOMAIN s /\ Append(s, x)[i] = s[i]) \/ (i = Len(s) + 1 /\ Append(s, x)[i] = x)
  OBVIOUS

\* A rising sequence without its first.
LEMMA RisingTail ==
    ASSUME NEW s \in Seq(Nat), s /= <<>>, Rising(s)
    PROVE  Rising(Tail(s)) /\ \A i \in DOMAIN Tail(s) : Head(s) < Tail(s)[i]
  <1>1. /\ 1 \in DOMAIN s /\ Head(s) = s[1]
        /\ \A i \in DOMAIN Tail(s) : i \in Nat /\ i >= 1 /\ i + 1 \in DOMAIN s /\ Tail(s)[i] = s[i + 1]
    BY TailIs
  <1>. DEFINE t == Tail(s)
              h == Head(s)
  <1>. HIDE DEF t, h
  <1>2. /\ 1 \in DOMAIN s /\ h = s[1]
        /\ \A i \in DOMAIN t : i \in Nat /\ i >= 1 /\ i + 1 \in DOMAIN s /\ t[i] = s[i + 1]
    BY <1>1 DEF t, h
  <1>3. ASSUME NEW i \in DOMAIN t
        PROVE  h < t[i]
    <2>1. 1 < i + 1
      BY <1>2
    <2>. QED  BY <1>2, <2>1 DEF Rising
  <1>4. ASSUME NEW i \in DOMAIN t, NEW j \in DOMAIN t, i < j
        PROVE  t[i] < t[j]
    <2>1. i + 1 < j + 1
      BY <1>2, <1>4
    <2>. QED  BY <1>2, <2>1 DEF Rising
  <1>. QED  BY <1>3, <1>4 DEF Rising, t, h

\* A rising sequence with one more that is larger.
LEMMA RisingAppend ==
    ASSUME NEW s \in Seq(Nat), NEW x \in Nat, Rising(s), \A i \in DOMAIN s : s[i] < x
    PROVE  Rising(Append(s, x))
  <1>. DEFINE t == Append(s, x)
              n == Len(s)
  <1>1. /\ \A i \in DOMAIN s : i \in Nat /\ i < n + 1
        /\ \A i \in DOMAIN t : (i \in DOMAIN s /\ t[i] = s[i]) \/ (i = n + 1 /\ t[i] = x)
    BY AppendIs
  <1>2. n \in Nat
    OBVIOUS
  <1>. HIDE DEF t, n
  <1>3. ASSUME NEW i \in DOMAIN t, NEW j \in DOMAIN t, i < j
        PROVE  t[i] < t[j]
    <2>1. i \in DOMAIN s /\ t[i] = s[i]
      <3>1. ASSUME i = n + 1
            PROVE  FALSE
        <4>1. j \in Nat /\ j <= n + 1
          BY <1>1, <1>2
        <4>. QED  BY <1>2, <1>3, <3>1, <4>1
      <3>. QED  BY <1>1, <3>1
    <2>2. CASE j \in DOMAIN s /\ t[j] = s[j]
      BY <1>3, <2>1, <2>2 DEF Rising
    <2>3. CASE t[j] = x
      BY <2>1, <2>3
    <2>. QED  BY <1>1, <2>2, <2>3
  <1>. QED  BY <1>3 DEF Rising, t

\* A chunk is captured and posted.
LEMMA NumberedPost ==
    ASSUME NEW captured, NEW posted, NEW chunks, NEW taken, Numbered(captured, posted, chunks, taken)
    PROVE  Numbered(captured + 1, Append(posted, captured + 1), chunks, taken)
  <1>. DEFINE x == captured + 1
              grown == Append(posted, x)
  <1>1. /\ captured \in Nat /\ posted \in Seq(Nat) /\ chunks \in Seq(Nat) /\ taken \in Seq(Nat)
        /\ Rising(taken) /\ Rising(chunks) /\ Rising(posted)
        /\ Under(taken, chunks) /\ Under(taken, posted) /\ Under(chunks, posted)
        /\ \A i \in DOMAIN taken : taken[i] \in Nat /\ taken[i] <= captured
        /\ \A i \in DOMAIN chunks : chunks[i] \in Nat /\ chunks[i] <= captured
        /\ \A i \in DOMAIN posted : posted[i] \in Nat /\ posted[i] <= captured
    BY DEF Numbered
  <1>2. x \in Nat /\ \A k \in Nat : k <= captured => k < x /\ k <= x
    BY <1>1
  <1>. HIDE DEF x
  <1>3. /\ grown \in Seq(Nat)
        /\ \A i \in DOMAIN grown : (i \in DOMAIN posted /\ grown[i] = posted[i]) \/ grown[i] = x
    BY <1>1, <1>2, AppendIs
  <1>4. Rising(grown)
    BY <1>1, <1>2, RisingAppend
  <1>. HIDE DEF grown
  <1>5. Under(taken, grown) /\ Under(chunks, grown)
    BY <1>1, <1>2, <1>3 DEF Under
  <1>6. /\ \A i \in DOMAIN taken : taken[i] <= x
        /\ \A i \in DOMAIN chunks : chunks[i] <= x
        /\ \A i \in DOMAIN grown : grown[i] <= x
    <2>1. x <= x
      BY <1>2
    <2>2. ASSUME NEW i \in DOMAIN grown
          PROVE  grown[i] <= x
      BY <1>1, <1>2, <1>3, <2>1
    <2>. QED  BY <1>1, <1>2, <2>2
  <1>. QED  BY <1>1, <1>2, <1>3, <1>4, <1>5, <1>6 DEF Numbered, x, grown

\* The first of the chunks posted is refused, or queued.
LEMMA NumberedLost ==
    ASSUME NEW captured, NEW posted, NEW chunks, NEW taken, Numbered(captured, posted, chunks, taken),
           posted /= <<>>
    PROVE  /\ Numbered(captured, Tail(posted), chunks, taken)
           /\ Numbered(captured, Tail(posted), Append(chunks, Head(posted)), taken)
  <1>. DEFINE x == Head(posted)
              rest == Tail(posted)
              grown == Append(chunks, x)
  <1>1. /\ captured \in Nat /\ posted \in Seq(Nat) /\ chunks \in Seq(Nat) /\ taken \in Seq(Nat)
        /\ Rising(taken) /\ Rising(chunks) /\ Rising(posted)
        /\ Under(taken, chunks) /\ Under(taken, posted) /\ Under(chunks, posted)
        /\ \A i \in DOMAIN taken : taken[i] <= captured
        /\ \A i \in DOMAIN chunks : chunks[i] <= captured
        /\ \A i \in DOMAIN posted : posted[i] <= captured
    BY DEF Numbered
  <1>2. /\ rest \in Seq(Nat) /\ 1 \in DOMAIN posted /\ x = posted[1] /\ x \in Nat
        /\ \A i \in DOMAIN rest : i + 1 \in DOMAIN posted /\ rest[i] = posted[i + 1]
    BY <1>1, TailIs
  <1>3. Rising(rest) /\ \A i \in DOMAIN rest : x < rest[i]
    BY <1>1, RisingTail
  <1>. HIDE DEF rest, x
  <1>4. /\ Under(taken, rest) /\ Under(chunks, rest)
        /\ \A i \in DOMAIN taken : taken[i] < x
        /\ \A i \in DOMAIN chunks : chunks[i] < x
        /\ \A i \in DOMAIN rest : rest[i] <= captured
        /\ x <= captured
    BY <1>1, <1>2 DEF Under
  <1>5. /\ grown \in Seq(Nat)
        /\ \A i \in DOMAIN grown : (i \in DOMAIN chunks /\ grown[i] = chunks[i]) \/ grown[i] = x
    BY <1>1, <1>2, AppendIs
  <1>6. Rising(grown)
    BY <1>1, <1>2, <1>4, RisingAppend
  <1>. HIDE DEF grown
  <1>7. Under(taken, grown) /\ Under(grown, rest) /\ \A i \in DOMAIN grown : grown[i] <= captured
    BY <1>1, <1>3, <1>4, <1>5 DEF Under
  <1>8. Numbered(captured, rest, chunks, taken)
    BY <1>1, <1>2, <1>3, <1>4 DEF Numbered
  <1>9. Numbered(captured, rest, grown, taken)
    BY <1>1, <1>2, <1>3, <1>4, <1>5, <1>6, <1>7 DEF Numbered
  <1>. QED  BY <1>8, <1>9 DEF rest, x, grown

\* The first chunk queued is taken.
LEMMA NumberedTaken ==
    ASSUME NEW captured, NEW posted, NEW chunks, NEW taken, Numbered(captured, posted, chunks, taken),
           chunks /= <<>>
    PROVE  Numbered(captured, posted, Tail(chunks), Append(taken, Head(chunks)))
  <1>. DEFINE x == Head(chunks)
              rest == Tail(chunks)
              grown == Append(taken, x)
  <1>1. /\ captured \in Nat /\ posted \in Seq(Nat) /\ chunks \in Seq(Nat) /\ taken \in Seq(Nat)
        /\ Rising(taken) /\ Rising(chunks) /\ Rising(posted)
        /\ Under(taken, chunks) /\ Under(taken, posted) /\ Under(chunks, posted)
        /\ \A i \in DOMAIN taken : taken[i] <= captured
        /\ \A i \in DOMAIN chunks : chunks[i] <= captured
        /\ \A i \in DOMAIN posted : posted[i] <= captured
    BY DEF Numbered
  <1>2. /\ rest \in Seq(Nat) /\ 1 \in DOMAIN chunks /\ x = chunks[1] /\ x \in Nat
        /\ \A i \in DOMAIN rest : i + 1 \in DOMAIN chunks /\ rest[i] = chunks[i + 1]
    BY <1>1, TailIs
  <1>3. Rising(rest) /\ \A i \in DOMAIN rest : x < rest[i]
    BY <1>1, RisingTail
  <1>. HIDE DEF rest, x
  <1>4. /\ Under(taken, rest) /\ Under(rest, posted)
        /\ \A i \in DOMAIN taken : taken[i] < x
        /\ \A i \in DOMAIN posted : x < posted[i]
        /\ \A i \in DOMAIN rest : rest[i] <= captured
        /\ x <= captured
    BY <1>1, <1>2 DEF Under
  <1>5. /\ grown \in Seq(Nat)
        /\ \A i \in DOMAIN grown : (i \in DOMAIN taken /\ grown[i] = taken[i]) \/ grown[i] = x
    BY <1>1, <1>2, AppendIs
  <1>6. Rising(grown)
    BY <1>1, <1>2, <1>4, RisingAppend
  <1>. HIDE DEF grown
  <1>7. Under(grown, rest) /\ Under(grown, posted) /\ \A i \in DOMAIN grown : grown[i] <= captured
    BY <1>1, <1>3, <1>4, <1>5 DEF Under
  <1>8. Numbered(captured, posted, rest, grown)
    BY <1>1, <1>2, <1>3, <1>4, <1>5, <1>6, <1>7 DEF Numbered
  <1>. QED  BY <1>8 DEF rest, x, grown

\* No chunks, and those queued dropped.
LEMMA NumberedDropped ==
    /\ Numbered(0, <<>>, <<>>, <<>>)
    /\ \A captured, posted, chunks, taken :
         Numbered(captured, posted, chunks, taken) => Numbered(captured, posted, <<>>, taken)
  <1>1. <<>> \in Seq(Nat) /\ DOMAIN <<>> = {}
    OBVIOUS
  <1>. QED  BY <1>1 DEF Numbered, Rising, Under

\* What was taken and what is queued rise as one sequence.
LEMMA NumberedInOrder ==
    ASSUME NEW captured, NEW posted, NEW chunks, NEW taken, Numbered(captured, posted, chunks, taken)
    PROVE  LET kept == taken \o chunks
           IN  \A i \in 1..(Len(kept) - 1) : kept[i] < kept[i + 1]
  <1>. DEFINE kept == taken \o chunks
              n == Len(taken)
              m == Len(chunks)
  <1>1. /\ taken \in Seq(Nat) /\ chunks \in Seq(Nat)
        /\ Rising(taken) /\ Rising(chunks) /\ Under(taken, chunks)
    BY DEF Numbered
  <1>2. /\ n \in Nat /\ m \in Nat /\ Len(kept) = n + m
        /\ DOMAIN taken = 1..n /\ DOMAIN chunks = 1..m
        /\ \A i \in 1..n : kept[i] = taken[i]
        /\ \A j \in 1..m : kept[n + j] = chunks[j]
    BY <1>1
  <1>. HIDE DEF kept, n, m
  <1>3. ASSUME NEW i \in 1..(Len(kept) - 1)
        PROVE  kept[i] < kept[i + 1]
    <2>1. CASE i + 1 <= n
      <3>1. i \in 1..n /\ i + 1 \in 1..n /\ i < i + 1
        BY <1>2, <2>1
      <3>. QED  BY <1>1, <1>2, <3>1 DEF Rising
    <2>2. CASE i = n
      <3>1. i \in 1..n /\ 1 \in 1..m /\ i + 1 = n + 1
        BY <1>2, <2>2
      <3>. QED  BY <1>1, <1>2, <3>1 DEF Under
    <2>3. CASE i > n
      <3>1. i - n \in 1..m /\ (i - n) + 1 \in 1..m /\ n + (i - n) = i /\ n + ((i - n) + 1) = i + 1
            /\ i - n < (i - n) + 1
        BY <1>2, <2>3
      <3>2. kept[n + (i - n)] = chunks[i - n] /\ kept[n + ((i - n) + 1)] = chunks[(i - n) + 1]
        BY <1>2, <3>1
      <3>3. chunks[i - n] < chunks[(i - n) + 1]
        BY <1>1, <1>2, <3>1 DEF Rising
      <3>. QED  BY <3>1, <3>2, <3>3
    <2>4. i + 1 <= n \/ i = n \/ i > n
      BY <1>2
    <2>. QED  BY <2>1, <2>2, <2>3, <2>4
  <1>. QED  BY <1>3 DEF kept

\* A chunk more is captured; one waits no longer, and is counted, or queued, or taken.
LEMMA Countings ==
    ASSUME NEW a \in Nat, NEW b \in Nat, NEW c \in Nat, NEW d \in Nat, NEW e \in Nat, a + b + c + d = e
    PROVE  /\ \A m \in Nat : m = d + 1 => a + b + c + m = e + 1
           /\ \A m \in Nat : d = m + 1 => a + b + (c + 1) + m = e
           /\ \A m \in Nat, n \in Nat : n = b + 1 /\ d = m + 1 => a + n + c + m = e
           /\ \A m \in Nat, n \in Nat : n = a + 1 /\ b = m + 1 => n + m + c + d = e
  OBVIOUS

\* A page before start().
LEMMA CaptureStarts == SessionInit => CaptureOK
  <1>. SUFFICES ASSUME SessionInit PROVE CaptureOK
    OBVIOUS
  <1>1. /\ page = "idle"
        /\ mic = [live |-> FALSE, handler |-> FALSE, closure |-> FALSE, posted |-> <<>>, captured |-> 0]
        /\ inbox = [chunks |-> <<>>, overruns |-> 0, taken |-> <<>>, over |-> FALSE]
    BY DEF SessionInit
  <1>2. <<>> \in Seq(Nat)
    OBVIOUS
  <1>3. page \in Pages /\ mic \in Mic /\ inbox \in Received
    BY <1>1, <1>2 DEF Pages, Mic, Received
  <1>. QED  BY <1>1, <1>3, NumberedDropped DEF CaptureOK

\* While a session starts, runs and ends.
LEMMA PageKeeps ==
    ASSUME CaptureOK, Starting \/ StartFails \/ Stops \/ RunDropped \/ PipelineEnds
    PROVE  CaptureOK'
  <1>1. /\ page \in Pages /\ mic \in Mic /\ inbox \in Received
        /\ Numbered(mic.captured, mic.posted, inbox.chunks, inbox.taken)
        /\ mic.handler => mic.closure
        /\ page \in {"idle", "resuming", "asking", "wiring"} =>
             /\ mic.captured = 0 /\ mic.posted = <<>> /\ ~mic.handler
             /\ inbox.chunks = <<>> /\ inbox.taken = <<>> /\ inbox.overruns = 0
        /\ page \in {"asking", "wiring"} => mic.closure
    BY DEF CaptureOK
  <1>2. CASE OpensSpeakers \/ Loaded \/ Stops \/ PipelineEnds
    <2>1. UNCHANGED <<mic, inbox>>
      BY <1>2 DEF OpensSpeakers, Loaded, Stops, PipelineEnds
    <2>2. \/ page = "idle" /\ page' = "resuming"
          \/ page = "loading" /\ page' = "running"
          \/ page = "running" /\ page' = "stopping"
          \/ page' = "stopped"
      BY <1>2 DEF OpensSpeakers, Loaded, Stops, PipelineEnds
    <2>. QED  BY <2>1, <2>2 DEF CaptureOK, Pages
  <1>3. CASE AsksForMicrophone \/ GotMedia
    <2>1. /\ mic' \in Mic /\ mic'.captured = mic.captured /\ mic'.posted = mic.posted
          /\ mic'.handler = mic.handler /\ mic'.closure /\ inbox' = inbox
      BY <1>1, <1>3 DEF AsksForMicrophone, GotMedia, Mic
    <2>2. page \in {"resuming", "asking"} /\ page' \in {"asking", "wiring"}
      BY <1>3 DEF AsksForMicrophone, GotMedia
    <2>. QED  BY <1>1, <2>1, <2>2 DEF CaptureOK, Pages
  <1>4. CASE Wired
    <2>1. /\ mic' \in Mic /\ mic'.captured = mic.captured /\ mic'.posted = mic.posted
          /\ mic'.handler /\ mic'.closure = mic.closure /\ inbox' = inbox
          /\ page = "wiring" /\ page' = "loading"
      BY <1>1, <1>4 DEF Wired, Mic
    <2>2. Len(inbox.taken) + Len(inbox.chunks) + inbox.overruns + Len(mic.posted) = mic.captured
      <3>1. /\ mic.captured = 0 /\ mic.posted = <<>>
            /\ inbox.chunks = <<>> /\ inbox.taken = <<>> /\ inbox.overruns = 0
        BY <1>1, <2>1
      <3>2. Len(<<>>) = 0
        OBVIOUS
      <3>3. Len(<<>>) + Len(<<>>) + 0 + Len(<<>>) = 0
        BY <3>2
      <3>. QED  BY <3>1, <3>3
    <2>. QED  BY <1>1, <2>1, <2>2 DEF CaptureOK, Pages
  <1>5. CASE StartFails \/ RunDropped
    <2>1. page' \in {"failed", "stopped"}
      BY <1>5 DEF StartFails, RunDropped
    <2>2. CASE UNCHANGED <<mic, inbox>>
      BY <1>1, <2>1, <2>2 DEF CaptureOK, Pages
    <2>3. CASE DropSource
      <3>1. /\ mic' \in Mic /\ mic'.captured = mic.captured /\ mic'.posted = mic.posted
            /\ ~mic'.handler
        BY <1>1, <2>3 DEF DropSource, GivenUp, Mic
      <3>2. <<>> \in Seq(Nat)
        OBVIOUS
      <3>3. inbox' \in Received /\ inbox'.chunks = <<>> /\ inbox'.taken = inbox.taken
        BY <1>1, <2>3, <3>2 DEF DropSource, Received
      <3>. QED  BY <1>1, <2>1, <3>1, <3>3, NumberedDropped DEF CaptureOK, Pages
    <2>4. CASE page = "wiring" /\ mic' = [mic EXCEPT !.closure = FALSE] /\ UNCHANGED inbox
      <3>1. /\ mic' \in Mic /\ mic'.captured = mic.captured /\ mic'.posted = mic.posted
            /\ ~mic'.handler
        BY <1>1, <2>4 DEF Mic
      <3>. QED  BY <1>1, <2>1, <2>4, <3>1 DEF CaptureOK, Pages
    <2>. QED  BY <1>5, <2>2, <2>3, <2>4 DEF StartFails, RunDropped
  <1>. QED  BY <1>2, <1>3, <1>4, <1>5 DEF Starting

\* While chunks are captured, queued and taken.
LEMMA ChunksKeep ==
    ASSUME CaptureOK, Posts \/ Dispatched \/ SendRefused \/ TakesChunk
    PROVE  CaptureOK'
  <1>1. /\ page \in Pages /\ mic \in Mic /\ inbox \in Received
        /\ Numbered(mic.captured, mic.posted, inbox.chunks, inbox.taken)
        /\ mic.handler => mic.closure
        /\ page \in {"idle", "resuming", "asking", "wiring"} =>
             /\ mic.captured = 0 /\ mic.posted = <<>> /\ ~mic.handler
             /\ inbox.chunks = <<>> /\ inbox.taken = <<>> /\ inbox.overruns = 0
        /\ page \in {"asking", "wiring"} => mic.closure
        /\ page \in {"loading", "running", "stopping"} /\ ~inbox.over =>
             /\ mic.handler
             /\ Len(inbox.taken) + Len(inbox.chunks) + inbox.overruns + Len(mic.posted) = mic.captured
    BY DEF CaptureOK
  <1>2. /\ mic.captured \in Nat /\ mic.posted \in Seq(Nat) /\ inbox.chunks \in Seq(Nat)
        /\ inbox.taken \in Seq(Nat) /\ inbox.overruns \in Nat
    BY <1>1 DEF Mic, Received
  <1>3. /\ Len(mic.posted) \in Nat /\ Len(inbox.chunks) \in Nat /\ Len(inbox.taken) \in Nat
    BY <1>2
  <1>. DEFINE a == Len(inbox.taken)
              b == Len(inbox.chunks)
              c == inbox.overruns
              d == Len(mic.posted)
              e == mic.captured
  <1>8. /\ a \in Nat /\ b \in Nat /\ c \in Nat /\ d \in Nat /\ e \in Nat
        /\ page \in {"loading", "running", "stopping"} /\ ~inbox.over => a + b + c + d = e
    BY <1>1, <1>2, <1>3
  <1>. HIDE DEF a, b, c, d, e
  <1>4. CASE Posts
    <2>. DEFINE more == Append(mic.posted, mic.captured + 1)
    <2>1. /\ page \in {"loading", "running", "stopping"} /\ page' = page /\ inbox' = inbox
          /\ mic' = [mic EXCEPT !.captured = mic.captured + 1, !.posted = more]
      BY <1>4 DEF Posts
    <2>2. mic.captured + 1 \in Nat
      BY <1>2
    <2>3. more \in Seq(Nat) /\ Len(more) = Len(mic.posted) + 1
      BY <1>2, <2>2, AppendIs
    <2>4. Numbered(mic.captured + 1, more, inbox.chunks, inbox.taken)
      BY <1>1, NumberedPost
    <2>. HIDE DEF more
    <2>5. /\ mic' \in Mic /\ mic'.captured = mic.captured + 1 /\ mic'.posted = more
          /\ mic'.handler = mic.handler /\ mic'.closure = mic.closure
      BY <1>1, <2>1, <2>2, <2>3 DEF Mic
    <2>6. ~inbox.over => Len(inbox.taken) + Len(inbox.chunks) + inbox.overruns + Len(more) = mic.captured + 1
      <3>1. Len(more) \in Nat /\ Len(more) = d + 1
        BY <1>3, <2>3 DEF d
      <3>2. ASSUME ~inbox.over
            PROVE  a + b + c + Len(more) = e + 1
        BY <1>8, <2>1, <3>1, <3>2, Countings
      <3>. QED  BY <3>2 DEF a, b, c, e
    <2>. QED  BY <1>1, <2>1, <2>4, <2>5, <2>6 DEF CaptureOK
  <1>5. CASE Dispatched
    <2>. DEFINE rest == Tail(mic.posted)
                grown == Append(inbox.chunks, Head(mic.posted))
    <2>1. /\ mic.posted /= <<>> /\ mic' = [mic EXCEPT !.posted = rest] /\ page' = page
          /\ inbox' = IF ~mic.handler THEN inbox
                      ELSE IF Len(inbox.chunks) > QueueChunks
                      THEN [inbox EXCEPT !.overruns = @ + 1]
                      ELSE [inbox EXCEPT !.chunks = grown]
      BY <1>5 DEF Dispatched
    <2>2. /\ rest \in Seq(Nat) /\ Len(mic.posted) = Len(rest) + 1 /\ Len(rest) \in Nat
          /\ Head(mic.posted) \in Nat
      BY <1>2, <2>1, TailIs
    <2>3. grown \in Seq(Nat) /\ Len(grown) = Len(inbox.chunks) + 1
      BY <1>2, <2>2, AppendIs
    <2>4. /\ Numbered(mic.captured, rest, inbox.chunks, inbox.taken)
          /\ Numbered(mic.captured, rest, grown, inbox.taken)
      BY <1>1, <2>1, NumberedLost
    <2>. HIDE DEF rest, grown
    <2>5. /\ mic' \in Mic /\ mic'.captured = mic.captured /\ mic'.posted = rest
          /\ mic'.handler = mic.handler /\ mic'.closure = mic.closure
      BY <1>1, <2>1, <2>2 DEF Mic
    <2>6. page \notin {"idle", "resuming", "asking", "wiring"}
      BY <1>1, <2>1
    <2>10. Len(rest) \in Nat /\ d = Len(rest) + 1
      BY <2>2 DEF d
    <2>7. CASE ~mic.handler
      <3>1. inbox' = inbox
        BY <2>1, <2>7
      <3>. QED  BY <1>1, <2>1, <2>4, <2>5, <2>6, <2>7, <3>1 DEF CaptureOK
    <2>8. CASE mic.handler /\ Len(inbox.chunks) > QueueChunks
      <3>1. inbox' = [inbox EXCEPT !.overruns = inbox.overruns + 1]
        BY <2>1, <2>8
      <3>2. inbox.overruns + 1 \in Nat
        BY <1>2
      <3>3. /\ inbox' \in Received /\ inbox'.chunks = inbox.chunks /\ inbox'.taken = inbox.taken
            /\ inbox'.overruns = inbox.overruns + 1 /\ inbox'.over = inbox.over
        BY <1>1, <3>1, <3>2 DEF Received
      <3>4. page \in {"loading", "running", "stopping"} /\ ~inbox.over =>
              Len(inbox.taken) + Len(inbox.chunks) + (inbox.overruns + 1) + Len(rest) = mic.captured
        <4>1. ASSUME page \in {"loading", "running", "stopping"}, ~inbox.over
              PROVE  a + b + (c + 1) + Len(rest) = e
          BY <1>8, <2>10, <4>1, Countings
        <4>. QED  BY <4>1 DEF a, b, c, e
      <3>. QED  BY <1>1, <2>1, <2>4, <2>5, <2>6, <2>8, <3>3, <3>4 DEF CaptureOK
    <2>9. CASE mic.handler /\ ~(Len(inbox.chunks) > QueueChunks)
      <3>1. inbox' = [inbox EXCEPT !.chunks = grown]
        BY <2>1, <2>9
      <3>2. /\ inbox' \in Received /\ inbox'.chunks = grown /\ inbox'.taken = inbox.taken
            /\ inbox'.overruns = inbox.overruns /\ inbox'.over = inbox.over
        BY <1>1, <2>3, <3>1 DEF Received
      <3>3. page \in {"loading", "running", "stopping"} /\ ~inbox.over =>
              Len(inbox.taken) + Len(grown) + inbox.overruns + Len(rest) = mic.captured
        <4>1. Len(grown) \in Nat /\ Len(grown) = b + 1
          BY <1>3, <2>3 DEF b
        <4>2. ASSUME page \in {"loading", "running", "stopping"}, ~inbox.over
              PROVE  a + Len(grown) + c + Len(rest) = e
          BY <1>8, <2>10, <4>1, <4>2, Countings
        <4>. QED  BY <4>2 DEF a, c, e
      <3>. QED  BY <1>1, <2>1, <2>4, <2>5, <2>6, <2>9, <3>2, <3>3 DEF CaptureOK
    <2>. QED  BY <2>7, <2>8, <2>9
  <1>6. CASE SendRefused
    <2>1. page = "running" /\ page' = page /\ DropSource
      BY <1>6 DEF SendRefused
    <2>2. /\ mic' \in Mic /\ mic'.captured = mic.captured /\ mic'.posted = mic.posted
          /\ ~mic'.handler
      BY <1>1, <2>1 DEF DropSource, GivenUp, Mic
    <2>3. <<>> \in Seq(Nat)
      OBVIOUS
    <2>4. inbox' \in Received /\ inbox'.chunks = <<>> /\ inbox'.taken = inbox.taken /\ inbox'.over
      BY <1>1, <2>1, <2>3 DEF DropSource, Received
    <2>. QED  BY <1>1, <2>1, <2>2, <2>4, NumberedDropped DEF CaptureOK
  <1>7. CASE TakesChunk
    <2>. DEFINE rest == Tail(inbox.chunks)
                grown == Append(inbox.taken, Head(inbox.chunks))
    <2>1. /\ page = "running" /\ page' = page /\ mic' = mic /\ inbox.chunks /= <<>>
          /\ inbox' = [inbox EXCEPT !.chunks = rest, !.taken = grown]
      BY <1>7 DEF TakesChunk
    <2>2. /\ rest \in Seq(Nat) /\ Len(inbox.chunks) = Len(rest) + 1 /\ Len(rest) \in Nat
          /\ Head(inbox.chunks) \in Nat
      BY <1>2, <2>1, TailIs
    <2>3. grown \in Seq(Nat) /\ Len(grown) = Len(inbox.taken) + 1
      BY <1>2, <2>2, AppendIs
    <2>4. Numbered(mic.captured, mic.posted, rest, grown)
      BY <1>1, <2>1, NumberedTaken
    <2>. HIDE DEF rest, grown
    <2>5. /\ inbox' \in Received /\ inbox'.chunks = rest /\ inbox'.taken = grown
          /\ inbox'.overruns = inbox.overruns /\ inbox'.over = inbox.over
      BY <1>1, <2>1, <2>2, <2>3 DEF Received
    <2>6. ~inbox.over => Len(grown) + Len(rest) + inbox.overruns + Len(mic.posted) = mic.captured
      <3>1. Len(grown) \in Nat /\ Len(grown) = a + 1 /\ b = Len(rest) + 1
        BY <1>3, <2>2, <2>3 DEF a, b
      <3>2. ASSUME ~inbox.over
            PROVE  Len(grown) + Len(rest) + c + d = e
        BY <1>8, <2>1, <2>2, <3>1, <3>2, Countings
      <3>. QED  BY <3>2 DEF c, d, e
    <2>. QED  BY <1>1, <2>1, <2>4, <2>5, <2>6 DEF CaptureOK
  <1>. QED  BY <1>4, <1>5, <1>6, <1>7

\* CaptureIsSafe is what one wants of CaptureOK.
LEMMA CaptureShows == CaptureOK => CaptureIsSafe
  <1>. SUFFICES ASSUME CaptureOK PROVE CaptureIsSafe
    OBVIOUS
  <1>1. Numbered(mic.captured, mic.posted, inbox.chunks, inbox.taken)
    BY DEF CaptureOK
  <1>2. LET kept == inbox.taken \o inbox.chunks
        IN  \A i \in 1..(Len(kept) - 1) : kept[i] < kept[i + 1]
    BY <1>1, NumberedInOrder
  <1>. QED  BY <1>2 DEF CaptureOK, CaptureIsSafe

-----------------------------------------------------------------------------
(***************************************************************************)
(* The schedule.                                                           *)
(***************************************************************************)
\* Where enqueue() starts a source.
LEMMA LaterOf ==
    ASSUME NEW a \in Nat, NEW b \in Nat
    PROVE  /\ Max({a, b}) \in Nat /\ Max({a, b}) >= a /\ Max({a, b}) >= b
           /\ Max({a, b}) = a \/ Max({a, b}) = b
  <1>1. \E x \in {a, b} : \A y \in {a, b} : x >= y
    BY DEF Max
  <1>2. Max({a, b}) \in {a, b} /\ \A y \in {a, b} : Max({a, b}) >= y
    BY <1>1 DEF Max
  <1>. QED  BY <1>2

\* The fields of a source.
LEMMA SourceIs ==
    ASSUME NEW source \in Source
    PROVE  /\ source.seq \in Nat /\ source.start \in Nat /\ source.length \in Nat
           /\ source.slack \in Int /\ Ends(source) \in Nat
  BY DEF Source, Ends

\* Silence is a schedule of whatever Interrupt.
LEMMA NothingScheduled ==
    ASSUME NEW open \in BOOLEAN, NEW now \in Nat, NEW cut
    PROVE  Scheduled([open |-> open, now |-> now, next |-> 0, sources |-> <<>>], cut)
  <1>1. <<>> \in Seq(Source) /\ 1..Len(<<>>) = {}
    OBVIOUS
  <1>2. 0 <= now + LeadSeconds + 0
    BY SessionAssumption
  <1>3. [open |-> open, now |-> now, next |-> 0, sources |-> <<>>] \in Speakers
    BY <1>1 DEF Speakers
  <1>. QED  BY <1>1, <1>2, <1>3, TotalOfEmpty DEF Scheduled

\* Playback.enqueue, of a frame no older than the last Interrupt.
LEMMA EnqueuedKeeps ==
    ASSUME NEW cut \in Nat, Scheduled(speakers, cut), NEW frame, frame.seq \in Nat, frame.seq >= cut,
           NEW length \in Nat
    PROVE  Scheduled(Enqueued(frame, length), cut)
  <1>. DEFINE L == LeadSeconds
              now == speakers.now
              next == speakers.next
              S == speakers.sources
              n == Len(S)
              T == Total(S)
              start == Max({next, now + L})
              source == [seq |-> frame.seq, start |-> start, length |-> length, slack |-> start - now - T]
              grown == Append(S, source)
              end == start + length
  <1>1. /\ L \in Nat /\ now \in Nat /\ next \in Nat /\ S \in Seq(Source) /\ speakers \in Speakers
        /\ \A i \in 1..n : Placed(S, i, now, next, cut)
        /\ next <= now + L + T
    BY SessionAssumption DEF Scheduled, Speakers
  <1>2. n \in Nat /\ \A i \in 1..n : S[i] \in Source
    BY <1>1
  <1>3. T \in Nat
    BY <1>1, <1>2, Additions DEF Adds
  <1>4. start \in Nat /\ start >= next /\ start >= now + L /\ (start = next \/ start = now + L)
    <2>1. now + L \in Nat
      BY <1>1
    <2>. QED  BY <1>1, <2>1, LaterOf
  <1>5. Enqueued(frame, length) = [speakers EXCEPT !.next = end, !.sources = grown]
    BY DEF Enqueued
  <1>. HIDE DEF T, start, L, now, next
  <1>6. start - now - T \in Int /\ start - now - T <= L
    BY <1>1, <1>3, <1>4
  <1>7. source \in Source
    BY <1>4, <1>6 DEF Source
  <1>8. /\ source.seq >= cut /\ source.slack <= L /\ source.start = start /\ source.length = length
        /\ Ends(source) = end
    BY <1>6 DEF Ends
  <1>9. end \in Nat /\ next <= end
    BY <1>1, <1>4
  <1>. HIDE DEF S, n, source, end
  <1>10. /\ grown \in Seq(Source) /\ Len(grown) = n + 1 /\ grown[n + 1] = source
         /\ \A i \in 1..n : grown[i] = S[i]
    BY <1>1, <1>7 DEF n
  <1>11. T \in Nat /\ Total(grown) = T + length
    BY <1>1, <1>7, <1>8, TotalOfAppend DEF T
  <1>12. ASSUME NEW i \in 1..n
         PROVE  Placed(grown, i, now, end, cut)
    <2>. DEFINE behind == Total(SubSeq(S, i + 1, n))
    <2>1. /\ SubSeq(S, i + 1, n) \in Seq(Source)
          /\ SubSeq(grown, i + 1, n + 1) = Append(SubSeq(S, i + 1, n), source)
      BY <1>1, <1>7, BehindOfAppend DEF n
    <2>2. behind \in Nat /\ Total(SubSeq(grown, i + 1, n + 1)) = behind + length
      BY <1>7, <1>8, <2>1, TotalOfAppend
    <2>. HIDE DEF behind
    <2>3. /\ i > 1 => S[i].start >= Ends(S[i - 1])
          /\ S[i].slack <= L /\ S[i].seq >= cut /\ Ends(S[i]) <= next
          /\ next <= Latest(now + L, Ends(S[i])) + behind
      BY <1>1 DEF Placed, L, n, behind
    <2>4. grown[i] = S[i] /\ Ends(S[i]) \in Nat /\ (i > 1 => grown[i - 1] = S[i - 1])
      <3>1. i > 1 => i - 1 \in 1..n
        BY <1>2
      <3>. QED  BY <1>2, <1>10, <3>1, SourceIs
    <2>5. end <= Latest(now + L, Ends(S[i])) + (behind + length)
      <3>. DEFINE e == Ends(S[i])
                  far == Latest(now + L, e)
      <3>0. e \in Nat
        BY <2>4
      <3>. HIDE DEF e
      <3>1. far \in Nat /\ now + L <= far
        BY <1>1, <3>0 DEF Latest
      <3>2. next <= far + behind
        BY <2>3 DEF e
      <3>. HIDE DEF far
      <3>3. start <= far + behind
        BY <1>1, <1>4, <2>2, <3>1, <3>2
      <3>4. end <= far + (behind + length)
        BY <1>4, <2>2, <3>1, <3>3 DEF end
      <3>. QED  BY <3>4 DEF far, e
    <2>6. Ends(S[i]) <= end
      BY <1>1, <1>9, <2>3, <2>4
    <2>. QED  BY <1>10, <2>2, <2>3, <2>4, <2>5, <2>6 DEF Placed, L
  <1>13. Placed(grown, n + 1, now, end, cut)
    <2>1. Total(SubSeq(grown, (n + 1) + 1, n + 1)) = 0
      <3>1. SubSeq(grown, (n + 1) + 1, n + 1) = <<>>
        BY <1>2, <1>10
      <3>. QED  BY <3>1, TotalOfEmpty
    <2>2. end <= Latest(now + L, end) + 0
      BY <1>1, <1>9 DEF Latest
    <2>3. n + 1 > 1 => start >= Ends(grown[(n + 1) - 1])
      <3>1. ASSUME n + 1 > 1
            PROVE  start >= Ends(grown[(n + 1) - 1])
        <4>1. n \in 1..n /\ (n + 1) - 1 = n
          BY <1>2, <3>1
        <4>2. grown[n] = S[n] /\ Ends(S[n]) <= next /\ Ends(S[n]) \in Nat
          BY <1>1, <1>2, <1>10, <4>1, SourceIs DEF Placed, n
        <4>3. start >= Ends(S[n])
          BY <1>1, <1>4, <4>2
        <4>. QED  BY <4>1, <4>2, <4>3
      <3>. QED  BY <3>1
    <2>4. end <= end
      BY <1>9
    <2>. QED  BY <1>8, <1>10, <2>1, <2>2, <2>3, <2>4 DEF Placed, L
  <1>14. end <= now + L + (T + length)
    BY <1>1, <1>3, <1>4 DEF end
  <1>15. \A i \in 1..(n + 1) : i \in 1..n \/ i = n + 1
    BY <1>2
  <1>. DEFINE sp == [speakers EXCEPT !.next = end, !.sources = grown]
  <1>. HIDE DEF grown
  <1>16. sp \in Speakers /\ sp.next = end /\ sp.sources = grown /\ sp.now = now
    BY <1>1, <1>9, <1>10 DEF Speakers, now
  <1>. HIDE DEF sp
  <1>17. Scheduled(sp, cut)
    BY <1>10, <1>11, <1>12, <1>13, <1>14, <1>15, <1>16 DEF Scheduled, L
  <1>. QED  BY <1>5, <1>17 DEF sp, grown

\* onended: the first source has ended.
LEMMA EndedKeeps ==
    ASSUME NEW cut, Scheduled(speakers, cut), speakers.sources /= <<>>,
           Ends(Head(speakers.sources)) <= speakers.now
    PROVE  Scheduled([speakers EXCEPT !.sources = Tail(@)], cut)
  <1>. DEFINE L == LeadSeconds
              now == speakers.now
              next == speakers.next
              S == speakers.sources
              n == Len(S)
              rest == Tail(S)
  <1>1. /\ L \in Nat /\ now \in Nat /\ next \in Nat /\ S \in Seq(Source) /\ speakers \in Speakers
        /\ \A i \in 1..n : Placed(S, i, now, next, cut)
        /\ S /= <<>> /\ Ends(Head(S)) <= now
    BY SessionAssumption DEF Scheduled, Speakers
  <1>2. /\ n \in Nat /\ n >= 1 /\ Head(S) = S[1] /\ rest \in Seq(Source) /\ Len(rest) = n - 1
        /\ \A i \in 1..(n - 1) : rest[i] = S[i + 1]
        /\ \A i \in 1..n : S[i] \in Source
    BY <1>1
  <1>3. /\ rest = SubSeq(S, 2, n)
        /\ \A i \in 1..(n - 1) : SubSeq(rest, i + 1, n - 1) = SubSeq(S, i + 2, n)
    BY <1>1, BehindOfTail
  <1>. HIDE DEF L, now, next, rest, n
  <1>4. ASSUME NEW i \in 1..(n - 1)
        PROVE  Placed(rest, i, now, next, cut)
    <2>1. i + 1 \in 1..n /\ rest[i] = S[i + 1] /\ i + 1 > 1 /\ (i + 1) + 1 = i + 2 /\ (i + 1) - 1 = i
      BY <1>2
    <2>2. Placed(S, i + 1, now, next, cut)
      BY <1>1, <2>1
    <2>3. i > 1 => rest[i - 1] = S[i] /\ S[i + 1].start >= Ends(S[i])
      <3>1. i > 1 => i - 1 \in 1..(n - 1) /\ (i - 1) + 1 = i
        BY <1>2
      <3>. QED  BY <1>2, <2>1, <2>2, <3>1 DEF Placed
    <2>4. SubSeq(rest, i + 1, Len(rest)) = SubSeq(S, (i + 1) + 1, Len(S))
      BY <1>2, <1>3, <2>1 DEF n
    <2>. QED  BY <2>1, <2>2, <2>3, <2>4 DEF Placed
  <1>5. next <= now + L + Total(rest)
    <2>. DEFINE T == Total(rest)
                e == Ends(S[1])
    <2>1. 1 \in 1..n /\ 1 + 1 = 2
      BY <1>2
    <2>2. next <= Latest(now + L, e) + T
      BY <1>1, <1>3, <2>1 DEF Placed, L, n
    <2>3. T \in Nat
      BY <1>2, <2>1, TotalOfAppend
    <2>4. e \in Nat /\ e <= now
      BY <1>1, <1>2, <2>1, SourceIs
    <2>. HIDE DEF T, e
    <2>5. Latest(now + L, e) = now + L
      BY <1>1, <2>4 DEF Latest
    <2>. QED  BY <2>2, <2>5 DEF T
  <1>. DEFINE sp == [speakers EXCEPT !.sources = rest]
  <1>6. sp \in Speakers /\ sp.next = next /\ sp.sources = rest /\ sp.now = now
    BY <1>1, <1>2 DEF Speakers, now, next
  <1>. HIDE DEF sp
  <1>7. Scheduled(sp, cut)
    BY <1>2, <1>4, <1>5, <1>6 DEF Scheduled, L
  <1>. QED  BY <1>7 DEF sp, rest

\* The context's clock.
LEMMA TickKeeps ==
    ASSUME NEW cut, Scheduled(speakers, cut)
    PROVE  Scheduled([speakers EXCEPT !.now = @ + 1], cut)
  <1>. DEFINE L == LeadSeconds
              now == speakers.now
              next == speakers.next
              S == speakers.sources
  <1>1. /\ L \in Nat /\ now \in Nat /\ next \in Nat /\ S \in Seq(Source) /\ speakers \in Speakers
        /\ \A i \in 1..Len(S) : Placed(S, i, now, next, cut)
        /\ next <= now + L + Total(S)
    BY SessionAssumption DEF Scheduled, Speakers
  <1>2. \A i \in 1..Len(S) : S[i] \in Source
    BY <1>1
  <1>. HIDE DEF L, now, next, S
  <1>3. \A e \in Nat : /\ Latest(now + L, e) \in Nat /\ Latest((now + 1) + L, e) \in Nat
                       /\ Latest(now + L, e) <= Latest((now + 1) + L, e)
    BY <1>1 DEF Latest
  <1>4. \A s \in Seq(Source) : Total(s) \in Nat
    <2>. TAKE s \in Seq(Source)
    <2>1. Len(s) \in 0..Len(s)
      OBVIOUS
    <2>. QED  BY <2>1, Additions DEF Adds
  <1>5. ASSUME NEW i \in 1..Len(S)
        PROVE  Placed(S, i, now + 1, next, cut)
    <2>. DEFINE behind == SubSeq(S, i + 1, Len(S))
    <2>1. Placed(S, i, now, next, cut) /\ Ends(S[i]) \in Nat
      BY <1>1, <1>2, SourceIs
    <2>2. behind \in Seq(Source)
      <3>1. i + 1 \in Int /\ Len(S) \in Int /\ \A j \in (i + 1)..Len(S) : S[j] \in Source
        BY <1>1
      <3>. QED  BY <3>1, SubSeqProperties
    <2>3. Total(behind) \in Nat
      BY <1>4, <2>2
    <2>4. next <= Latest(now + L, Ends(S[i])) + Total(behind)
      BY <2>1 DEF Placed, L
    <2>. HIDE DEF behind
    <2>5. next <= Latest((now + 1) + L, Ends(S[i])) + Total(behind)
      <3>1. LET e == Ends(S[i])
            IN  /\ Latest(now + L, e) \in Nat /\ Latest((now + 1) + L, e) \in Nat
                /\ Latest(now + L, e) <= Latest((now + 1) + L, e)
        BY <1>3, <2>1
      <3>2. \A a, b, c, d \in Nat : a <= b /\ d <= a + c => d <= b + c
        OBVIOUS
      <3>. QED  BY <1>1, <2>3, <2>4, <3>1, <3>2
    <2>. QED  BY <2>1, <2>5 DEF Placed, L, behind
  <1>6. next <= (now + 1) + L + Total(S)
    BY <1>1, <1>4
  <1>. DEFINE sp == [speakers EXCEPT !.now = now + 1]
  <1>7. sp \in Speakers /\ sp.next = next /\ sp.sources = S /\ sp.now = now + 1
    <2>. DEFINE then == now + 1
    <2>1. then \in Nat
      BY <1>1
    <2>. HIDE DEF then
    <2>2. sp = [speakers EXCEPT !.now = then]
      BY DEF then
    <2>3. sp \in Speakers /\ sp.next = next /\ sp.sources = S /\ sp.now = then
      BY <1>1, <2>1, <2>2 DEF Speakers, next, S
    <2>. QED  BY <2>3 DEF then
  <1>. HIDE DEF sp
  <1>8. Scheduled(sp, cut)
    BY <1>5, <1>6, <1>7 DEF Scheduled, L
  <1>. QED  BY <1>8 DEF sp, now

-----------------------------------------------------------------------------
(***************************************************************************)
(* What pump_out holds and the link it reads.                              *)
(***************************************************************************)
LEMMA LinksAreShared ==
    /\ \A lane, keep : Retain(lane, keep) = Data!Retain(lane, keep)
    /\ \A lane : Frames(lane) = Data!Frames(lane)
    /\ LinkType = Data!LinkType /\ SysFrame = Data!SysFrame /\ DataFrame = Data!DataFrame
    /\ DataKinds = Data!DataKinds /\ SysKinds = Data!SysKinds
    /\ \A l : /\ PopSys(l) = Data!PopSys(l) /\ PopData(l) = Data!PopData(l)
             /\ DropInbound(l) = Data!DropInbound(l) /\ DropOutbound(l) = Data!DropOutbound(l)
    /\ \A l, kind, ep : /\ SendData(l, kind, ep) = Data!SendData(l, kind, ep)
                       /\ SendSystem(l, kind, ep) = Data!SendSystem(l, kind, ep)
  BY DEF Retain, Data!Retain, Frames, Data!Frames, LinkType, Data!LinkType, SysFrame, Data!SysFrame,
         DataFrame, Data!DataFrame, DataKinds, Data!DataKinds, SysKinds, Data!SysKinds,
         PopSys, Data!PopSys, PopData, Data!PopData, DropInbound, Data!DropInbound,
         DropOutbound, Data!DropOutbound, SendData, Data!SendData, SendSystem, Data!SendSystem

\* The lanes of a link, one frame fewer or one more.
LEMMA LinkEffects ==
    ASSUME NEW l \in LinkType
    PROVE  /\ l.sys \in Seq(SysFrame) /\ l.data \in Seq(DataFrame) /\ l.next \in Nat
           /\ l.sys /= <<>> => /\ PopSys(l) \in LinkType /\ Head(l.sys) \in SysFrame
                              /\ PopSys(l).sys = Tail(l.sys) /\ PopSys(l).data = l.data
                              /\ PopSys(l).next = l.next
           /\ l.data /= <<>> => /\ PopData(l) \in LinkType /\ Head(l.data) \in DataFrame
                               /\ PopData(l).data = Tail(l.data) /\ PopData(l).sys = l.sys
                               /\ PopData(l).next = l.next
           /\ DropInbound(l) \in LinkType /\ DropInbound(l).sys = <<>> /\ DropInbound(l).data = <<>>
           /\ DropInbound(l).next = l.next
           /\ DropOutbound(l) \in LinkType /\ DropOutbound(l).sys = l.sys
           /\ DropOutbound(l).data = l.data /\ DropOutbound(l).next = l.next
  <1>1. /\ l.sys \in Seq(SysFrame) /\ l.data \in Seq(DataFrame) /\ l.next \in Nat
    BY DEF LinkType
  <1>2. /\ PopSys(l).sys = Tail(l.sys) /\ PopSys(l).data = l.data /\ PopSys(l).next = l.next
        /\ PopData(l).data = Tail(l.data) /\ PopData(l).sys = l.sys /\ PopData(l).next = l.next
    BY LinksAreShared, Data!PopEffect
  <1>3. /\ l.sys /= <<>> => PopSys(l) \in LinkType /\ Head(l.sys) \in SysFrame
        /\ l.data /= <<>> => PopData(l) \in LinkType /\ Head(l.data) \in DataFrame
    BY LinksAreShared, Data!PopSysType, Data!PopDataType
  <1>4. DropInbound(l) \in LinkType /\ DropOutbound(l) \in LinkType
    BY LinksAreShared, Data!DropType
  <1>5. /\ DropInbound(l).sys = <<>> /\ DropInbound(l).data = <<>> /\ DropInbound(l).next = l.next
        /\ DropOutbound(l).sys = l.sys /\ DropOutbound(l).data = l.data /\ DropOutbound(l).next = l.next
    BY DEF LinkType, DropInbound, DropOutbound
  <1>. QED  BY <1>1, <1>2, <1>3, <1>4, <1>5

\* A fresh link.
LEMMA TailStarts == SessionInit => TailOK
  <1>. SUFFICES ASSUME SessionInit PROVE TailOK
    OBVIOUS
  <1>1. tail = NewLink /\ out = [pending |-> <<>>, cut |-> 0, over |-> FALSE]
    BY DEF SessionInit
  <1>2. <<>> \in Seq(DataFrame) /\ <<>> \in Seq(SysFrame) /\ DOMAIN <<>> = {}
    OBVIOUS
  <1>3. tail \in LinkType
    BY <1>1, <1>2 DEF NewLink, LinkType
  <1>4. tail.data = <<>> /\ tail.sys = <<>> /\ tail.next = 1
    BY <1>1 DEF NewLink
  <1>5. out \in [pending : Seq(DataFrame), cut : Nat, over : BOOLEAN]
    BY <1>1, <1>2
  <1>. QED  BY <1>1, <1>2, <1>3, <1>4, <1>5 DEF TailOK

\* An Interrupt, stamped seq, is taken.
LEMMA InterruptKeeps ==
    ASSUME NEW seq \in Nat, NEW held \in Seq(DataFrame), NEW lane \in Seq(DataFrame)
    PROVE  LET left == Durables(held) \o FlushedData(lane, seq)
           IN  left \in Seq(DataFrame) /\ \A i \in DOMAIN left : Kept(left[i], seq)
  <1>. DEFINE left == Durables(held) \o FlushedData(lane, seq)
              a == {f \in Frames(held) : SurvivesFlush(f)}
              b == {f \in Frames(lane) : Kept(f, seq)}
  <1>1. Durables(held) \in Seq(DataFrame) /\ Frames(Durables(held)) = Frames(held) \cap a
    <2>1. Retain(held, a) \in Seq(DataFrame) /\ Frames(Retain(held, a)) = Frames(held) \cap a
      <3>. HIDE DEF a
      <3>. QED  BY LinksAreShared, Data!RetainEffect
    <2>. QED  BY <2>1 DEF Durables
  <1>2. FlushedData(lane, seq) \in Seq(DataFrame) /\ Frames(FlushedData(lane, seq)) = Frames(lane) \cap b
    <2>1. Retain(lane, b) \in Seq(DataFrame) /\ Frames(Retain(lane, b)) = Frames(lane) \cap b
      <3>. HIDE DEF b
      <3>. QED  BY LinksAreShared, Data!RetainEffect
    <2>. QED  BY <2>1 DEF FlushedData
  <1>3. left \in Seq(DataFrame) /\ Frames(left) = (Frames(held) \cap a) \cup (Frames(lane) \cap b)
    <2>. DEFINE s == Durables(held)
                t == FlushedData(lane, seq)
    <2>1. s \in Seq(DataFrame) /\ t \in Seq(DataFrame)
      BY <1>1, <1>2
    <2>. HIDE DEF s, t
    <2>2. s \o t \in Seq(DataFrame) /\ Frames(s \o t) = Frames(s) \cup Frames(t)
      BY <2>1, LinksAreShared, Data!FramesOfConcat
    <2>. QED  BY <1>1, <1>2, <2>2 DEF s, t
  <1>4. \A f \in Frames(left) : Kept(f, seq)
    <2>1. \A f \in a : Kept(f, seq)
      BY DEF Kept
    <2>. QED  BY <1>3, <2>1
  <1>. HIDE DEF left
  <1>5. \A i \in DOMAIN left : left[i] \in Frames(left)
    BY <1>3 DEF Frames
  <1>. QED  BY <1>3, <1>4, <1>5 DEF left

\* A frame that pump_out plays is no older than the last Interrupt.
LEMMA PlayKeeps ==
    ASSUME NEW cut \in Nat, Scheduled(speakers, cut), NEW frame \in DataFrame, Kept(frame, cut), Plays(frame)
    PROVE  Scheduled(speakers', cut)
  <1>1. CASE frame.kind = "media"
    <2>1. frame.seq \in Nat /\ frame.seq >= cut
      BY <1>1 DEF DataFrame, Kept, SurvivesFlush
    <2>2. PICK length \in 1..2 : speakers' = Enqueued(frame, length)
      BY <1>1 DEF Plays
    <2>3. length \in Nat
      OBVIOUS
    <2>4. Scheduled(Enqueued(frame, length), cut)
      BY <2>1, <2>3, EnqueuedKeeps
    <2>. QED  BY <2>2, <2>4
  <1>2. CASE frame.kind /= "media"
    <2>1. speakers' = speakers
      BY <1>2 DEF Plays
    <2>. QED  BY <2>1
  <1>. QED  BY <1>1, <1>2

\* pump_out takes a frame.
LEMMA PumpKeeps ==
    ASSUME Scheduled(speakers, out.cut), TailOK, TakesKeeper \/ TakesSystem \/ TakesData
    PROVE  Scheduled(speakers', out.cut') /\ TailOK'
  <1>1. /\ out \in [pending : Seq(DataFrame), cut : Nat, over : BOOLEAN] /\ tail \in LinkType
        /\ \A i \in DOMAIN out.pending : Kept(out.pending[i], out.cut)
        /\ \A i \in DOMAIN tail.data : tail.data[i].seq >= out.cut
        /\ \A i \in DOMAIN tail.sys : tail.sys[i].seq < tail.next
        /\ out.cut < tail.next
    BY DEF TailOK
  <1>2. out.pending \in Seq(DataFrame) /\ out.cut \in Nat
    BY <1>1
  <1>3. /\ tail.sys \in Seq(SysFrame) /\ tail.data \in Seq(DataFrame) /\ tail.next \in Nat
    BY <1>1, LinkEffects
  <1>4. CASE TakesKeeper
    <2>. DEFINE s == out.pending
                rest == Tail(s)
    <2>1. /\ s /= <<>> /\ out' = [out EXCEPT !.pending = rest] /\ Plays(Head(s)) /\ tail' = tail
      BY <1>4 DEF TakesKeeper
    <2>2. /\ rest \in Seq(DataFrame) /\ 1 \in DOMAIN s /\ Head(s) = s[1] /\ Head(s) \in DataFrame
          /\ \A i \in DOMAIN rest : i + 1 \in DOMAIN s /\ rest[i] = s[i + 1]
      BY <1>2, <2>1, TailIs
    <2>3. Kept(Head(s), out.cut)
      BY <1>1, <2>2
    <2>4. Scheduled(speakers', out.cut)
      BY <1>2, <2>1, <2>2, <2>3, PlayKeeps
    <2>5. \A i \in DOMAIN rest : Kept(rest[i], out.cut)
      BY <1>1, <2>2
    <2>. HIDE DEF rest
    <2>6. /\ out' \in [pending : Seq(DataFrame), cut : Nat, over : BOOLEAN]
          /\ out'.pending = rest /\ out'.cut = out.cut
      BY <1>1, <2>1, <2>2
    <2>. QED  BY <1>1, <2>1, <2>4, <2>5, <2>6 DEF TailOK
  <1>5. CASE TakesSystem
    <2>. DEFINE frame == Head(tail.sys)
                left == Durables(out.pending) \o FlushedData(tail.data, frame.seq)
    <2>1. /\ tail.sys /= <<>>
          /\ IF frame.kind = "interrupt"
             THEN /\ speakers' = Cancelled
                  /\ out' = [out EXCEPT !.pending = left, !.cut = frame.seq]
                  /\ tail' = [PopSys(tail) EXCEPT !.data = <<>>]
             ELSE tail' = PopSys(tail) /\ UNCHANGED <<speakers, out>>
      BY <1>5 DEF TakesSystem
    <2>2. /\ 1 \in DOMAIN tail.sys /\ frame = tail.sys[1] /\ frame \in SysFrame
          /\ \A i \in DOMAIN Tail(tail.sys) : i + 1 \in DOMAIN tail.sys /\ Tail(tail.sys)[i] = tail.sys[i + 1]
      BY <1>3, <2>1, TailIs
    <2>3. /\ PopSys(tail) \in LinkType /\ PopSys(tail).sys = Tail(tail.sys)
          /\ PopSys(tail).data = tail.data /\ PopSys(tail).next = tail.next
      BY <1>1, <2>1, LinkEffects
    <2>4. \A i \in DOMAIN Tail(tail.sys) : Tail(tail.sys)[i].seq < tail.next
      BY <1>1, <2>2
    <2>5. CASE frame.kind = "interrupt"
      <3>1. frame.seq \in Nat /\ frame.seq < tail.next
        BY <1>1, <2>2 DEF SysFrame
      <3>2. left \in Seq(DataFrame) /\ \A i \in DOMAIN left : Kept(left[i], frame.seq)
        <4>. DEFINE k == frame.seq
        <4>1. k \in Nat
          BY <3>1
        <4>. HIDE DEF k
        <4>2. LET l == Durables(out.pending) \o FlushedData(tail.data, k)
              IN  l \in Seq(DataFrame) /\ \A i \in DOMAIN l : Kept(l[i], k)
          BY <1>2, <1>3, <4>1, InterruptKeeps
        <4>. QED  BY <4>2 DEF k
      <3>3. /\ tail' = [PopSys(tail) EXCEPT !.data = <<>>] /\ speakers' = Cancelled
            /\ out' = [out EXCEPT !.pending = left, !.cut = frame.seq]
        BY <2>1, <2>5
      <3>. HIDE DEF left, frame
      <3>4. /\ out' \in [pending : Seq(DataFrame), cut : Nat, over : BOOLEAN]
            /\ out'.pending = left /\ out'.cut = frame.seq
        BY <1>1, <3>1, <3>2, <3>3
      <3>5. /\ tail' \in LinkType /\ tail'.sys = Tail(tail.sys) /\ tail'.data = <<>>
            /\ tail'.next = tail.next
        <4>1. <<>> \in Seq(DataFrame)
          OBVIOUS
        <4>. QED  BY <2>3, <3>3, <4>1 DEF LinkType
      <3>6. Scheduled(speakers', out'.cut)
        <4>1. speakers \in Speakers
          BY DEF Scheduled
        <4>2. speakers' = [open |-> speakers.open, now |-> speakers.now, next |-> 0, sources |-> <<>>]
          BY <3>3, <4>1 DEF Cancelled, Speakers
        <4>3. speakers.open \in BOOLEAN /\ speakers.now \in Nat
          BY <4>1 DEF Speakers
        <4>. QED  BY <4>2, <4>3, NothingScheduled
      <3>7. DOMAIN <<>> = {}
        OBVIOUS
      <3>. QED  BY <2>4, <3>1, <3>2, <3>4, <3>5, <3>6, <3>7 DEF TailOK
    <2>6. CASE frame.kind /= "interrupt"
      <3>1. tail' = PopSys(tail) /\ speakers' = speakers /\ out' = out
        BY <2>1, <2>6
      <3>. QED  BY <1>1, <2>3, <2>4, <3>1 DEF TailOK
    <2>. QED  BY <2>5, <2>6
  <1>6. CASE TakesData
    <2>. DEFINE s == tail.data
                rest == Tail(s)
    <2>1. s /= <<>> /\ tail' = PopData(tail) /\ Plays(Head(s)) /\ out' = out
      BY <1>6 DEF TakesData
    <2>2. /\ 1 \in DOMAIN s /\ Head(s) = s[1] /\ Head(s) \in DataFrame
          /\ \A i \in DOMAIN rest : i + 1 \in DOMAIN s /\ rest[i] = s[i + 1]
      BY <1>3, <2>1, TailIs
    <2>3. Kept(Head(s), out.cut)
      BY <1>1, <2>2 DEF Kept
    <2>4. Scheduled(speakers', out.cut)
      BY <1>2, <2>1, <2>2, <2>3, PlayKeeps
    <2>5. /\ tail' \in LinkType /\ tail'.sys = tail.sys /\ tail'.data = rest /\ tail'.next = tail.next
      BY <1>1, <2>1, LinkEffects
    <2>6. \A i \in DOMAIN rest : rest[i].seq >= out.cut
      BY <1>1, <2>2
    <2>. QED  BY <1>1, <2>1, <2>4, <2>5, <2>6 DEF TailOK
  <1>. QED  BY <1>4, <1>5, <1>6

\* The sink is dropped, with the Inbound.
LEMMA SinkDropped ==
    ASSUME Scheduled(speakers, out.cut), TailOK, DropSink
    PROVE  Scheduled(speakers', out.cut') /\ TailOK'
  <1>1. /\ out \in [pending : Seq(DataFrame), cut : Nat, over : BOOLEAN] /\ tail \in LinkType
        /\ out.cut < tail.next /\ speakers \in Speakers
    BY DEF TailOK, Scheduled
  <1>2. /\ speakers' = [Cancelled EXCEPT !.open = FALSE] /\ tail' = DropInbound(tail)
        /\ out' = [out EXCEPT !.pending = <<>>, !.over = TRUE]
    BY DEF DropSink
  <1>3. <<>> \in Seq(DataFrame) /\ DOMAIN <<>> = {}
    OBVIOUS
  <1>4. /\ out' \in [pending : Seq(DataFrame), cut : Nat, over : BOOLEAN]
        /\ out'.pending = <<>> /\ out'.cut = out.cut
    BY <1>1, <1>2, <1>3
  <1>5. /\ tail' \in LinkType /\ tail'.sys = <<>> /\ tail'.data = <<>> /\ tail'.next = tail.next
    BY <1>1, <1>2, LinkEffects
  <1>6. Scheduled(speakers', out'.cut)
    <2>1. speakers' = [open |-> FALSE, now |-> speakers.now, next |-> 0, sources |-> <<>>]
      BY <1>1, <1>2 DEF Cancelled, Speakers
    <2>2. FALSE \in BOOLEAN /\ speakers.now \in Nat
      BY <1>1 DEF Speakers
    <2>. QED  BY <2>1, <2>2, NothingScheduled
  <1>. QED  BY <1>1, <1>3, <1>4, <1>5, <1>6 DEF TailOK

\* The tail stage sends, or leaves.
LEMMA TailStageKeeps ==
    ASSUME TailOK, TailStage
    PROVE  TailOK'
  <1>1. /\ tail \in LinkType /\ out' = out /\ out.cut \in Nat
        /\ \A i \in DOMAIN tail.data : tail.data[i].seq >= out.cut
        /\ \A i \in DOMAIN tail.sys : tail.sys[i].seq < tail.next
        /\ out.cut < tail.next
    BY DEF TailOK, TailStage
  <1>2. /\ tail.sys \in Seq(SysFrame) /\ tail.data \in Seq(DataFrame) /\ tail.next \in Nat
    BY <1>1, LinkEffects
  <1>. DEFINE x == tail.next
  <1>3. /\ x \in Nat /\ x + 1 \in Nat /\ x < x + 1 /\ out.cut <= x /\ out.cut < x + 1
        /\ \A i \in DOMAIN tail.sys : tail.sys[i].seq \in Nat /\ tail.sys[i].seq < x + 1
    <2>1. \A i \in DOMAIN tail.sys : tail.sys[i] \in SysFrame
      BY <1>2
    <2>2. \A i \in DOMAIN tail.sys : tail.sys[i].seq \in Nat
      BY <2>1 DEF SysFrame
    <2>. QED  BY <1>1, <1>2, <2>2
  <1>4. CASE tail' = SendData(tail, "media", 0)
    <2>. DEFINE frame == [seq |-> x, kind |-> "media", ep |-> 0]
    <2>1. "media" \in DataKinds /\ 0 \in Nat
      BY DEF DataKinds
    <2>2. tail' \in LinkType
      BY <1>1, <1>4, <2>1, LinksAreShared, Data!SendDataType
    <2>3. /\ tail'.sys = tail.sys /\ tail'.next = x + 1 /\ frame \in DataFrame
          /\ tail'.data = IF tail.rx THEN Append(tail.data, frame) ELSE tail.data
      BY <1>1, <1>4, <2>1, LinksAreShared, Data!SendDataEffect
    <2>4. frame.seq = x
      OBVIOUS
    <2>. HIDE DEF frame
    <2>5. \A i \in DOMAIN Append(tail.data, frame) :
            (i \in DOMAIN tail.data /\ Append(tail.data, frame)[i] = tail.data[i])
              \/ Append(tail.data, frame)[i] = frame
      BY <1>2, <2>3, AppendIs
    <2>. HIDE DEF x
    <2>6. \A i \in DOMAIN tail'.data : tail'.data[i].seq >= out.cut
      <3>1. ASSUME NEW i \in DOMAIN Append(tail.data, frame)
            PROVE  Append(tail.data, frame)[i].seq >= out.cut
        BY <1>1, <1>3, <2>4, <2>5
      <3>. QED  BY <1>1, <2>3, <3>1
    <2>. QED  BY <1>1, <1>3, <2>2, <2>3, <2>6 DEF TailOK
  <1>5. CASE tail' = SendSystem(tail, "interrupt", 0)
    <2>. DEFINE frame == [seq |-> x, kind |-> "interrupt", ep |-> 0]
    <2>1. "interrupt" \in SysKinds /\ 0 \in Nat
      BY DEF SysKinds
    <2>2. tail' \in LinkType
      BY <1>1, <1>5, <2>1, LinksAreShared, Data!SendSystemType
    <2>3. /\ tail'.data = tail.data /\ tail'.next = x + 1 /\ frame \in SysFrame
          /\ tail'.sys = IF tail.rx THEN Append(tail.sys, frame) ELSE tail.sys
      BY <1>1, <1>5, <2>1, LinksAreShared, Data!SendSystemEffect
    <2>4. frame.seq = x
      OBVIOUS
    <2>. HIDE DEF frame
    <2>5. \A i \in DOMAIN Append(tail.sys, frame) :
            (i \in DOMAIN tail.sys /\ Append(tail.sys, frame)[i] = tail.sys[i])
              \/ Append(tail.sys, frame)[i] = frame
      BY <1>2, <2>3, AppendIs
    <2>. HIDE DEF x
    <2>6. \A i \in DOMAIN tail'.sys : tail'.sys[i].seq < x + 1
      <3>1. ASSUME NEW i \in DOMAIN Append(tail.sys, frame)
            PROVE  Append(tail.sys, frame)[i].seq < x + 1
        BY <1>3, <2>4, <2>5
      <3>. QED  BY <1>3, <2>3, <3>1
    <2>. QED  BY <1>1, <1>3, <2>2, <2>3, <2>6 DEF TailOK
  <1>6. CASE tail' = DropOutbound(tail)
    <2>1. /\ tail' \in LinkType /\ tail'.sys = tail.sys /\ tail'.data = tail.data /\ tail'.next = tail.next
      BY <1>1, <1>6, LinkEffects
    <2>. QED  BY <1>1, <2>1 DEF TailOK
  <1>. QED  BY <1>4, <1>5, <1>6 DEF TailStage

-----------------------------------------------------------------------------
(***************************************************************************)
(* The session.                                                            *)
(***************************************************************************)
LEMMA SessionStart == SessionInit => SessionInv
  <1>. SUFFICES ASSUME SessionInit PROVE SessionInv
    OBVIOUS
  <1>1. speakers = [open |-> FALSE, now |-> 0, next |-> 0, sources |-> <<>>]
    BY DEF SessionInit
  <1>2. Scheduled(speakers, out.cut)
    BY <1>1, NothingScheduled
  <1>. QED  BY <1>2, CaptureStarts, TailStarts DEF SessionInv

\* Each action touches two of the three parts at most.
LEMMA SessionStep == SessionInv /\ [SessionNext]_session => SessionInv'
  <1>. SUFFICES ASSUME SessionInv, [SessionNext]_session PROVE SessionInv'
    OBVIOUS
  <1>0. CaptureOK /\ Scheduled(speakers, out.cut) /\ TailOK
    BY DEF SessionInv
  <1>1. UNCHANGED <<page, mic, inbox>> => CaptureOK'
    BY <1>0 DEF CaptureOK
  <1>2. UNCHANGED <<tail, out>> => TailOK'
    BY <1>0 DEF TailOK
  <1>3. UNCHANGED <<speakers, out>> => Scheduled(speakers', out.cut')
    BY <1>0
  <1>4. DropSink => Scheduled(speakers', out.cut') /\ TailOK'
    BY <1>0, SinkDropped
  <1>5. CASE Starting \/ StartFails \/ Stops \/ RunDropped \/ PipelineEnds
    <2>1. CaptureOK'
      BY <1>0, <1>5, PageKeeps
    <2>2. CASE OpensSpeakers
      <3>1. UNCHANGED <<tail, out>> /\ speakers' = [speakers EXCEPT !.open = TRUE]
        BY <2>2 DEF OpensSpeakers
      <3>2. speakers \in Speakers
        BY <1>0 DEF Scheduled
      <3>3. /\ speakers' \in Speakers /\ speakers'.now = speakers.now /\ speakers'.next = speakers.next
            /\ speakers'.sources = speakers.sources
        BY <3>1, <3>2 DEF Speakers
      <3>4. Scheduled(speakers', out.cut')
        BY <1>0, <3>1, <3>3 DEF Scheduled
      <3>. QED  BY <1>2, <2>1, <3>1, <3>4 DEF SessionInv
    <2>3. CASE UNCHANGED <<speakers, tail, out>> \/ DropSink
      BY <1>2, <1>3, <1>4, <2>1, <2>3 DEF SessionInv
    <2>4. OpensSpeakers \/ UNCHANGED <<speakers, tail, out>> \/ DropSink
      BY <1>5 DEF Starting, StartFails, Stops, RunDropped, PipelineEnds, AsksForMicrophone, GotMedia,
                  Wired, Loaded
    <2>. QED  BY <2>2, <2>3, <2>4
  <1>6. CASE Posts \/ Dispatched \/ SendRefused \/ TakesChunk
    <2>1. UNCHANGED <<speakers, tail, out>>
      BY <1>6 DEF Posts, Dispatched, SendRefused, TakesChunk
    <2>. QED  BY <1>0, <1>2, <1>3, <1>6, <2>1, ChunksKeep DEF SessionInv
  <1>7. CASE TakesKeeper \/ TakesSystem \/ TakesData
    <2>1. UNCHANGED <<page, mic, inbox>>
      BY <1>7 DEF TakesKeeper, TakesSystem, TakesData
    <2>. QED  BY <1>0, <1>1, <1>7, <2>1, PumpKeeps DEF SessionInv
  <1>8. CASE PlayFails \/ PumpEnds
    <2>1. DropSink /\ UNCHANGED <<page, mic, inbox>>
      BY <1>8 DEF PlayFails, PumpEnds
    <2>. QED  BY <1>1, <1>4, <2>1 DEF SessionInv
  <1>9. CASE Ticks
    <2>1. speakers' = [speakers EXCEPT !.now = @ + 1] /\ UNCHANGED <<page, mic, inbox, tail, out>>
      BY <1>9 DEF Ticks
    <2>2. Scheduled(speakers', out.cut')
      BY <1>0, <2>1, TickKeeps
    <2>. QED  BY <1>1, <1>2, <2>1, <2>2 DEF SessionInv
  <1>10. CASE SourceEnds
    <2>1. /\ speakers.sources /= <<>> /\ Ends(Head(speakers.sources)) <= speakers.now
          /\ speakers' = [speakers EXCEPT !.sources = Tail(@)] /\ UNCHANGED <<page, mic, inbox, tail, out>>
      BY <1>10 DEF SourceEnds
    <2>2. Scheduled(speakers', out.cut')
      BY <1>0, <2>1, EndedKeeps
    <2>. QED  BY <1>1, <1>2, <2>1, <2>2 DEF SessionInv
  <1>11. CASE TailStage
    <2>1. UNCHANGED <<page, mic, inbox, speakers, out>>
      BY <1>11 DEF TailStage
    <2>. QED  BY <1>0, <1>1, <1>3, <1>11, <2>1, TailStageKeeps DEF SessionInv
  <1>12. CASE UNCHANGED session
    BY <1>1, <1>2, <1>3, <1>12 DEF session, SessionInv
  <1>. QED  BY <1>5, <1>6, <1>7, <1>8, <1>9, <1>10, <1>11, <1>12 DEF SessionNext, EventLoop

\* What one wants of the three.
LEMMA SessionShows == SessionInv => AudioIsCurrent
  <1>. SUFFICES ASSUME SessionInv PROVE AudioIsCurrent
    OBVIOUS
  <1>1. speakers.sources \in Seq(Source)
    BY DEF SessionInv, Scheduled, Speakers
  <1>2. DOMAIN speakers.sources = 1..Len(speakers.sources)
    BY <1>1
  <1>3. ScheduleIsCurrent
    BY <1>2 DEF SessionInv, Scheduled, Placed, TailOK, ScheduleIsCurrent
  <1>. QED  BY <1>3, CaptureShows DEF SessionInv, AudioIsCurrent

-----------------------------------------------------------------------------
(***************************************************************************)
(* The page: one half of it moves, and the other rests.                    *)
(***************************************************************************)
LEMMA BrowserInvariant == BrowserSpec => []BInv
  <1>1. BrowserInit => BInv
    BY EnginesStart, SessionStart DEF BrowserInit, BInv
  <1>2. BInv /\ [BrowserNext]_browserVars => BInv'
    <2>. SUFFICES ASSUME BInv, [BrowserNext]_browserVars PROVE BInv'
      OBVIOUS
    <2>1. [EnginesNext]_engines /\ [SessionNext]_session
      BY DEF BrowserNext, browserVars
    <2>. QED  BY <2>1, EnginesStep, SessionStep DEF BInv
  <1>. QED  BY <1>1, <1>2, PTL DEF BrowserSpec

\* A reply that LmStage commits is a generation's own, from its first token to its last, however
\* barge-ins fall, and a generation waits for one token of another at most.
THEOREM RepliesStayWhole == BrowserSpec => []RepliesAreWhole
  BY BrowserInvariant, EnginesShow, PTL DEF BInv

\* The clauses that WebTts speaks are the sentence it was given, cut at punctuation, none shorter
\* than MinWords but one that is the sentence; and the silence trimmed from their clips is the
\* silence where they join.
THEOREM ClausesStayWhole == BrowserSpec => []ClausesMakeTheSentence
  BY BrowserInvariant, EnginesShow, PTL DEF BInv

\* What is scheduled to play, or held to be, is no older than the last Interrupt, overlaps with
\* nothing and waits for nothing but what was scheduled before it and the lead; what the microphone
\* posts is taken in order, counted when it is not kept, and never lands in a freed callback.
THEOREM AudioStaysCurrent == BrowserSpec => []AudioIsCurrent
  BY BrowserInvariant, SessionShows, PTL DEF BInv

-----------------------------------------------------------------------------
(***************************************************************************)
(* The ZeroClaw session.                                                   *)
(***************************************************************************)
USE LmAssumption

\* What the actor makes of the messages the daemon sends.
LEMMA Meanings ==
    \A g \in Nat :
        /\ Classified(Message("agent_message_chunk", g)) = "chunk"
        /\ Classified(Message("completed", g)) = "complete"
        /\ Classified(Message("cancelled", g)) = "silence"
        /\ Classified(Message("some_future_outcome", g)) = "failure"
        /\ Classified(Message("response", g)) = "response"
        /\ Classified(Message("error", g)) = "error"
        /\ Classified(Message("closed", g)) = "closed"
        /\ \A m \in Chatter : Classified(m) = "noise" /\ m.gen = 0
  <1>1. /\ DOMAIN Kinds = {"agent_message_chunk", "completed", "cancelled", "failed",
               "some_future_outcome", "tool_call", "tool_result", "agent_thought_chunk",
               "approval_request", "context_usage", "plan", "history_trimmed"}
        /\ Kinds["agent_message_chunk"] = "chunk" /\ Kinds["completed"] = "complete"
        /\ Kinds["cancelled"] = "silence" /\ Kinds["some_future_outcome"] = "failure"
    BY DEF Kinds
  <1>. QED  BY <1>1 DEF Classified, Message, Chatter

\* A message is a piece of speech, an end, an answer, the end of the connection or noise.
LEMMA MeaningTypes ==
    \A m : Classified(m) \in {"response", "error", "closed", "chunk", "complete", "silence",
                             "failure", "noise"}
  <1>1. \A t \in DOMAIN Kinds : Kinds[t] \in {"chunk", "complete", "silence", "failure", "noise"}
    BY DEF Kinds
  <1>. QED  BY <1>1 DEF Classified

-----------------------------------------------------------------------------
(***************************************************************************)
(* What is sent on a stream is of the stream's generation, or Error.       *)
(***************************************************************************)
Own(ss) ==
    /\ ss \in [Gens -> StreamType]
    /\ \A g \in Gens : \A i \in DOMAIN ss[g].items : ss[g].items[i] \in {g, Error}

LEMMA OwnStreams == LmType /\ TextReachesOwnStream => Own(streams)
  BY DEF LmType, TextReachesOwnStream, Own

LEMMA SentOwn ==
    ASSUME NEW ss, Own(ss), NEW g \in Gens, NEW item \in {g, Error}
    PROVE  Own(Sent(ss, g, item))
  <1>. DEFINE items == Append(ss[g].items, item)
              stream == [ss[g] EXCEPT !.items = items]
              longer == [ss EXCEPT ![g] = stream]
  <1>1. ss[g] \in StreamType /\ item \in 0..MaxGens
    BY LmAssumption DEF Own, Gens, Error
  <1>2. /\ items \in Seq(0..MaxGens)
        /\ \A i \in DOMAIN items : items[i] \in {g, Error}
    BY <1>1 DEF Own, StreamType
  <1>. HIDE DEF items
  <1>3. stream \in StreamType /\ stream.items = items
    BY <1>1, <1>2 DEF StreamType
  <1>. HIDE DEF stream
  <1>4. longer \in [Gens -> StreamType]
        /\ \A h \in Gens : longer[h] = IF h = g THEN stream ELSE ss[h]
    BY <1>3 DEF Own
  <1>5. Own(longer)
    BY <1>2, <1>3, <1>4 DEF Own
  <1>6. longer = [ss EXCEPT ![g].items = Append(@, item)]
    BY DEF longer, stream, items
  <1>. QED  BY <1>5, <1>6 DEF Sent

LEMMA ClosedOwn ==
    ASSUME NEW ss, Own(ss), NEW g \in Gens
    PROVE  Own(Closed(ss, g))
  <1>. DEFINE stream == [ss[g] EXCEPT !.ended = TRUE]
              shut == [ss EXCEPT ![g] = stream]
  <1>1. stream \in StreamType /\ stream.items = ss[g].items
    BY DEF Own, StreamType
  <1>. HIDE DEF stream
  <1>2. shut \in [Gens -> StreamType]
        /\ \A h \in Gens : shut[h] = IF h = g THEN stream ELSE ss[h]
    BY <1>1 DEF Own
  <1>3. Own(shut)
    BY <1>1, <1>2 DEF Own
  <1>. QED  BY <1>3 DEF Closed, shut, stream

LEMMA FailedOwn ==
    ASSUME NEW ss, Own(ss), NEW g \in Gens
    PROVE  Own(Failed(ss, g))
  BY SentOwn, ClosedOwn DEF Failed

-----------------------------------------------------------------------------
(***************************************************************************)
(* The caller: generations are asked for in ascending order.               *)
(***************************************************************************)
LEMMA OnWireTypes ==
    LmType => OnWire \subseteq 0..MaxGens
  <1>. SUFFICES ASSUME LmType, NEW w \in OnWire
                PROVE  w \in 0..MaxGens
    OBVIOUS
  <1>1. CASE \E i \in DOMAIN requests : w = requests[i]
    <2>1. PICK i \in DOMAIN requests : w = requests[i]
      BY <1>1
    <2>2. requests \in Seq(0..MaxGens)
      BY DEF LmType
    <2>3. DOMAIN requests = 1..Len(requests) /\ \A j \in 1..Len(requests) : requests[j] \in 0..MaxGens
      BY <2>2
    <2>. QED  BY <2>1, <2>3
  <1>2. CASE \E i \in DOMAIN incoming : w = incoming[i].gen
    <2>1. PICK i \in DOMAIN incoming : w = incoming[i].gen
      BY <1>2
    <2>2. incoming[i] \in MessageType
      BY <2>1 DEF LmType
    <2>. QED  BY <2>1, <2>2 DEF MessageType
  <1>3. CASE w = daemon.gen
    BY <1>3 DEF LmType, DaemonType
  <1>. QED  BY <1>1, <1>2, <1>3 DEF OnWire

\* A command that is newer than all there are joins the queue.
LEMMA CommandJoins ==
    ASSUME LmType, GensInOrder, NEW g \in 0..MaxGens,
           cmds' = Append(cmds, g), actor' = actor, UNCHANGED Wire,
           handle'.gens \in Nat, handle.gens <= handle'.gens,
           g # 0 => handle.gens < g, g <= handle'.gens
    PROVE  GensInOrder'
  <1>1. OnWire' = OnWire /\ OnWire \subseteq 0..MaxGens
    BY OnWireTypes DEF OnWire, Wire
  <1>2. /\ cmds \in Seq(0..MaxGens) /\ actor.gen \in Nat /\ actor.queued \in Nat
        /\ handle.gens \in Nat /\ MaxGens \in Nat /\ \A w \in OnWire : w \in Nat
    BY <1>1, LmAssumption DEF LmType, ActorType, HandleType
  <1>3. /\ Len(cmds') = Len(cmds) + 1 /\ cmds'[Len(cmds) + 1] = g
        /\ \A i \in 1..Len(cmds) : cmds'[i] = cmds[i] /\ cmds[i] \in Nat
        /\ DOMAIN cmds = 1..Len(cmds) /\ DOMAIN cmds' = 1..(Len(cmds) + 1) /\ Len(cmds) \in Nat
    BY <1>2
  <1>4. ASSUME NEW i \in DOMAIN cmds'
        PROVE  /\ cmds'[i] <= handle'.gens
               /\ cmds'[i] # 0 => /\ \A j \in 1..(i - 1) : cmds'[j] < cmds'[i]
                                 /\ actor.gen < cmds'[i] /\ actor.queued < cmds'[i]
                                 /\ \A w \in OnWire : w < cmds'[i]
    <2>1. CASE i \in 1..Len(cmds)
      BY <1>2, <1>3, <2>1 DEF GensInOrder
    <2>2. CASE i = Len(cmds) + 1
      <3>1. \A j \in 1..(i - 1) : cmds'[j] <= handle.gens /\ cmds'[j] \in Nat
        BY <1>2, <1>3, <2>2 DEF GensInOrder
      <3>2. actor.gen <= handle.gens /\ actor.queued <= handle.gens /\ \A w \in OnWire : w <= handle.gens
        BY DEF GensInOrder
      <3>. QED  BY <1>2, <1>3, <2>2, <3>1, <3>2
    <2>. QED  BY <1>3, <2>1, <2>2
  <1>5. /\ actor.gen <= handle'.gens /\ actor.queued <= handle'.gens
        /\ \A w \in OnWire : w <= handle'.gens
    BY <1>2 DEF GensInOrder
  <1>. QED  BY <1>1, <1>4, <1>5 DEF GensInOrder

LEMMA WireStays ==
    ASSUME WireIsTheTurns, actor' = actor, UNCHANGED Wire
    PROVE  WireIsTheTurns'
  BY DEF WireIsTheTurns, WireIsQuiet, PromptIsTheTurns, AnswerIsTheTurns, Wire, DaemonRests

\* However the caller's side moves on without a new generation, it keeps its type.
LEMMA HandleMoves ==
    ASSUME handle \in HandleType,
           ConnectVanishes \/ StreamEnds \/ CancelRaises \/ CancelTells \/ Drop
    PROVE  handle' \in HandleType /\ handle'.gens = handle.gens
  <1>1. CASE handle' = [handle EXCEPT !.pc = "vanished"]
    BY ONLY <1>1, handle \in HandleType DEF HandleType
  <1>2. CASE handle' = [handle EXCEPT !.stream = 0]
    BY ONLY <1>2, handle \in HandleType, MaxGens \in Nat DEF HandleType
  <1>3. CASE handle' = [handle EXCEPT !.pc = "cancel", !.stream = 0]
    <2>. DEFINE told == [handle EXCEPT !.pc = "cancel"]
    <2>1. told \in HandleType /\ told.gens = handle.gens
      BY ONLY handle \in HandleType DEF HandleType
    <2>2. handle' = [told EXCEPT !.stream = 0]
      BY <1>3
    <2>. HIDE DEF told
    <2>. QED  BY ONLY <2>1, <2>2, MaxGens \in Nat DEF HandleType
  <1>4. CASE handle' = [handle EXCEPT !.pc = "idle"]
    BY ONLY <1>4, handle \in HandleType DEF HandleType
  <1>5. CASE handle' = [handle EXCEPT !.pc = "dropped"]
    BY ONLY <1>5, handle \in HandleType DEF HandleType
  <1>. QED  BY <1>1, <1>2, <1>3, <1>4, <1>5
            DEF ConnectVanishes, StreamEnds, CancelRaises, CancelTells, Drop

LEMMA HandleKeeps ==
    ASSUME TurnsInv, Handle
    PROVE  TurnsInv'
  <1>. USE DEF TurnsInv
  <1>1. /\ LmType /\ Own(streams) /\ MaxGens \in Nat
        /\ handle \in HandleType /\ epoch \in Nat /\ cmds \in Seq(0..MaxGens)
        /\ handle.gens \in 0..MaxGens /\ handle.stream \in 0..MaxGens
    BY OwnStreams, LmAssumption DEF LmType, HandleType, TurnsAreKeptApart
  <1>2. CASE UNCHANGED <<cmds, streams>> /\ handle'.gens = handle.gens
    <2>1. actor' = actor /\ UNCHANGED Wire /\ epoch' \in Nat
      BY <1>1 DEF Handle, ConnectVanishes, Generate, StreamEnds, CancelRaises, CancelTells, Drop, LmType
    <2>2. handle' \in HandleType
      <3>1. CASE Generate
        BY <1>1, <1>2, <3>1 DEF Generate, HandleType
      <3>. QED  BY <1>1, <3>1, HandleMoves DEF Handle
    <2>3. LmType'
      BY <1>1, <1>2, <2>1, <2>2 DEF LmType, Wire
    <2>4. GensInOrder'
      BY <1>2, <2>1 DEF GensInOrder, OnWire, Wire
    <2>. QED  BY <1>2, <2>1, <2>3, <2>4, WireStays DEF TurnsAreKeptApart, TextReachesOwnStream, OnePromptAtATime, Wire
  <1>3. CASE Generate
    <2>. DEFINE g == handle.gens + 1
                stream == [NoStream EXCEPT !.epoch = epoch, !.alive = TRUE]
    <2>1. /\ g \in Gens /\ handle' = [handle EXCEPT !.stream = g, !.gens = g]
          /\ streams' = [streams EXCEPT ![g] = stream]
          /\ cmds' = Append(cmds, g) /\ actor' = actor /\ UNCHANGED <<epoch, Wire>>
      BY <1>1, <1>3 DEF Generate, Gens
    <2>2. stream \in StreamType /\ stream.items = <<>>
      <3>1. NoStream \in StreamType /\ NoStream.items = <<>>
        BY DEF NoStream, StreamType
      <3>. QED  BY <1>1, <3>1 DEF StreamType
    <2>. HIDE DEF stream
    <2>3. streams' \in [Gens -> StreamType]
          /\ \A h \in Gens : streams'[h] = IF h = g THEN stream ELSE streams[h]
      BY <1>1, <2>1, <2>2 DEF Own
    <2>4. Own(streams')
      BY <1>1, <2>2, <2>3 DEF Own
    <2>5. LmType'
      <3>1. handle' \in HandleType
        <4>1. g \in 0..MaxGens
          BY <1>1, <2>1 DEF Gens
        <4>. HIDE DEF g
        <4>. QED  BY ONLY <1>1, <2>1, <4>1 DEF HandleType
      <3>2. cmds' \in Seq(0..MaxGens)
        BY <1>1, <2>1 DEF Gens
      <3>. QED  BY <1>1, <2>1, <2>3, <3>1, <3>2 DEF LmType, Wire
    <2>6. GensInOrder'
      <3>1. handle'.gens = g /\ g \in Nat /\ g \in 0..MaxGens /\ handle.gens < g
        BY <1>1, <2>1 DEF Gens, HandleType
      <3>. QED  BY <1>1, <2>1, <3>1, CommandJoins
    <2>. QED  BY <2>1, <2>4, <2>5, <2>6, WireStays
              DEF TurnsAreKeptApart, TextReachesOwnStream, OnePromptAtATime, Wire, Own
  <1>4. CASE CancelRaises
    <2>1. handle.stream # 0 => handle.stream \in Gens
      BY <1>1 DEF Gens
    <2>2. Own(streams')
      <3>1. CASE handle.stream = 0
        BY <1>1, <1>4, <3>1 DEF CancelRaises
      <3>2. CASE handle.stream # 0
        <4>. DEFINE stream == [streams[handle.stream] EXCEPT !.alive = FALSE]
        <4>1. stream \in StreamType /\ stream.items = streams[handle.stream].items
          BY <1>1, <2>1, <3>2 DEF Own, StreamType
        <4>2. streams' = [streams EXCEPT ![handle.stream] = stream]
          BY <1>4, <3>2 DEF CancelRaises
        <4>. HIDE DEF stream
        <4>3. streams' \in [Gens -> StreamType]
              /\ \A h \in Gens : streams'[h] = IF h = handle.stream THEN stream ELSE streams[h]
          BY <1>1, <4>1, <4>2 DEF Own
        <4>. QED  BY <1>1, <4>1, <4>3 DEF Own
      <3>. QED  BY <3>1, <3>2
    <2>3. /\ cmds' = cmds /\ actor' = actor /\ UNCHANGED Wire /\ epoch' \in Nat
          /\ handle' \in HandleType
          /\ handle'.gens = handle.gens
      BY <1>1, <1>4, HandleMoves DEF CancelRaises, Wire
    <2>4. LmType'
      BY <1>1, <2>2, <2>3 DEF LmType, Wire, Own
    <2>5. GensInOrder'
      BY <2>3 DEF GensInOrder, OnWire, Wire
    <2>. QED  BY <2>2, <2>3, <2>4, <2>5, WireStays
              DEF TurnsAreKeptApart, TextReachesOwnStream, OnePromptAtATime, Wire, Own
  <1>5. CASE Drop
    <2>1. /\ cmds' = Append(cmds, 0) /\ actor' = actor /\ UNCHANGED <<streams, Wire>> /\ epoch' \in Nat
          /\ handle' \in HandleType
          /\ handle'.gens = handle.gens /\ 0 \in 0..MaxGens
      BY <1>1, <1>5, HandleMoves DEF Drop, Wire
    <2>2. LmType'
      BY <1>1, <2>1 DEF LmType, Wire
    <2>3. GensInOrder'
      BY <1>1, <2>1, CommandJoins
    <2>. QED  BY <2>1, <2>2, <2>3, WireStays
              DEF TurnsAreKeptApart, TextReachesOwnStream, OnePromptAtATime, Wire
  <1>6. ConnectVanishes \/ StreamEnds \/ CancelTells => UNCHANGED <<cmds, streams>> /\ handle'.gens = handle.gens
    BY <1>1, HandleMoves DEF ConnectVanishes, StreamEnds, CancelTells
  <1>. QED  BY <1>2, <1>3, <1>4, <1>5, <1>6 DEF Handle

-----------------------------------------------------------------------------
(***************************************************************************)
(* The order of the generations, when the actor or the daemon moves.       *)
(***************************************************************************)
LEMMA AtRestType ==
    /\ AtRest \in ActorType
    /\ AtRest.pc = "idle" /\ AtRest.gen = 0 /\ AtRest.queued = 0 /\ AtRest.fallback = FALSE
  BY DEF AtRest, ActorType, Turning, Between

LEMMA Numbers ==
    ASSUME LmType
    PROVE  /\ cmds \in Seq(0..MaxGens) /\ Len(cmds) \in Nat /\ DOMAIN cmds = 1..Len(cmds)
           /\ \A i \in 1..Len(cmds) : cmds[i] \in 0..MaxGens /\ cmds[i] \in Nat
           /\ actor.gen \in 0..MaxGens /\ actor.queued \in 0..MaxGens
           /\ handle.gens \in 0..MaxGens
           /\ OnWire \subseteq 0..MaxGens /\ \A w \in OnWire : w \in Nat
  <1>1. /\ cmds \in Seq(0..MaxGens) /\ actor \in ActorType /\ handle \in HandleType
        /\ OnWire \subseteq 0..MaxGens
    BY OnWireTypes DEF LmType
  <1>2. actor.gen \in 0..MaxGens /\ actor.queued \in 0..MaxGens /\ handle.gens \in 0..MaxGens
    BY <1>1 DEF ActorType, HandleType
  <1>. QED  BY <1>1, <1>2

\* No command is taken; nothing new is on the wire but what the turn in hand sends.
LEMMA OrderKept ==
    ASSUME LmType, GensInOrder,
           cmds' = cmds, handle'.gens = handle.gens,
           OnWire' \subseteq OnWire \cup {0, actor.gen},
           actor'.gen \in {0, actor.gen}, actor'.queued \in {0, actor.queued},
           actor'.pc \in Turning => actor'.gen = actor.gen /\ actor.gen # 0,
           actor'.pc \in {"check", "mark", "prompt"} =>
               actor.pc \in {"check", "mark", "prompt"} /\ OnWire' \subseteq OnWire \cup {0}
    PROVE  GensInOrder'
  <1>1. /\ DOMAIN cmds = 1..Len(cmds) /\ Len(cmds) \in Nat
        /\ \A i \in 1..Len(cmds) : cmds[i] \in Nat
        /\ actor.gen \in Nat /\ actor.queued \in Nat /\ handle.gens \in Nat
        /\ \A w \in OnWire : w \in Nat
    BY Numbers
  <1>2. ASSUME NEW i \in DOMAIN cmds'
        PROVE  /\ cmds'[i] <= handle'.gens
               /\ cmds'[i] # 0 => /\ \A j \in 1..(i - 1) : cmds'[j] < cmds'[i]
                                 /\ actor'.gen < cmds'[i] /\ actor'.queued < cmds'[i]
                                 /\ \A w \in OnWire' : w < cmds'[i]
    <2>1. /\ cmds[i] <= handle.gens /\ cmds[i] \in Nat
          /\ cmds[i] # 0 => /\ \A j \in 1..(i - 1) : cmds[j] < cmds[i]
                           /\ actor.gen < cmds[i] /\ actor.queued < cmds[i]
                           /\ \A w \in OnWire : w < cmds[i]
      BY <1>1 DEF GensInOrder
    <2>. QED  BY <1>1, <2>1
  <1>3. actor'.queued # 0 => actor'.gen < actor'.queued /\ \A w \in OnWire' : w < actor'.queued
    BY <1>1 DEF GensInOrder
  <1>4. actor'.pc \in {"check", "mark", "prompt"} => \A w \in OnWire' : w < actor'.gen
    BY <1>1 DEF GensInOrder, Turning
  <1>5. /\ actor'.gen <= handle'.gens /\ actor'.queued <= handle'.gens
        /\ \A w \in OnWire' : w <= handle'.gens
    BY <1>1 DEF GensInOrder
  <1>. QED  BY <1>2, <1>3, <1>4, <1>5 DEF GensInOrder

\* The oldest command is taken, to run next or to be queued.
LEMMA OrderTaken ==
    ASSUME LmType, GensInOrder, cmds # <<>>,
           cmds' = Tail(cmds), handle'.gens = handle.gens, OnWire' = OnWire,
           actor'.gen \in {0, actor.gen, Head(cmds)},
           actor'.queued \in {0, actor.queued, Head(cmds)},
           actor'.queued # 0 => actor'.queued = Head(cmds) \/ actor'.gen = actor.gen,
           actor'.queued = Head(cmds) => actor'.gen \in {0, actor.gen},
           actor'.pc \in Turning => actor'.gen # 0,
           actor'.pc \in {"check", "mark", "prompt"} => actor'.gen = Head(cmds)
    PROVE  GensInOrder'
  <1>1. /\ cmds \in Seq(0..MaxGens) /\ DOMAIN cmds = 1..Len(cmds) /\ Len(cmds) \in Nat
        /\ \A i \in 1..Len(cmds) : cmds[i] \in Nat
        /\ actor.gen \in Nat /\ actor.queued \in Nat /\ handle.gens \in Nat
        /\ \A w \in OnWire : w \in Nat
    BY Numbers
  <1>2. /\ Len(cmds) >= 1 /\ Head(cmds) = cmds[1] /\ DOMAIN cmds' = 1..(Len(cmds) - 1)
        /\ \A i \in 1..(Len(cmds) - 1) : cmds'[i] = cmds[i + 1]
    BY <1>1
  <1>3. /\ \A i \in 1..Len(cmds) :
             /\ cmds[i] <= handle.gens
             /\ cmds[i] # 0 => /\ \A j \in 1..(i - 1) : cmds[j] < cmds[i]
                              /\ actor.gen < cmds[i] /\ actor.queued < cmds[i]
                              /\ \A w \in OnWire : w < cmds[i]
    BY <1>1 DEF GensInOrder
  <1>4. /\ cmds[1] \in Nat /\ cmds[1] <= handle.gens
        /\ cmds[1] # 0 => actor.gen < cmds[1] /\ \A w \in OnWire : w < cmds[1]
    BY <1>1, <1>2, <1>3
  <1>5. ASSUME NEW i \in DOMAIN cmds'
        PROVE  /\ cmds'[i] <= handle'.gens
               /\ cmds'[i] # 0 => /\ \A j \in 1..(i - 1) : cmds'[j] < cmds'[i]
                                 /\ actor'.gen < cmds'[i] /\ actor'.queued < cmds'[i]
                                 /\ \A w \in OnWire' : w < cmds'[i]
    <2>1. i \in 1..(Len(cmds) - 1) /\ i + 1 \in 1..Len(cmds) /\ cmds'[i] = cmds[i + 1] /\ cmds[i + 1] \in Nat
      BY <1>1, <1>2
    <2>2. ASSUME NEW j \in 1..(i - 1)
          PROVE  cmds'[j] = cmds[j + 1] /\ j + 1 \in 1..((i + 1) - 1)
      <3>1. j \in 1..(Len(cmds) - 1) /\ j + 1 \in 1..((i + 1) - 1)
        BY ONLY <2>1, Len(cmds) \in Nat, <1>1
      <3>. QED  BY <1>2, <3>1
    <2>3. /\ cmds[i + 1] <= handle.gens
          /\ cmds[i + 1] # 0 => /\ \A j \in 1..((i + 1) - 1) : cmds[j] < cmds[i + 1]
                               /\ actor.gen < cmds[i + 1] /\ actor.queued < cmds[i + 1]
                               /\ \A w \in OnWire : w < cmds[i + 1]
      BY <1>3, <2>1
    <2>4. i \in Nat /\ i >= 1 /\ 1 \in 1..((i + 1) - 1)
      BY <1>1, <2>1
    <2>5. cmds[i + 1] # 0 => cmds[1] < cmds[i + 1] /\ 0 < cmds[i + 1]
      BY <1>4, <2>1, <2>3, <2>4
    <2>. QED  BY <1>2, <2>1, <2>2, <2>3, <2>5
  <1>6. actor'.queued # 0 => actor'.gen < actor'.queued /\ \A w \in OnWire' : w < actor'.queued
    BY <1>1, <1>2, <1>4 DEF GensInOrder
  <1>7. actor'.pc \in {"check", "mark", "prompt"} => \A w \in OnWire' : w < actor'.gen
    BY <1>2, <1>4 DEF Turning
  <1>8. /\ actor'.gen <= handle'.gens /\ actor'.queued <= handle'.gens
        /\ \A w \in OnWire' : w <= handle'.gens
    BY <1>1, <1>2, <1>4 DEF GensInOrder
  <1>. QED  BY <1>5, <1>6, <1>7, <1>8 DEF GensInOrder

-----------------------------------------------------------------------------
(***************************************************************************)
(* The actor between two turns.                                            *)
(***************************************************************************)
\* It moves on and leaves the wire alone.
LEMMA BetweenKeeps ==
    ASSUME TurnsInv, actor' \in ActorType, actor.pc \in Between, actor'.pc # "loop",
           handle' \in HandleType, handle'.gens = handle.gens,
           UNCHANGED <<epoch, cmds, streams, requests, incoming, daemon, overlap>>,
           actor'.gen \in {0, actor.gen}, actor'.queued \in {0, actor.queued},
           actor'.pc \in Turning => actor'.gen = actor.gen /\ actor.pc \in Turning,
           actor'.pc \in {"check", "mark", "prompt"} =>
               actor.pc \in {"check", "mark", "prompt"} /\ actor'.fallback = actor.fallback
    PROVE  TurnsInv'
  <1>1. LmType'
    BY DEF TurnsInv, LmType
  <1>2. OnWire' = OnWire
    BY DEF OnWire
  <1>3. actor.pc \in Turning => actor.gen # 0
    BY DEF TurnsInv, GensInOrder
  <1>4. GensInOrder'
    BY <1>2, <1>3, OrderKept DEF TurnsInv
  <1>5. WireIsTheTurns'
    BY DEF TurnsInv, WireIsTheTurns, WireIsQuiet, PromptIsTheTurns, AnswerIsTheTurns, DaemonRests
  <1>. QED  BY <1>1, <1>4, <1>5 DEF TurnsInv, TurnsAreKeptApart, TextReachesOwnStream, OnePromptAtATime

LEMMA EstablishingKeeps ==
    ASSUME TurnsInv, Establishing
    PROVE  TurnsInv'
  <1>1. actor \in ActorType /\ handle \in HandleType
    BY DEF TurnsInv, LmType
  <1>2. /\ actor.pc \in {"dial", "down", "initialize", "attach"}
        /\ UNCHANGED <<epoch, cmds, streams, requests, incoming, daemon, overlap>>
    BY DEF Establishing, Dials, Initializes, Attaches, EstablishFails, Wire
  <1>3. handle' \in HandleType /\ handle'.gens = handle.gens
    <2>1. CASE handle' = handle
      BY <1>1, <2>1
    <2>2. CASE handle' = [handle EXCEPT !.pc = "idle"]
      BY ONLY <1>1, <2>2 DEF HandleType
    <2>3. CASE handle' = [handle EXCEPT !.pc = "vanished"]
      BY ONLY <1>1, <2>3 DEF HandleType
    <2>. QED  BY <2>1, <2>2, <2>3 DEF Establishing, Dials, Initializes, Attaches, EstablishFails
  <1>4. /\ actor' \in ActorType /\ actor'.pc \in {"initialize", "attach", "idle", "down", "exit"}
        /\ actor'.gen \in {0, actor.gen} /\ actor'.queued \in {0, actor.queued}
    <2>1. CASE actor' = [AtRest EXCEPT !.pc = "initialize"]
      BY ONLY <2>1, AtRestType DEF ActorType, Turning, Between
    <2>2. CASE actor' = [actor EXCEPT !.pc = "attach"]
      BY ONLY <1>1, <2>2 DEF ActorType, Turning, Between
    <2>3. CASE actor' = [AtRest EXCEPT !.pc = "exit"]
      BY ONLY <2>3, AtRestType DEF ActorType, Turning, Between
    <2>4. CASE actor' = [AtRest EXCEPT !.pc = "down"]
      BY ONLY <2>4, AtRestType DEF ActorType, Turning, Between
    <2>5. CASE actor' = AtRest
      BY <2>5, AtRestType
    <2>. QED  BY <2>1, <2>2, <2>3, <2>4, <2>5 DEF Establishing, Dials, Initializes, Attaches, EstablishFails
  <1>. QED  BY <1>2, <1>3, <1>4, BetweenKeeps DEF Between, Turning

\* A cancel that finds no turn; the two looks of turn.
LEMMA LooksKeep ==
    ASSUME TurnsInv, IdleCancel \/ TurnChecks \/ TurnMarks
    PROVE  TurnsInv'
  <1>1. actor \in ActorType /\ handle \in HandleType
    BY DEF TurnsInv, LmType
  <1>2. /\ actor.pc \in {"idle", "check", "mark"} /\ handle' = handle
        /\ UNCHANGED <<epoch, cmds, streams, requests, incoming, daemon, overlap>>
    BY DEF IdleCancel, TurnChecks, TurnMarks, Wire
  <1>3. CASE actor' = actor
    BY <1>1, <1>2, <1>3, BetweenKeeps DEF Between, Turning
  <1>4. CASE actor.pc = "check" /\ \E pc \in {"mark", "done"} : actor' = [actor EXCEPT !.pc = pc]
    <2>1. actor' \in ActorType /\ actor'.pc \in {"mark", "done"} /\ actor'.gen = actor.gen /\ actor'.queued = actor.queued /\ actor'.fallback = actor.fallback
      BY ONLY <1>1, <1>4 DEF ActorType, Turning, Between
    <2>. QED  BY <1>1, <1>2, <1>4, <2>1, BetweenKeeps DEF Between, Turning
  <1>5. CASE actor.pc = "mark" /\ actor' = [actor EXCEPT !.pc = "prompt"]
    <2>1. actor' \in ActorType /\ actor'.pc = "prompt" /\ actor'.gen = actor.gen /\ actor'.queued = actor.queued /\ actor'.fallback = actor.fallback
      BY ONLY <1>1, <1>5 DEF ActorType, Turning, Between
    <2>. QED  BY <1>1, <1>2, <1>5, <2>1, BetweenKeeps DEF Between, Turning
  <1>. QED  BY <1>3, <1>4, <1>5 DEF IdleCancel, TurnChecks, TurnMarks

\* A message is taken from what the daemon has sent.
LEMMA MessageTaken ==
    ASSUME LmType, incoming # <<>>, incoming' = Tail(incoming), requests' = requests, daemon' = daemon
    PROVE  /\ OnWire' \subseteq OnWire /\ incoming' \in Seq(MessageType)
           /\ DOMAIN incoming = 1..Len(incoming) /\ DOMAIN incoming' = 1..Len(incoming')
           /\ Len(incoming) \in Nat /\ Len(incoming') = Len(incoming) - 1 /\ Len(incoming) >= 1
           /\ Head(incoming) = incoming[1] /\ incoming[1] \in MessageType
           /\ \A i \in 1..Len(incoming') : i + 1 \in 1..Len(incoming) /\ incoming'[i] = incoming[i + 1]
  <1>1. incoming \in Seq(MessageType)
    BY DEF LmType
  <1>2. /\ incoming' \in Seq(MessageType)
        /\ DOMAIN incoming = 1..Len(incoming) /\ DOMAIN incoming' = 1..Len(incoming')
        /\ Len(incoming) \in Nat /\ Len(incoming') = Len(incoming) - 1 /\ Len(incoming) >= 1
        /\ Head(incoming) = incoming[1] /\ incoming[1] \in MessageType
        /\ \A i \in 1..Len(incoming') : i + 1 \in 1..Len(incoming) /\ incoming'[i] = incoming[i + 1]
    BY <1>1
  <1>3. OnWire' \subseteq OnWire
    BY <1>2 DEF OnWire
  <1>. QED  BY <1>2, <1>3

\* The connection is given up with whatever it still holds.
LEMMA WireCut ==
    ASSUME Disconnected
    PROVE  /\ OnWire' = {0} /\ DaemonRests' /\ DOMAIN incoming' = {} /\ DOMAIN requests' = {}
           /\ requests' \in Seq(0..MaxGens) /\ incoming' \in Seq(MessageType) /\ daemon' \in DaemonType
           /\ overlap' = overlap
  <1>1. requests' = <<>> /\ incoming' = <<>> /\ daemon' = NoTurn /\ overlap' = overlap
    BY DEF Disconnected
  <1>2. NoTurn.gen = 0 /\ NoTurn \in DaemonType
    BY DEF NoTurn, DaemonType
  <1>3. DOMAIN <<>> = {}
    OBVIOUS
  <1>. QED  BY <1>1, <1>2, <1>3 DEF OnWire, DaemonRests

LEMMA IdleIncomingKeeps ==
    ASSUME TurnsInv, IdleIncoming
    PROVE  TurnsInv'
  <1>1. /\ actor.pc = "idle" /\ cmds' = cmds /\ incoming # <<>>
        /\ UNCHANGED <<epoch, handle, streams>>
        /\ actor \in ActorType /\ LmType /\ GensInOrder /\ WireIsTheTurns
    BY DEF IdleIncoming, TurnsInv, LmType
  <1>2. CASE actor' = [AtRest EXCEPT !.pc = "down"] /\ Disconnected
    <2>1. actor' \in ActorType /\ actor'.pc = "down" /\ actor'.gen = 0 /\ actor'.queued = 0
      BY ONLY <1>2, AtRestType DEF ActorType, Turning, Between
    <2>2. LmType'
      BY <1>1, <1>2, <2>1, WireCut DEF LmType
    <2>3. GensInOrder'
      BY <1>1, <1>2, <2>1, WireCut, OrderKept DEF Turning
    <2>4. WireIsTheTurns'
      BY <1>2, <2>1, WireCut DEF WireIsTheTurns, WireIsQuiet, PromptIsTheTurns, AnswerIsTheTurns
    <2>. QED  BY <1>1, <1>2, <2>2, <2>3, <2>4, WireCut
              DEF TurnsInv, TurnsAreKeptApart, TextReachesOwnStream, OnePromptAtATime
  <1>3. CASE incoming' = Tail(incoming) /\ UNCHANGED <<actor, requests, daemon, drops, overlap>>
    <2>1. LmType'
      BY <1>1, <1>3, MessageTaken DEF LmType
    <2>2. GensInOrder'
      BY <1>1, <1>3, MessageTaken, OrderKept DEF Turning
    <2>3. DaemonRests /\ \A i \in DOMAIN incoming : ~Speech(incoming[i])
      BY <1>1 DEF WireIsTheTurns, WireIsQuiet, PromptIsTheTurns, AnswerIsTheTurns, Between
    <2>4. DaemonRests' /\ \A i \in DOMAIN incoming' : ~Speech(incoming'[i])
      BY <1>1, <1>3, <2>3, MessageTaken DEF DaemonRests
    <2>5. WireIsTheTurns'
      BY <1>1, <1>3, <2>4 DEF WireIsTheTurns, WireIsQuiet, PromptIsTheTurns, AnswerIsTheTurns
    <2>. QED  BY <1>1, <1>3, <2>1, <2>2, <2>5
              DEF TurnsInv, TurnsAreKeptApart, TextReachesOwnStream, OnePromptAtATime
  <1>. QED  BY <1>2, <1>3 DEF IdleIncoming

\* What a step leaves to show once the actor, the commands and the wire have been looked at.
LEMMA TurnsKept ==
    ASSUME TurnsInv, handle' = handle, epoch' = epoch, Own(streams'), overlap' => overlap,
           actor' \in ActorType, cmds' \in Seq(0..MaxGens),
           requests' \in Seq(0..MaxGens), incoming' \in Seq(MessageType), daemon' \in DaemonType,
           GensInOrder', WireIsTheTurns'
    PROVE  TurnsInv'
  <1>1. LmType'
    BY DEF TurnsInv, LmType, Own
  <1>2. TurnsAreKeptApart'
    BY DEF TurnsInv, TurnsAreKeptApart, TextReachesOwnStream, OnePromptAtATime, Own
  <1>. QED  BY <1>1, <1>2 DEF TurnsInv

LEMMA Facts ==
    ASSUME TurnsInv
    PROVE  /\ LmType /\ GensInOrder /\ WireIsTheTurns /\ Own(streams) /\ ~overlap
           /\ actor \in ActorType /\ cmds \in Seq(0..MaxGens) /\ handle \in HandleType
           /\ requests \in Seq(0..MaxGens) /\ incoming \in Seq(MessageType) /\ daemon \in DaemonType
  BY OwnStreams DEF TurnsInv, LmType, TurnsAreKeptApart, OnePromptAtATime

LEMMA TakeCommandKeeps ==
    ASSUME TurnsInv, TakeCommand
    PROVE  TurnsInv'
  <1>. USE Facts
  <1>1. /\ actor.pc \in {"idle", "down"} /\ cmds # <<>> /\ cmds' = Tail(cmds)
        /\ UNCHANGED <<epoch, handle, requests, incoming, daemon, overlap>>
    BY DEF TakeCommand, Wire
  <1>2. /\ Head(cmds) \in 0..MaxGens /\ cmds' \in Seq(0..MaxGens) /\ OnWire' = OnWire
        /\ Head(cmds) # 0 => Head(cmds) \in Gens
    BY <1>1 DEF OnWire, Gens
  <1>3. DaemonRests /\ \A i \in DOMAIN incoming : ~Speech(incoming[i])
    BY <1>1 DEF WireIsTheTurns, WireIsQuiet, PromptIsTheTurns, AnswerIsTheTurns, Between
  <1>4. ASSUME actor'.pc # "loop", ~actor'.fallback
        PROVE  WireIsTheTurns'
    BY <1>1, <1>3, <1>4 DEF WireIsTheTurns, WireIsQuiet, PromptIsTheTurns, AnswerIsTheTurns, DaemonRests
  <1>5. CASE actor' = [AtRest EXCEPT !.pc = "exit"] /\ streams' = streams
    <2>1. actor' \in ActorType /\ actor'.pc = "exit" /\ actor'.gen = 0 /\ actor'.queued = 0 /\ ~actor'.fallback
      BY ONLY <1>5, AtRestType DEF ActorType, Turning, Between
    <2>2. GensInOrder'
      BY <1>1, <1>2, <2>1, OrderTaken DEF Turning
    <2>. QED  BY <1>1, <1>2, <1>4, <1>5, <2>1, <2>2, TurnsKept
  <1>6. CASE Head(cmds) # 0 /\ actor' = actor /\ streams' = Failed(streams, Head(cmds))
    <2>1. Own(streams')
      BY <1>2, <1>6, FailedOwn
    <2>2. GensInOrder'
      BY <1>1, <1>2, <1>6, OrderTaken DEF Turning
    <2>3. WireIsTheTurns'
      BY <1>1, <1>3, <1>6 DEF WireIsTheTurns, WireIsQuiet, PromptIsTheTurns, AnswerIsTheTurns, DaemonRests
    <2>. QED  BY <1>1, <1>2, <1>6, <2>1, <2>2, <2>3, TurnsKept
  <1>7. CASE /\ Head(cmds) # 0 /\ streams' = streams
             /\ actor' = [AtRest EXCEPT !.pc = "check", !.gen = Head(cmds)]
    <2>. DEFINE checking == [AtRest EXCEPT !.pc = "check"]
    <2>1. checking \in ActorType /\ checking.pc = "check" /\ checking.gen = 0 /\ checking.queued = 0
          /\ checking.fallback = FALSE
      BY ONLY AtRestType DEF ActorType, Turning, Between
    <2>2. actor' = [checking EXCEPT !.gen = Head(cmds)]
      BY <1>7
    <2>. HIDE DEF checking
    <2>3. /\ actor' \in ActorType /\ actor'.pc = "check" /\ actor'.gen = Head(cmds) /\ actor'.queued = 0
          /\ ~actor'.fallback
      BY ONLY <1>2, <2>1, <2>2 DEF ActorType
    <2>4. GensInOrder'
      BY <1>1, <1>2, <1>7, <2>3, OrderTaken DEF Turning
    <2>. QED  BY <1>1, <1>2, <1>4, <1>7, <2>3, <2>4, TurnsKept
  <1>. QED  BY <1>5, <1>6, <1>7 DEF TakeCommand

-----------------------------------------------------------------------------
(***************************************************************************)
(* The actor in a turn.                                                    *)
(***************************************************************************)
\* The actor sends the daemon a prompt, or a cancel.
LEMMA RequestAdded ==
    ASSUME LmType, NEW r \in 0..MaxGens,
           requests' = Append(requests, r), incoming' = incoming, daemon' = daemon
    PROVE  /\ OnWire' \subseteq OnWire \cup {r} /\ requests' \in Seq(0..MaxGens)
           /\ Len(requests) \in Nat /\ DOMAIN requests = 1..Len(requests)
           /\ DOMAIN requests' = DOMAIN requests \cup {Len(requests) + 1}
           /\ \A i \in DOMAIN requests : requests'[i] = requests[i] /\ i # Len(requests) + 1
           /\ requests'[Len(requests) + 1] = r
  <1>1. requests \in Seq(0..MaxGens)
    BY DEF LmType
  <1>2. /\ requests' \in Seq(0..MaxGens)
        /\ Len(requests) \in Nat /\ DOMAIN requests = 1..Len(requests)
        /\ DOMAIN requests' = 1..(Len(requests) + 1)
        /\ \A i \in 1..Len(requests) : requests'[i] = requests[i]
        /\ requests'[Len(requests) + 1] = r
    BY <1>1
  <1>3. 1..(Len(requests) + 1) = (1..Len(requests)) \cup {Len(requests) + 1}
        /\ \A i \in 1..Len(requests) : i # Len(requests) + 1
    BY <1>2
  <1>4. OnWire' \subseteq OnWire \cup {r}
    BY <1>2, <1>3 DEF OnWire
  <1>. QED  BY <1>2, <1>3, <1>4

LEMMA TurnPromptsKeeps ==
    ASSUME TurnsInv, TurnPrompts
    PROVE  TurnsInv'
  <1>0. /\ LmType /\ GensInOrder /\ WireIsTheTurns /\ Own(streams) /\ ~overlap
        /\ actor \in ActorType /\ cmds \in Seq(0..MaxGens)
        /\ requests \in Seq(0..MaxGens) /\ incoming \in Seq(MessageType) /\ daemon \in DaemonType
    BY Facts
  <1>1. /\ actor.pc = "prompt" /\ UNCHANGED <<epoch, handle, cmds, incoming, daemon, overlap>>
        /\ actor.gen \in Gens /\ actor.gen \in 0..MaxGens /\ actor.gen # 0
    BY <1>0 DEF TurnPrompts, GensInOrder, Turning, ActorType, Gens
  <1>2. /\ DaemonRests /\ \A i \in DOMAIN incoming : ~Speech(incoming[i])
        /\ (\A w \in OnWire : w < actor.gen) /\ ~actor.fallback
    BY <1>0, <1>1 DEF WireIsTheTurns, WireIsQuiet, GensInOrder, Between
  <1>3. CASE /\ streams' = Sent(streams, actor.gen, Error) /\ requests' = requests
             /\ actor' = [actor EXCEPT !.pc = "lost"]
    <2>1. actor' \in ActorType /\ actor'.pc = "lost" /\ actor'.gen = actor.gen /\ actor'.queued = actor.queued
      BY ONLY <1>0, <1>3 DEF ActorType, Turning, Between
    <2>2. OnWire' = OnWire
      BY <1>1, <1>3 DEF OnWire
    <2>3. GensInOrder'
      BY <1>0, <1>1, <2>1, <2>2, OrderKept
    <2>4. WireIsTheTurns'
      BY <2>1 DEF WireIsTheTurns, WireIsQuiet, PromptIsTheTurns, AnswerIsTheTurns, Between
    <2>. QED  BY <1>0, <1>1, <1>3, <2>1, <2>3, <2>4, SentOwn, TurnsKept
  <1>4. CASE /\ requests' = Append(requests, actor.gen) /\ streams' = streams
             /\ actor' = [actor EXCEPT !.pc = "loop"]
    <2>1. /\ actor' \in ActorType /\ actor'.pc = "loop" /\ actor'.gen = actor.gen
          /\ actor'.queued = actor.queued /\ actor'.fallback = actor.fallback
      BY ONLY <1>0, <1>4 DEF ActorType, Turning, Between
    <2>2. /\ requests' \in Seq(0..MaxGens)
          /\ DOMAIN requests' = DOMAIN requests \cup {Len(requests) + 1}
          /\ \A i \in DOMAIN requests : requests'[i] = requests[i] /\ i # Len(requests) + 1
          /\ requests'[Len(requests) + 1] = actor.gen
          /\ OnWire' \subseteq OnWire \cup {actor.gen}
      BY <1>0, <1>1, <1>4, RequestAdded
    <2>3. GensInOrder'
      BY <1>0, <1>1, <2>1, <2>2, OrderKept
    <2>4. PromptIsTheTurns'
      BY <1>1, <1>2, <2>1, <2>2 DEF PromptIsTheTurns, DaemonRests
    <2>5. AnswerIsTheTurns'
      <3>1. ASSUME NEW i \in DOMAIN incoming
            PROVE  ~Speech(incoming[i]) /\ ~Answers(incoming[i], actor.gen) /\ ~Finishes(incoming[i], actor.gen)
        <4>1. incoming[i].gen \in OnWire /\ ~Speech(incoming[i])
          BY <1>2 DEF OnWire
        <4>2. incoming[i].gen # actor.gen
          BY <1>0, <1>1, <1>2, <4>1, Numbers
        <4>. QED  BY <4>1, <4>2 DEF Speech, Answers, Finishes
      <3>. QED  BY <1>1, <2>1, <3>1 DEF AnswerIsTheTurns
    <2>6. WireIsTheTurns'
      BY <2>1, <2>4, <2>5 DEF WireIsTheTurns, WireIsQuiet, Between
    <2>. QED  BY <1>0, <1>1, <1>4, <2>1, <2>2, <2>3, <2>6, TurnsKept
  <1>. QED  BY <1>3, <1>4 DEF TurnPrompts

\* The loop goes on as it was.
LEMMA LoopStays ==
    ASSUME WireIsTheTurns, actor.pc = "loop", actor'.pc = "loop", actor'.gen = actor.gen,
           actor'.fallback = actor.fallback, UNCHANGED <<requests, incoming, daemon>>
    PROVE  WireIsTheTurns'
  BY DEF WireIsTheTurns, WireIsQuiet, PromptIsTheTurns, AnswerIsTheTurns, DaemonRests, Between

LEMMA LoopCommandKeeps ==
    ASSUME TurnsInv, LoopCommand
    PROVE  TurnsInv'
  <1>0. /\ LmType /\ GensInOrder /\ WireIsTheTurns /\ Own(streams) /\ ~overlap
        /\ actor \in ActorType /\ cmds \in Seq(0..MaxGens)
        /\ requests \in Seq(0..MaxGens) /\ incoming \in Seq(MessageType) /\ daemon \in DaemonType
    BY Facts
  <1>1. /\ actor.pc = "loop" /\ cmds # <<>> /\ cmds' = Tail(cmds)
        /\ UNCHANGED <<epoch, handle, requests, incoming, daemon, overlap>>
        /\ actor.gen # 0
    BY <1>0 DEF LoopCommand, Wire, GensInOrder, Turning
  <1>2. /\ Head(cmds) \in 0..MaxGens /\ cmds' \in Seq(0..MaxGens) /\ OnWire' = OnWire
        /\ Head(cmds) # 0 => Head(cmds) \in Gens
    BY <1>0, <1>1 DEF OnWire, Gens
  <1>3. CASE /\ actor' = [AtRest EXCEPT !.pc = "exit"]
             /\ streams' = [g \in Gens |-> IF g \in {actor.gen, actor.queued}
                                           THEN [streams[g] EXCEPT !.ended = TRUE] ELSE streams[g]]
    <2>1. actor' \in ActorType /\ actor'.pc = "exit" /\ actor'.gen = 0 /\ actor'.queued = 0
      BY ONLY <1>3, AtRestType DEF ActorType, Turning, Between
    <2>2. GensInOrder'
      BY <1>0, <1>1, <1>2, <2>1, OrderTaken DEF Turning
    <2>3. \A g \in Gens : streams'[g] \in StreamType /\ streams'[g].items = streams[g].items
      BY <1>0, <1>3 DEF Own, StreamType
    <2>4. Own(streams')
      BY <1>0, <1>3, <2>3 DEF Own
    <2>5. WireIsTheTurns'
      BY <2>1 DEF WireIsTheTurns, WireIsQuiet, PromptIsTheTurns, AnswerIsTheTurns, Between
    <2>. QED  BY <1>0, <1>1, <1>2, <2>1, <2>2, <2>4, <2>5, TurnsKept
  <1>4. CASE /\ Head(cmds) # 0 /\ actor.queued = 0 /\ streams' = streams
             /\ actor' = [actor EXCEPT !.queued = Head(cmds)]
    <2>1. /\ actor' \in ActorType /\ actor'.pc = actor.pc /\ actor'.gen = actor.gen
          /\ actor'.queued = Head(cmds) /\ actor'.fallback = actor.fallback
      BY ONLY <1>0, <1>2, <1>4 DEF ActorType
    <2>2. GensInOrder'
      BY <1>0, <1>1, <1>2, <2>1, OrderTaken
    <2>. QED  BY <1>0, <1>1, <1>2, <1>4, <2>1, <2>2, LoopStays, TurnsKept
  <1>5. CASE Head(cmds) # 0 /\ actor' = actor /\ streams' = Failed(streams, Head(cmds))
    <2>1. Own(streams')
      BY <1>0, <1>2, <1>5, FailedOwn
    <2>2. GensInOrder'
      BY <1>0, <1>1, <1>2, <1>5, OrderTaken
    <2>. QED  BY <1>0, <1>1, <1>2, <1>5, <2>1, <2>2, LoopStays, TurnsKept
  <1>. QED  BY <1>3, <1>4, <1>5 DEF LoopCommand

LEMMA LoopCancelKeeps ==
    ASSUME TurnsInv, LoopCancel
    PROVE  TurnsInv'
  <1>0. /\ LmType /\ GensInOrder /\ WireIsTheTurns /\ Own(streams) /\ ~overlap
        /\ actor \in ActorType /\ cmds \in Seq(0..MaxGens)
        /\ requests \in Seq(0..MaxGens) /\ incoming \in Seq(MessageType) /\ daemon \in DaemonType
    BY Facts
  <1>1. /\ actor.pc = "loop" /\ UNCHANGED <<epoch, handle, cmds, streams, incoming, daemon, overlap>>
        /\ actor.gen # 0 /\ 0 \in 0..MaxGens
    BY <1>0 DEF LoopCancel, GensInOrder, Turning
  <1>2. CASE UNCHANGED <<actor, requests>>
    <2>1. OnWire' = OnWire
      BY <1>1, <1>2 DEF OnWire
    <2>2. GensInOrder'
      BY <1>0, <1>1, <1>2, <2>1, OrderKept
    <2>. QED  BY <1>0, <1>1, <1>2, <2>2, LoopStays, TurnsKept
  <1>3. CASE \E pc \in {"loop", "lost"} :
               /\ actor' = [actor EXCEPT !.suppressed = TRUE, !.cancelled = TRUE, !.pc = pc]
               /\ requests' = IF pc = "loop" THEN Append(requests, 0) ELSE requests
    <2>1. PICK pc \in {"loop", "lost"} :
               /\ actor' = [actor EXCEPT !.suppressed = TRUE, !.cancelled = TRUE, !.pc = pc]
               /\ requests' = IF pc = "loop" THEN Append(requests, 0) ELSE requests
      BY <1>3
    <2>. DEFINE quiet == [actor EXCEPT !.suppressed = TRUE]
                told == [quiet EXCEPT !.cancelled = TRUE]
    <2>2. /\ quiet \in ActorType /\ quiet.gen = actor.gen
          /\ quiet.queued = actor.queued /\ quiet.fallback = actor.fallback
      BY ONLY <1>0 DEF ActorType
    <2>3. actor' = [told EXCEPT !.pc = pc]
      BY <2>1
    <2>. HIDE DEF quiet
    <2>4. /\ told \in ActorType /\ told.gen = actor.gen
          /\ told.queued = actor.queued /\ told.fallback = actor.fallback
      BY ONLY <2>2 DEF ActorType
    <2>. HIDE DEF told
    <2>5. /\ actor' \in ActorType /\ actor'.pc = pc /\ actor'.gen = actor.gen
          /\ actor'.queued = actor.queued /\ actor'.fallback = actor.fallback
      BY ONLY <2>3, <2>4, pc \in {"loop", "lost"} DEF ActorType, Turning, Between
    <2>6. CASE pc = "lost"
      <3>1. OnWire' = OnWire /\ requests' = requests
        BY <1>1, <2>1, <2>6 DEF OnWire
      <3>2. GensInOrder'
        BY <1>0, <1>1, <2>5, <2>6, <3>1, OrderKept
      <3>3. WireIsTheTurns'
        BY <2>5, <2>6 DEF WireIsTheTurns, WireIsQuiet, PromptIsTheTurns, AnswerIsTheTurns, Between
      <3>. QED  BY <1>0, <1>1, <2>5, <3>1, <3>2, <3>3, TurnsKept
    <2>7. CASE pc = "loop"
      <3>1. /\ requests' \in Seq(0..MaxGens)
            /\ DOMAIN requests' = DOMAIN requests \cup {Len(requests) + 1}
            /\ \A i \in DOMAIN requests : requests'[i] = requests[i] /\ i # Len(requests) + 1
            /\ requests'[Len(requests) + 1] = 0
            /\ OnWire' \subseteq OnWire \cup {0}
        BY <1>0, <1>1, <2>1, <2>7, RequestAdded
      <3>2. GensInOrder'
        BY <1>0, <1>1, <2>5, <2>7, <3>1, OrderKept
      <3>3. DaemonRests => DaemonRests'
        BY <1>1, <3>1 DEF DaemonRests
      <3>4. PromptIsTheTurns'
        BY <1>0, <1>1, <2>5, <2>7, <3>1, <3>3 DEF WireIsTheTurns, PromptIsTheTurns
      <3>5. AnswerIsTheTurns'
        BY <1>0, <1>1, <2>5, <2>7, <3>3 DEF WireIsTheTurns, AnswerIsTheTurns
      <3>6. WireIsTheTurns'
        BY <2>5, <2>7, <3>4, <3>5 DEF WireIsTheTurns, WireIsQuiet, Between
      <3>. QED  BY <1>0, <1>1, <2>5, <3>1, <3>2, <3>6, TurnsKept
    <2>. QED  BY <2>6, <2>7
  <1>. QED  BY <1>2, <1>3 DEF LoopCancel

\* What a turn tells of what it hears is its own.
LEMMA NotesOwn ==
    ASSUME Own(streams), actor.gen \in Gens, NEW quiet \in BOOLEAN, NEW item,
           ~quiet => item \in {actor.gen, Error}
    PROVE  Own(NoteUnless(quiet, actor.gen, item))
  BY SentOwn DEF NoteUnless

\* The loop looks at a message of its own turn, or at one that says nothing.
LEMMA MessageHeard ==
    ASSUME LmType, WireIsTheTurns, actor.pc = "loop", incoming # <<>>, incoming' = Tail(incoming),
           requests' = requests, daemon' = daemon, actor'.gen = actor.gen,
           \/ /\ actor'.pc = "loop" /\ ~Finishes(Head(incoming), actor.gen)
              /\ actor'.fallback = actor.fallback
           \/ /\ actor'.pc = "loop" /\ Answers(Head(incoming), actor.gen)
              /\ ~Finishes(Head(incoming), actor.gen)
           \/ actor'.pc = "done" /\ Finishes(Head(incoming), actor.gen)
           \/ actor'.pc = "lost"
    PROVE  WireIsTheTurns'
  <1>1. /\ DOMAIN incoming = 1..Len(incoming) /\ DOMAIN incoming' = 1..Len(incoming')
        /\ Len(incoming) \in Nat /\ Len(incoming') = Len(incoming) - 1 /\ Len(incoming) >= 1
        /\ Head(incoming) = incoming[1]
        /\ \A i \in 1..Len(incoming') : i + 1 \in 1..Len(incoming) /\ incoming'[i] = incoming[i + 1]
    BY MessageTaken
  <1>2. DaemonRests' = DaemonRests
    BY DEF DaemonRests
  <1>3. CASE actor'.pc = "lost"
    BY <1>3 DEF WireIsTheTurns, WireIsQuiet, PromptIsTheTurns, AnswerIsTheTurns, Between
  <1>4. CASE actor'.pc = "done" /\ Finishes(Head(incoming), actor.gen)
    <2>1. 1 \in DOMAIN incoming /\ Answers(incoming[1], actor.gen)
      BY <1>1, <1>4 DEF Answers
    <2>2. DaemonRests /\ \A j \in (1 + 1)..Len(incoming) : ~Speech(incoming[j])
      BY <1>1, <1>4, <2>1 DEF WireIsTheTurns, AnswerIsTheTurns
    <2>3. \A i \in 1..Len(incoming') : i + 1 \in (1 + 1)..Len(incoming)
      BY <1>1
    <2>4. \A i \in DOMAIN incoming' : ~Speech(incoming'[i])
      BY <1>1, <2>2, <2>3
    <2>. QED  BY <1>2, <1>4, <2>2, <2>4
              DEF WireIsTheTurns, WireIsQuiet, PromptIsTheTurns, AnswerIsTheTurns
  <1>5. CASE actor'.pc = "loop"
    <2>1. actor'.fallback => DaemonRests
      <3>1. CASE Answers(Head(incoming), actor.gen)
        BY <1>1, <3>1 DEF WireIsTheTurns, AnswerIsTheTurns
      <3>2. CASE actor'.fallback = actor.fallback
        BY <3>2 DEF WireIsTheTurns, PromptIsTheTurns
      <3>. QED  BY <1>5, <3>1, <3>2
    <2>2. PromptIsTheTurns'
      BY <1>2, <1>5, <2>1 DEF WireIsTheTurns, PromptIsTheTurns
    <2>3. ASSUME NEW i \in DOMAIN incoming'
          PROVE  /\ Speech(incoming'[i]) => incoming'[i].gen = actor.gen
                 /\ Answers(incoming'[i], actor.gen) => DaemonRests
                 /\ Finishes(incoming'[i], actor.gen) =>
                      \A j \in (i + 1)..Len(incoming') : ~Speech(incoming'[j])
      <3>1. i + 1 \in DOMAIN incoming /\ incoming'[i] = incoming[i + 1] /\ i \in 1..Len(incoming')
        BY <1>1
      <3>2. /\ Speech(incoming[i + 1]) => incoming[i + 1].gen = actor.gen
            /\ Answers(incoming[i + 1], actor.gen) => DaemonRests
            /\ Finishes(incoming[i + 1], actor.gen) =>
                 \A j \in ((i + 1) + 1)..Len(incoming) : ~Speech(incoming[j])
        BY <1>5, <3>1 DEF WireIsTheTurns, AnswerIsTheTurns
      <3>3. ASSUME NEW j \in (i + 1)..Len(incoming')
            PROVE  j + 1 \in ((i + 1) + 1)..Len(incoming) /\ incoming'[j] = incoming[j + 1]
        <4>1. j \in 1..Len(incoming') /\ j + 1 \in ((i + 1) + 1)..Len(incoming)
          BY ONLY <1>1, <3>1, j \in (i + 1)..Len(incoming')
        <4>. QED  BY <1>1, <4>1
      <3>. QED  BY <3>1, <3>2, <3>3
    <2>4. AnswerIsTheTurns'
      BY <1>2, <1>5, <2>3 DEF AnswerIsTheTurns
    <2>5. WireIsQuiet'
      BY <1>5 DEF WireIsQuiet, Between
    <2>. QED  BY <2>2, <2>4, <2>5 DEF WireIsTheTurns
  <1>. QED  BY <1>3, <1>4, <1>5

LEMMA LoopIncomingKeeps ==
    ASSUME TurnsInv, LoopIncoming
    PROVE  TurnsInv'
  <1>0. /\ LmType /\ GensInOrder /\ WireIsTheTurns /\ Own(streams) /\ ~overlap
        /\ actor \in ActorType /\ cmds \in Seq(0..MaxGens)
        /\ requests \in Seq(0..MaxGens) /\ incoming \in Seq(MessageType) /\ daemon \in DaemonType
    BY Facts
  <1>. DEFINE m == Head(incoming)
  <1>1. /\ actor.pc = "loop" /\ incoming # <<>> /\ incoming' = Tail(incoming)
        /\ UNCHANGED <<epoch, handle, cmds, requests, daemon, overlap>>
        /\ actor.gen # 0 /\ actor.gen \in Gens /\ actor.suppressed \in BOOLEAN /\ actor.spoke \in BOOLEAN
    BY <1>0 DEF LoopIncoming, GensInOrder, Turning, ActorType, Gens
  <1>2. /\ OnWire' \subseteq OnWire /\ incoming' \in Seq(MessageType)
        /\ m = incoming[1] /\ 1 \in DOMAIN incoming
    BY <1>0, <1>1, MessageTaken
  <1>3. Speech(m) => m.gen = actor.gen
    BY <1>0, <1>1, <1>2 DEF WireIsTheTurns, AnswerIsTheTurns
  <1>4. ASSUME Own(streams'), actor' \in ActorType, actor'.gen = actor.gen, actor'.queued = actor.queued,
               \/ /\ actor'.pc = "loop" /\ ~Finishes(m, actor.gen)
                  /\ actor'.fallback = actor.fallback
               \/ /\ actor'.pc = "loop" /\ Answers(m, actor.gen)
                  /\ ~Finishes(m, actor.gen)
               \/ actor'.pc = "done" /\ Finishes(m, actor.gen)
               \/ actor'.pc = "lost"
        PROVE  TurnsInv'
    <2>1. GensInOrder'
      BY <1>0, <1>1, <1>2, <1>4, OrderKept
    <2>2. WireIsTheTurns'
      BY <1>0, <1>1, <1>4, MessageHeard
    <2>. QED  BY <1>0, <1>1, <1>2, <1>4, <2>1, <2>2, TurnsKept
  <1>5. CASE /\ Classified(m) = "chunk"
             /\ streams' = NoteUnless(actor.suppressed, actor.gen, m.gen)
             /\ actor' = [actor EXCEPT !.spoke = TRUE, !.suppressed = @ \/ ~streams[actor.gen].alive]
    <2>. DEFINE spoken == [actor EXCEPT !.spoke = TRUE]
                deaf == actor.suppressed \/ ~streams[actor.gen].alive
    <2>1. /\ spoken \in ActorType /\ spoken.gen = actor.gen /\ spoken.pc = actor.pc
          /\ spoken.queued = actor.queued /\ spoken.fallback = actor.fallback
      BY ONLY <1>0 DEF ActorType
    <2>2. actor' = [spoken EXCEPT !.suppressed = deaf] /\ deaf \in BOOLEAN
      BY <1>1, <1>5
    <2>. HIDE DEF spoken, deaf
    <2>3. /\ actor' \in ActorType /\ actor'.gen = actor.gen /\ actor'.pc = actor.pc
          /\ actor'.queued = actor.queued /\ actor'.fallback = actor.fallback
      BY ONLY <2>1, <2>2 DEF ActorType
    <2>4. Own(streams')
      BY <1>0, <1>1, <1>3, <1>5, NotesOwn DEF Speech
    <2>5. ~Finishes(m, actor.gen)
      BY <1>5 DEF Finishes
    <2>. QED  BY <1>1, <1>4, <2>3, <2>4, <2>5
  <1>6. CASE /\ Classified(m) \in {"complete", "silence", "failure"}
             /\ \/ streams' = NoteUnless(actor.suppressed \/ actor.spoke, actor.gen, m.gen)
                \/ streams' = NoteUnless(actor.suppressed, actor.gen, Error)
                \/ streams' = streams
             /\ actor' = [actor EXCEPT !.pc = "done"]
    <2>1. actor' \in ActorType /\ actor'.gen = actor.gen /\ actor'.queued = actor.queued /\ actor'.pc = "done"
      BY ONLY <1>0, <1>6 DEF ActorType, Turning, Between
    <2>2. Own(streams')
      <3>1. (actor.suppressed \/ actor.spoke) \in BOOLEAN
        BY <1>1
      <3>. QED  BY <1>0, <1>1, <1>3, <1>6, <3>1, NotesOwn DEF Speech
    <2>3. Finishes(m, actor.gen)
      BY <1>6 DEF Finishes
    <2>. QED  BY <1>4, <2>1, <2>2, <2>3
  <1>7. CASE /\ Classified(m) = "response" /\ streams' = streams
             /\ actor' = IF m.gen = actor.gen THEN [actor EXCEPT !.fallback = TRUE] ELSE actor
    <2>1. CASE m.gen = actor.gen
      <3>1. actor' = [actor EXCEPT !.fallback = TRUE]
        BY <1>7, <2>1
      <3>2. /\ actor' \in ActorType /\ actor'.gen = actor.gen /\ actor'.queued = actor.queued
            /\ actor'.pc = actor.pc
        BY ONLY <1>0, <3>1 DEF ActorType
      <3>3. Answers(m, actor.gen) /\ ~Finishes(m, actor.gen)
        BY <1>7, <2>1 DEF Answers, Finishes
      <3>. QED  BY <1>0, <1>1, <1>4, <1>7, <3>2, <3>3
    <2>2. CASE actor' = actor
      <3>1. ~Finishes(m, actor.gen)
        BY <1>7 DEF Finishes
      <3>. QED  BY <1>0, <1>1, <1>4, <1>7, <2>2, <3>1
    <2>. QED  BY <1>7, <2>1, <2>2
  <1>8. CASE /\ Classified(m) = "error"
             /\ actor' = IF m.gen = actor.gen THEN [actor EXCEPT !.pc = "done"] ELSE actor
             /\ streams' = NoteUnless(actor.suppressed \/ m.gen # actor.gen, actor.gen, Error)
    <2>1. Own(streams')
      <3>1. (actor.suppressed \/ m.gen # actor.gen) \in BOOLEAN
        BY <1>1
      <3>. QED  BY <1>0, <1>1, <1>8, <3>1, NotesOwn
    <2>2. CASE m.gen = actor.gen
      <3>1. actor' = [actor EXCEPT !.pc = "done"]
        BY <1>8, <2>2
      <3>2. /\ actor' \in ActorType /\ actor'.gen = actor.gen /\ actor'.queued = actor.queued
            /\ actor'.pc = "done"
        BY ONLY <1>0, <3>1 DEF ActorType, Turning, Between
      <3>3. Finishes(m, actor.gen)
        BY <1>8, <2>2 DEF Finishes
      <3>. QED  BY <1>4, <2>1, <3>2, <3>3
    <2>3. CASE m.gen # actor.gen
      <3>1. actor' = actor /\ ~Finishes(m, actor.gen)
        BY <1>8, <2>3 DEF Finishes
      <3>. QED  BY <1>0, <1>1, <1>4, <2>1, <3>1
    <2>. QED  BY <2>2, <2>3
  <1>9. CASE /\ Classified(m) = "closed"
             /\ streams' = NoteUnless(actor.suppressed, actor.gen, Error)
             /\ actor' = [actor EXCEPT !.pc = "lost"]
    <2>1. actor' \in ActorType /\ actor'.gen = actor.gen /\ actor'.queued = actor.queued /\ actor'.pc = "lost"
      BY ONLY <1>0, <1>9 DEF ActorType, Turning, Between
    <2>. QED  BY <1>0, <1>1, <1>4, <1>9, <2>1, NotesOwn
  <1>10. CASE Classified(m) = "noise" /\ UNCHANGED <<streams, actor>>
    <2>1. ~Finishes(m, actor.gen)
      BY <1>10 DEF Finishes
    <2>. QED  BY <1>0, <1>1, <1>4, <1>10, <2>1
  <1>11. Classified(m) \in {"response", "error", "closed", "chunk", "complete", "silence", "failure", "noise"}
    BY MeaningTypes
  <1>. QED  BY <1>5, <1>6, <1>7, <1>8, <1>9, <1>10, <1>11 DEF LoopIncoming

LEMMA LoopGraceKeeps ==
    ASSUME TurnsInv, LoopGrace
    PROVE  TurnsInv'
  <1>0. /\ LmType /\ GensInOrder /\ WireIsTheTurns /\ Own(streams) /\ ~overlap
        /\ actor \in ActorType /\ cmds \in Seq(0..MaxGens)
        /\ requests \in Seq(0..MaxGens) /\ incoming \in Seq(MessageType) /\ daemon \in DaemonType
    BY Facts
  <1>1. /\ actor.pc = "loop" /\ incoming = <<>> /\ actor.fallback
        /\ UNCHANGED <<epoch, handle, cmds, requests, incoming, daemon, overlap>>
        /\ actor' = [actor EXCEPT !.pc = "done"]
        /\ actor.gen # 0 /\ actor.gen \in Gens /\ actor.suppressed \in BOOLEAN /\ actor.spoke \in BOOLEAN
    BY <1>0 DEF LoopGrace, GensInOrder, Turning, ActorType, Gens, Wire
  <1>2. actor' \in ActorType /\ actor'.pc = "done" /\ actor'.gen = actor.gen /\ actor'.queued = actor.queued
    BY ONLY <1>0, <1>1 DEF ActorType, Turning, Between
  <1>3. Own(streams')
    <2>1. (actor.suppressed \/ actor.spoke) \in BOOLEAN
      BY <1>1
    <2>. QED  BY <1>0, <1>1, <2>1, NotesOwn DEF LoopGrace
  <1>4. GensInOrder'
    <2>1. OnWire' = OnWire
      BY <1>1 DEF OnWire
    <2>. QED  BY <1>0, <1>1, <1>2, <2>1, OrderKept
  <1>5. WireIsTheTurns'
    <2>1. DaemonRests /\ DOMAIN incoming = {}
      BY <1>0, <1>1 DEF WireIsTheTurns, PromptIsTheTurns
    <2>. QED  BY <1>1, <1>2, <2>1
              DEF WireIsTheTurns, WireIsQuiet, PromptIsTheTurns, AnswerIsTheTurns, DaemonRests
  <1>. QED  BY <1>0, <1>1, <1>2, <1>3, <1>4, <1>5, TurnsKept

\* The queued turn is next: it was asked for after all that is on the wire.
LEMMA TurnDoneKeeps ==
    ASSUME TurnsInv, TurnDone
    PROVE  TurnsInv'
  <1>0. /\ LmType /\ GensInOrder /\ WireIsTheTurns /\ Own(streams) /\ ~overlap
        /\ actor \in ActorType /\ cmds \in Seq(0..MaxGens)
        /\ requests \in Seq(0..MaxGens) /\ incoming \in Seq(MessageType) /\ daemon \in DaemonType
    BY Facts
  <1>1. /\ actor.pc = "done" /\ streams' = Closed(streams, actor.gen)
        /\ UNCHANGED <<epoch, handle, cmds, requests, incoming, daemon, overlap>>
        /\ actor.gen # 0 /\ actor.gen \in Gens /\ actor.queued \in 0..MaxGens
    BY <1>0 DEF TurnDone, GensInOrder, Turning, ActorType, Gens, Wire
  <1>2. /\ actor' \in ActorType /\ actor'.gen = actor.queued /\ actor'.queued = 0 /\ ~actor'.fallback
        /\ actor'.pc = IF actor.queued = 0 THEN "idle" ELSE "check"
    <2>1. CASE actor.queued = 0
      BY <2>1, AtRestType DEF TurnDone
    <2>2. CASE actor.queued # 0
      <3>. DEFINE checking == [AtRest EXCEPT !.pc = "check"]
      <3>1. checking \in ActorType /\ checking.pc = "check" /\ checking.gen = 0 /\ checking.queued = 0
            /\ checking.fallback = FALSE
        BY ONLY AtRestType DEF ActorType, Turning, Between
      <3>2. actor' = [checking EXCEPT !.gen = actor.queued]
        BY <2>2 DEF TurnDone
      <3>. HIDE DEF checking
      <3>3. /\ actor' \in ActorType /\ actor'.pc = "check" /\ actor'.gen = actor.queued /\ actor'.queued = 0
            /\ ~actor'.fallback
        BY ONLY <1>1, <3>1, <3>2 DEF ActorType
      <3>. QED  BY <2>2, <3>3
    <2>. QED  BY <2>1, <2>2
  <1>3. Own(streams')
    BY <1>0, <1>1, ClosedOwn
  <1>4. GensInOrder'
    <2>1. OnWire' = OnWire
      BY <1>1 DEF OnWire
    <2>2. /\ DOMAIN cmds = 1..Len(cmds) /\ \A i \in DOMAIN cmds : cmds[i] \in Nat
          /\ actor.gen \in Nat /\ actor.queued \in Nat /\ handle.gens \in Nat
          /\ \A w \in OnWire : w \in Nat
      BY <1>0, Numbers
    <2>3. ASSUME NEW i \in DOMAIN cmds'
          PROVE  /\ cmds'[i] <= handle'.gens
                 /\ cmds'[i] # 0 => /\ \A j \in 1..(i - 1) : cmds'[j] < cmds'[i]
                                   /\ actor'.gen < cmds'[i] /\ actor'.queued < cmds'[i]
                                   /\ \A w \in OnWire' : w < cmds'[i]
      BY <1>0, <1>1, <1>2, <2>1, <2>2 DEF GensInOrder
    <2>4. /\ actor'.pc \in Turning => actor'.gen # 0
          /\ actor'.pc \in {"check", "mark", "prompt"} => \A w \in OnWire' : w < actor'.gen
      BY <1>0, <1>1, <1>2, <2>1 DEF GensInOrder, Turning
    <2>5. /\ actor'.gen <= handle'.gens /\ actor'.queued <= handle'.gens
          /\ \A w \in OnWire' : w <= handle'.gens
      BY <1>0, <1>1, <1>2, <2>1, <2>2 DEF GensInOrder
    <2>. QED  BY <1>2, <2>3, <2>4, <2>5 DEF GensInOrder
  <1>5. WireIsTheTurns'
    BY <1>0, <1>1, <1>2
       DEF WireIsTheTurns, WireIsQuiet, PromptIsTheTurns, AnswerIsTheTurns, DaemonRests, Between
  <1>. QED  BY <1>0, <1>1, <1>2, <1>3, <1>4, <1>5, TurnsKept

LEMMA TurnLostKeeps ==
    ASSUME TurnsInv, TurnLost
    PROVE  TurnsInv'
  <1>0. /\ LmType /\ GensInOrder /\ WireIsTheTurns /\ Own(streams) /\ ~overlap
        /\ actor \in ActorType /\ cmds \in Seq(0..MaxGens)
    BY Facts
  <1>1. /\ actor.pc = "lost" /\ Disconnected /\ UNCHANGED <<epoch, handle, cmds>>
        /\ actor' = [AtRest EXCEPT !.pc = "down"]
        /\ actor.gen \in Gens
        /\ actor.queued # 0 => actor.queued \in Gens
    BY <1>0 DEF TurnLost, GensInOrder, Turning, ActorType, Gens
  <1>2. actor' \in ActorType /\ actor'.pc = "down" /\ actor'.gen = 0 /\ actor'.queued = 0
    BY ONLY <1>1, AtRestType DEF ActorType, Turning, Between
  <1>3. Own(streams')
    BY <1>0, <1>1, ClosedOwn, FailedOwn DEF TurnLost
  <1>4. GensInOrder'
    BY <1>0, <1>1, <1>2, WireCut, OrderKept DEF Turning
  <1>5. WireIsTheTurns'
    BY <1>1, <1>2, WireCut DEF WireIsTheTurns, WireIsQuiet, PromptIsTheTurns, AnswerIsTheTurns
  <1>. QED  BY <1>0, <1>1, <1>2, <1>3, <1>4, <1>5, WireCut, TurnsKept

-----------------------------------------------------------------------------
(***************************************************************************)
(* The daemon.                                                             *)
(***************************************************************************)
\* The daemon says something more.
LEMMA MessagesAdded ==
    ASSUME LmType, NEW said \in Seq(MessageType), incoming' = incoming \o said
    PROVE  /\ incoming' \in Seq(MessageType)
           /\ Len(incoming) \in Nat /\ Len(said) \in Nat /\ Len(incoming') = Len(incoming) + Len(said)
           /\ DOMAIN incoming = 1..Len(incoming) /\ DOMAIN incoming' = 1..Len(incoming')
           /\ \A i \in 1..Len(incoming) : i \in 1..Len(incoming') /\ incoming'[i] = incoming[i]
           /\ \A i \in 1..Len(incoming') : i \notin 1..Len(incoming) =>
                i - Len(incoming) \in 1..Len(said) /\ incoming'[i] = said[i - Len(incoming)]
  <1>1. incoming \in Seq(MessageType)
    BY DEF LmType
  <1>2. /\ incoming' \in Seq(MessageType)
        /\ Len(incoming) \in Nat /\ Len(said) \in Nat /\ Len(incoming') = Len(incoming) + Len(said)
        /\ DOMAIN incoming = 1..Len(incoming) /\ DOMAIN incoming' = 1..Len(incoming')
    BY <1>1
  <1>3. \A i \in 1..Len(incoming) : i \in 1..Len(incoming') /\ incoming'[i] = incoming[i]
    BY <1>1, <1>2
  <1>4. ASSUME NEW i \in 1..Len(incoming'), i \notin 1..Len(incoming)
        PROVE  i - Len(incoming) \in 1..Len(said) /\ incoming'[i] = said[i - Len(incoming)]
    BY <1>1, <1>2, <1>4
  <1>. QED  BY <1>2, <1>3, <1>4

\* What it says may follow what it has said.
LEMMA AnswerGrows ==
    ASSUME LmType, AnswerIsTheTurns, actor' = actor,
           NEW said \in Seq(MessageType), incoming' = incoming \o said,
           DaemonRests => DaemonRests' /\ \A i \in 1..Len(said) : ~Speech(said[i]),
           \A i \in 1..Len(said) :
             /\ Speech(said[i]) => said[i].gen = actor.gen
             /\ Answers(said[i], actor.gen) => DaemonRests'
             /\ Finishes(said[i], actor.gen) => \A j \in (i + 1)..Len(said) : ~Speech(said[j])
    PROVE  AnswerIsTheTurns'
  <1>. SUFFICES ASSUME actor.pc = "loop", NEW i \in DOMAIN incoming'
                PROVE  /\ Speech(incoming'[i]) => incoming'[i].gen = actor.gen
                       /\ Answers(incoming'[i], actor.gen) => DaemonRests'
                       /\ Finishes(incoming'[i], actor.gen) =>
                            \A j \in (i + 1)..Len(incoming') : ~Speech(incoming'[j])
    BY DEF AnswerIsTheTurns
  <1>1. /\ Len(incoming) \in Nat /\ Len(said) \in Nat /\ Len(incoming') = Len(incoming) + Len(said)
        /\ DOMAIN incoming = 1..Len(incoming) /\ i \in 1..Len(incoming')
        /\ \A k \in 1..Len(incoming) : incoming'[k] = incoming[k]
        /\ \A k \in 1..Len(incoming') : k \notin 1..Len(incoming) =>
             k - Len(incoming) \in 1..Len(said) /\ incoming'[k] = said[k - Len(incoming)]
    BY MessagesAdded
  <1>2. CASE i \in 1..Len(incoming)
    <2>1. /\ incoming'[i] = incoming[i]
          /\ Speech(incoming[i]) => incoming[i].gen = actor.gen
          /\ Answers(incoming[i], actor.gen) => DaemonRests
          /\ Finishes(incoming[i], actor.gen) => \A j \in (i + 1)..Len(incoming) : ~Speech(incoming[j])
      BY <1>1, <1>2 DEF AnswerIsTheTurns
    <2>2. ASSUME Finishes(incoming[i], actor.gen), NEW j \in (i + 1)..Len(incoming')
          PROVE  ~Speech(incoming'[j])
      <3>1. j \in 1..Len(incoming') /\ (j \in 1..Len(incoming) => j \in (i + 1)..Len(incoming))
        BY ONLY <1>1, <1>2, j \in (i + 1)..Len(incoming')
      <3>2. CASE j \in 1..Len(incoming)
        BY <1>1, <2>1, <2>2, <3>1, <3>2
      <3>3. CASE j \notin 1..Len(incoming)
        <4>1. DaemonRests
          BY <2>1, <2>2 DEF Answers
        <4>. QED  BY <1>1, <3>1, <3>3, <4>1
      <3>. QED  BY <3>2, <3>3
    <2>. QED  BY <2>1, <2>2
  <1>3. CASE i \notin 1..Len(incoming)
    <2>. DEFINE k == i - Len(incoming)
    <2>1. k \in 1..Len(said) /\ incoming'[i] = said[k]
      BY <1>1, <1>3
    <2>2. ASSUME NEW j \in (i + 1)..Len(incoming')
          PROVE  /\ j \in 1..Len(incoming') /\ j \notin 1..Len(incoming)
                 /\ j - Len(incoming) \in (k + 1)..Len(said)
      BY ONLY <1>1, <1>3, j \in (i + 1)..Len(incoming')
    <2>3. \A j \in (i + 1)..Len(incoming') :
            j - Len(incoming) \in (k + 1)..Len(said) /\ incoming'[j] = said[j - Len(incoming)]
      BY <1>1, <2>2
    <2>. HIDE DEF k
    <2>. QED  BY <2>1, <2>3
  <1>. QED  BY <1>2, <1>3

\* What is on the wire when the daemon has moved is what was, or of no generation.
LEMMA DaemonMoves ==
    ASSUME LmType, NEW said \in Seq(MessageType), incoming' = incoming \o said,
           \A i \in 1..Len(said) : said[i].gen \in {0, daemon.gen},
           \A i \in DOMAIN requests' : requests'[i] \in OnWire,
           daemon'.gen \in OnWire \cup {0}
    PROVE  OnWire' \subseteq OnWire \cup {0}
  <1>1. \A i \in DOMAIN incoming' : incoming'[i].gen \in OnWire \cup {0}
    <2>. SUFFICES ASSUME NEW i \in DOMAIN incoming'
                  PROVE  incoming'[i].gen \in OnWire \cup {0}
      OBVIOUS
    <2>1. CASE i \in 1..Len(incoming)
      <3>1. i \in DOMAIN incoming /\ incoming'[i] = incoming[i]
        BY <2>1, MessagesAdded
      <3>. QED  BY <3>1 DEF OnWire
    <2>2. CASE i \notin 1..Len(incoming)
      <3>1. incoming'[i].gen \in {0, daemon.gen}
        BY <2>2, MessagesAdded
      <3>. QED  BY <3>1 DEF OnWire
    <2>. QED  BY <2>1, <2>2
  <1>2. \A w \in OnWire' : \/ \E i \in DOMAIN requests' : w = requests'[i]
                           \/ \E i \in DOMAIN incoming' : w = incoming'[i].gen
                           \/ w = daemon'.gen
    BY DEF OnWire
  <1>. QED  BY <1>1, <1>2

LEMMA MessageType0 ==
    \A type \in MessageTypes, g \in 0..MaxGens : Message(type, g) \in MessageType /\ Message(type, g).gen = g
  BY DEF Message, MessageType

LEMMA ChatterType == Chatter \subseteq MessageType
  BY DEF Chatter, Message, MessageType, MessageTypes

LEMMA DaemonTakesKeeps ==
    ASSUME TurnsInv, DaemonTakes
    PROVE  TurnsInv'
  <1>0. /\ LmType /\ GensInOrder /\ WireIsTheTurns /\ Own(streams) /\ ~overlap
        /\ actor \in ActorType /\ cmds \in Seq(0..MaxGens)
        /\ requests \in Seq(0..MaxGens) /\ incoming \in Seq(MessageType) /\ daemon \in DaemonType
    BY Facts
  <1>1. /\ requests # <<>> /\ requests' = Tail(requests)
        /\ UNCHANGED <<epoch, handle, cmds, streams, actor>>
        /\ actor.pc \in {"idle", "check", "mark", "prompt", "loop", "done"}
        /\ actor.pc \in Turning => actor.gen # 0
    BY <1>0 DEF DaemonTakes, Connected, GensInOrder
  <1>2. /\ requests' \in Seq(0..MaxGens) /\ Len(requests) \in Nat /\ Len(requests) >= 1
        /\ DOMAIN requests = 1..Len(requests) /\ DOMAIN requests' = 1..(Len(requests) - 1)
        /\ \A i \in 1..(Len(requests) - 1) : requests'[i] = requests[i + 1]
        /\ Head(requests) = requests[1] /\ requests[1] \in 0..MaxGens
    BY <1>0, <1>1
  <1>3. /\ 1 \in DOMAIN requests
        /\ \A i \in DOMAIN requests' : i + 1 \in DOMAIN requests /\ i + 1 # 1 /\ requests'[i] = requests[i + 1]
    BY <1>2
  <1>4. \A i \in DOMAIN requests' : requests'[i] \in OnWire
    BY <1>3 DEF OnWire
  <1>5. CASE /\ Head(requests) = 0 /\ daemon' = [daemon EXCEPT !.cancelled = daemon.gen # 0]
             /\ incoming' = Append(incoming, Message("response", 0)) /\ overlap' = overlap
    <2>. DEFINE m == Message("response", 0)
                said == <<m>>
    <2>1. m \in MessageType /\ m.gen = 0 /\ Classified(m) = "response"
      BY Meanings, MessageType0 DEF MessageTypes
    <2>. HIDE DEF m
    <2>2. /\ said \in Seq(MessageType) /\ Len(said) = 1 /\ said[1] = m
          /\ \A i \in 1..Len(said) : said[i] = m
      BY <2>1
    <2>3. incoming' = incoming \o said
      BY <1>0, <1>5, <2>1 DEF m
    <2>. HIDE DEF said
    <2>4. ~Speech(m) /\ ~Finishes(m, actor.gen) /\ (actor.pc = "loop" => ~Answers(m, actor.gen))
      BY <1>1, <2>1 DEF Speech, Finishes, Answers, Turning
    <2>5. daemon' \in DaemonType /\ daemon'.gen = daemon.gen
      <3>1. (daemon.gen # 0) \in BOOLEAN
        OBVIOUS
      <3>. QED  BY ONLY <1>0, <1>5, <3>1 DEF DaemonType
    <2>6. OnWire' \subseteq OnWire \cup {0} /\ incoming' \in Seq(MessageType)
      <3>1. daemon'.gen \in OnWire
        BY <2>5 DEF OnWire
      <3>. QED  BY <1>0, <1>4, <2>1, <2>2, <2>3, <3>1, DaemonMoves, MessagesAdded
    <2>7. GensInOrder'
      BY <1>0, <1>1, <2>6, OrderKept
    <2>8. DaemonRests => DaemonRests'
      BY <1>3, <2>5 DEF DaemonRests
    <2>9. PromptIsTheTurns'
      <3>1. \A i, j \in DOMAIN requests' : i # j => i + 1 # j + 1
        BY <1>2
      <3>. QED  BY <1>0, <1>1, <1>3, <2>5, <2>8, <3>1 DEF WireIsTheTurns, PromptIsTheTurns
    <2>10. AnswerIsTheTurns'
      <3>1. CASE actor.pc = "loop"
        BY <1>0, <1>1, <2>2, <2>3, <2>4, <2>8, <3>1, AnswerGrows DEF WireIsTheTurns
      <3>. QED  BY <1>1, <3>1 DEF AnswerIsTheTurns
    <2>11. WireIsQuiet'
      <3>1. ASSUME \A i \in DOMAIN incoming : ~Speech(incoming[i]), NEW i \in DOMAIN incoming'
            PROVE  ~Speech(incoming'[i])
        <4>1. /\ DOMAIN incoming = 1..Len(incoming) /\ DOMAIN incoming' = 1..Len(incoming')
              /\ \A k \in 1..Len(incoming) : incoming'[k] = incoming[k]
              /\ \A k \in 1..Len(incoming') : k \notin 1..Len(incoming) =>
                   k - Len(incoming) \in 1..Len(said) /\ incoming'[k] = said[k - Len(incoming)]
          BY <1>0, <2>2, <2>3, MessagesAdded
        <4>. QED  BY <2>2, <2>4, <3>1, <4>1
      <3>. QED  BY <1>0, <1>1, <2>8, <3>1 DEF WireIsTheTurns, WireIsQuiet
    <2>. QED  BY <1>0, <1>1, <1>2, <1>5, <2>5, <2>6, <2>7, <2>9, <2>10, <2>11, TurnsKept DEF WireIsTheTurns
  <1>6. CASE /\ Head(requests) # 0 /\ daemon' = [NoTurn EXCEPT !.gen = Head(requests)]
             /\ overlap' = (overlap \/ daemon.gen # 0) /\ incoming' = incoming
    <2>1. ~DaemonRests /\ actor.pc = "loop"
      BY <1>0, <1>1, <1>2, <1>3, <1>6 DEF DaemonRests, WireIsTheTurns, WireIsQuiet, Between
    <2>2. /\ Head(requests) = actor.gen /\ daemon.gen = 0
          /\ \A i \in DOMAIN requests : i # 1 => requests[i] = 0
      BY <1>0, <1>2, <1>3, <1>6, <2>1 DEF WireIsTheTurns, PromptIsTheTurns
    <2>3. daemon' \in DaemonType /\ daemon'.gen = actor.gen
      <3>1. NoTurn \in DaemonType /\ actor.gen \in 0..MaxGens
        BY <1>0 DEF NoTurn, DaemonType, ActorType
      <3>. QED  BY ONLY <1>6, <2>2, <3>1 DEF DaemonType
    <2>4. OnWire' \subseteq OnWire
      BY <1>2, <1>3, <1>4, <1>6, <2>2, <2>3 DEF OnWire
    <2>5. GensInOrder'
      BY <1>0, <1>1, <2>1, <2>4, OrderKept
    <2>6. \A i \in DOMAIN requests' : requests'[i] = 0
      BY <1>3, <2>2
    <2>7. PromptIsTheTurns'
      BY <1>0, <1>1, <2>1, <2>3, <2>6 DEF WireIsTheTurns, PromptIsTheTurns
    <2>8. AnswerIsTheTurns'
      <3>1. \A i \in DOMAIN incoming :
              /\ Speech(incoming[i]) => incoming[i].gen = actor.gen
              /\ ~Answers(incoming[i], actor.gen) /\ ~Finishes(incoming[i], actor.gen)
        BY <1>0, <2>1 DEF WireIsTheTurns, AnswerIsTheTurns, Answers
      <3>. QED  BY <1>1, <1>6, <3>1 DEF AnswerIsTheTurns
    <2>9. WireIsQuiet'
      BY <1>1, <2>1 DEF WireIsQuiet, Between
    <2>. QED  BY <1>0, <1>1, <1>2, <1>6, <2>2, <2>3, <2>5, <2>7, <2>8, <2>9, TurnsKept DEF WireIsTheTurns
  <1>. QED  BY <1>5, <1>6 DEF DaemonTakes

\* While the daemon has a turn, it is that of the actor, which has not heard of its end.
LEMMA DaemonIsInTurn ==
    ASSUME TurnsInv, Connected, daemon.gen # 0
    PROVE  /\ actor.pc = "loop" /\ daemon.gen = actor.gen /\ ~actor.fallback /\ ~DaemonRests
           /\ actor.gen # 0 /\ actor.gen \in 0..MaxGens
           /\ \A i \in DOMAIN requests : requests[i] = 0
  <1>0. GensInOrder /\ WireIsTheTurns /\ actor \in ActorType
    BY Facts
  <1>1. ~DaemonRests /\ actor.pc \in {"idle", "check", "mark", "prompt", "loop", "done"}
    BY DEF DaemonRests, Connected
  <1>2. actor.pc = "loop"
    BY <1>0, <1>1 DEF WireIsTheTurns, WireIsQuiet, Between
  <1>. QED  BY <1>0, <1>1, <1>2 DEF WireIsTheTurns, PromptIsTheTurns, GensInOrder, Turning, ActorType

LEMMA DaemonSpeaksKeeps ==
    ASSUME TurnsInv, DaemonSpeaks
    PROVE  TurnsInv'
  <1>0. /\ LmType /\ GensInOrder /\ WireIsTheTurns /\ Own(streams) /\ ~overlap
        /\ actor \in ActorType /\ cmds \in Seq(0..MaxGens)
        /\ requests \in Seq(0..MaxGens) /\ incoming \in Seq(MessageType) /\ daemon \in DaemonType
    BY Facts
  <1>1. /\ actor.pc = "loop" /\ daemon.gen = actor.gen /\ ~actor.fallback /\ ~DaemonRests
        /\ actor.gen # 0 /\ actor.gen \in 0..MaxGens
        /\ \A i \in DOMAIN requests : requests[i] = 0
        /\ UNCHANGED <<epoch, handle, cmds, streams, actor, requests, overlap>>
        /\ daemon' = [daemon EXCEPT !.chunks = @ + 1]
    BY DaemonIsInTurn DEF DaemonSpeaks
  <1>2. PICK m \in {Message("agent_message_chunk", daemon.gen)} \cup Chatter :
               incoming' = Append(incoming, m)
    BY DEF DaemonSpeaks
  <1>3. /\ m \in MessageType /\ m.gen \in {0, daemon.gen}
        /\ \/ Classified(m) = "chunk" /\ m.gen = actor.gen
           \/ Classified(m) = "noise"
    <2>1. CASE m = Message("agent_message_chunk", daemon.gen)
      BY <1>1, <2>1, Meanings, MessageType0 DEF MessageTypes
    <2>2. CASE m \in Chatter
      <3>1. Classified(m) = "noise" /\ m.gen = 0
        BY <2>2, Meanings
      <3>. QED  BY <2>2, <3>1, ChatterType
    <2>. QED  BY <1>2, <2>1, <2>2
  <1>. DEFINE said == <<m>>
  <1>4. said \in Seq(MessageType) /\ \A i \in 1..Len(said) : said[i] = m
    BY <1>3
  <1>5. incoming' = incoming \o said
    BY <1>0, <1>2, <1>3
  <1>. HIDE DEF said
  <1>6. daemon' \in DaemonType /\ daemon'.gen = daemon.gen
    BY ONLY <1>0, <1>1 DEF DaemonType
  <1>7. OnWire' \subseteq OnWire \cup {0} /\ incoming' \in Seq(MessageType)
    <2>1. daemon'.gen \in OnWire /\ \A i \in DOMAIN requests' : requests'[i] \in OnWire
      BY <1>1, <1>6 DEF OnWire
    <2>. QED  BY <1>0, <1>3, <1>4, <1>5, <2>1, DaemonMoves, MessagesAdded
  <1>8. GensInOrder'
    BY <1>0, <1>1, <1>7, OrderKept
  <1>9. PromptIsTheTurns'
    BY <1>0, <1>1, <1>6 DEF PromptIsTheTurns
  <1>10. AnswerIsTheTurns'
    <2>1. ~Finishes(m, actor.gen) /\ ~Answers(m, actor.gen) /\ (Speech(m) => m.gen = actor.gen)
      BY <1>3 DEF Finishes, Answers, Speech
    <2>. QED  BY <1>0, <1>1, <1>4, <1>5, <2>1, AnswerGrows DEF WireIsTheTurns
  <1>11. WireIsQuiet'
    BY <1>1 DEF WireIsQuiet, Between
  <1>. QED  BY <1>0, <1>1, <1>6, <1>7, <1>8, <1>9, <1>10, <1>11, TurnsKept DEF WireIsTheTurns

LEMMA DaemonEndsKeeps ==
    ASSUME TurnsInv, DaemonEnds
    PROVE  TurnsInv'
  <1>0. /\ LmType /\ GensInOrder /\ WireIsTheTurns /\ Own(streams) /\ ~overlap
        /\ actor \in ActorType /\ cmds \in Seq(0..MaxGens)
        /\ requests \in Seq(0..MaxGens) /\ incoming \in Seq(MessageType) /\ daemon \in DaemonType
    BY Facts
  <1>1. /\ actor.pc = "loop" /\ daemon.gen = actor.gen /\ ~actor.fallback /\ ~DaemonRests
        /\ actor.gen # 0 /\ actor.gen \in 0..MaxGens
        /\ \A i \in DOMAIN requests : requests[i] = 0
        /\ UNCHANGED <<epoch, handle, cmds, streams, actor, requests, overlap>>
        /\ daemon' = NoTurn
    BY DaemonIsInTurn DEF DaemonEnds
  <1>. DEFINE Says(type) == Message(type, daemon.gen)
  <1>2. \A type \in MessageTypes : Says(type) \in MessageType /\ Says(type).gen = actor.gen
    BY <1>1, MessageType0
  <1>3. /\ Classified(Says("response")) = "response" /\ Classified(Says("error")) = "error"
        /\ Classified(Says("completed")) = "complete" /\ Classified(Says("cancelled")) = "silence"
        /\ Classified(Says("some_future_outcome")) = "failure"
    BY <1>1, Meanings
  <1>4. PICK said \in {<<Says(outcome), Says("response")>> :
                           outcome \in {"completed", "cancelled", "some_future_outcome"}}
                         \cup {<<Says("response")>>, <<Says("error")>>} :
               incoming' = incoming \o said
    BY DEF DaemonEnds
  <1>. HIDE DEF Says
  <1>5. /\ said \in Seq(MessageType)
        /\ \A i \in 1..Len(said) :
             /\ said[i].gen = actor.gen
             /\ Finishes(said[i], actor.gen) => \A j \in (i + 1)..Len(said) : ~Speech(said[j])
    <2>1. CASE \E outcome \in {"completed", "cancelled", "some_future_outcome"} :
                 said = <<Says(outcome), Says("response")>>
      <3>1. PICK outcome \in {"completed", "cancelled", "some_future_outcome"} :
                 said = <<Says(outcome), Says("response")>>
        BY <2>1
      <3>2. /\ Says(outcome) \in MessageType /\ Says("response") \in MessageType
            /\ Says(outcome).gen = actor.gen /\ Says("response").gen = actor.gen
        BY <1>2 DEF MessageTypes
      <3>3. /\ said \in Seq(MessageType) /\ Len(said) = 2
            /\ said[1] = Says(outcome) /\ said[2] = Says("response")
        BY <3>1, <3>2
      <3>4. ~Speech(Says("response"))
        BY <1>3 DEF Speech
      <3>5. \A i \in 1..2 : (i = 1 \/ i = 2) /\ \A j \in (i + 1)..2 : j = 2
        OBVIOUS
      <3>. QED  BY <3>2, <3>3, <3>4, <3>5
    <2>2. CASE said = <<Says("response")>> \/ said = <<Says("error")>>
      <3>1. PICK type \in {"response", "error"} : said = <<Says(type)>>
        BY <2>2
      <3>2. Says(type) \in MessageType /\ Says(type).gen = actor.gen
        BY <1>2 DEF MessageTypes
      <3>3. said \in Seq(MessageType) /\ Len(said) = 1 /\ said[1] = Says(type)
        BY <3>1, <3>2
      <3>4. \A i \in 1..1 : i = 1 /\ (i + 1)..1 = {}
        OBVIOUS
      <3>. QED  BY <3>2, <3>3, <3>4
    <2>. QED  BY <1>4, <2>1, <2>2
  <1>6. daemon' \in DaemonType /\ daemon'.gen = 0
    BY <1>1 DEF NoTurn, DaemonType
  <1>7. DaemonRests'
    BY <1>1, <1>6 DEF DaemonRests
  <1>8. OnWire' \subseteq OnWire \cup {0} /\ incoming' \in Seq(MessageType)
    <2>1. \A i \in DOMAIN requests' : requests'[i] \in OnWire
      BY <1>1 DEF OnWire
    <2>. QED  BY <1>0, <1>1, <1>4, <1>5, <1>6, <2>1, DaemonMoves, MessagesAdded
  <1>9. GensInOrder'
    BY <1>0, <1>1, <1>8, OrderKept
  <1>10. PromptIsTheTurns'
    BY <1>1, <1>6 DEF PromptIsTheTurns
  <1>11. AnswerIsTheTurns'
    BY <1>0, <1>1, <1>4, <1>5, <1>7, AnswerGrows DEF WireIsTheTurns
  <1>12. WireIsQuiet'
    BY <1>1 DEF WireIsQuiet, Between
  <1>. QED  BY <1>0, <1>1, <1>6, <1>8, <1>9, <1>10, <1>11, <1>12, TurnsKept DEF WireIsTheTurns

LEMMA ConnectionDropsKeeps ==
    ASSUME TurnsInv, ConnectionDrops
    PROVE  TurnsInv'
  <1>0. /\ LmType /\ GensInOrder /\ WireIsTheTurns /\ Own(streams) /\ ~overlap
        /\ actor \in ActorType /\ cmds \in Seq(0..MaxGens) /\ incoming \in Seq(MessageType)
    BY Facts
  <1>. DEFINE m == Message("closed", 0)
              said == <<m>>
  <1>1. /\ UNCHANGED <<epoch, handle, cmds, streams, actor, overlap>>
        /\ requests' = <<>> /\ daemon' = NoTurn /\ incoming' = Append(incoming, m)
        /\ actor.pc \in {"idle", "check", "mark", "prompt", "loop", "done"}
        /\ actor.pc \in Turning => actor.gen # 0
    BY <1>0 DEF ConnectionDrops, Connected, GensInOrder
  <1>2. m \in MessageType /\ m.gen = 0 /\ Classified(m) = "closed"
    BY Meanings, MessageType0 DEF MessageTypes
  <1>. HIDE DEF m
  <1>3. said \in Seq(MessageType) /\ \A i \in 1..Len(said) : said[i] = m
    BY <1>2
  <1>4. incoming' = incoming \o said
    BY <1>0, <1>1, <1>2
  <1>. HIDE DEF said
  <1>5. /\ requests' \in Seq(0..MaxGens) /\ DOMAIN requests' = {}
        /\ daemon' \in DaemonType /\ daemon'.gen = 0
    BY <1>1 DEF NoTurn, DaemonType
  <1>6. DaemonRests' /\ ~Speech(m) /\ ~Finishes(m, actor.gen) /\ ~Answers(m, actor.gen)
    BY <1>2, <1>5 DEF DaemonRests, Speech, Finishes, Answers
  <1>7. OnWire' \subseteq OnWire \cup {0} /\ incoming' \in Seq(MessageType)
    BY <1>0, <1>2, <1>3, <1>4, <1>5, DaemonMoves, MessagesAdded
  <1>8. GensInOrder'
    BY <1>0, <1>1, <1>7, OrderKept
  <1>9. PromptIsTheTurns'
    BY <1>5, <1>6 DEF PromptIsTheTurns
  <1>10. AnswerIsTheTurns'
    BY <1>0, <1>1, <1>3, <1>4, <1>6, AnswerGrows DEF WireIsTheTurns
  <1>11. WireIsQuiet'
    <2>1. ASSUME \A i \in DOMAIN incoming : ~Speech(incoming[i]), NEW i \in DOMAIN incoming'
          PROVE  ~Speech(incoming'[i])
      <3>1. /\ DOMAIN incoming = 1..Len(incoming) /\ DOMAIN incoming' = 1..Len(incoming')
            /\ \A k \in 1..Len(incoming) : incoming'[k] = incoming[k]
            /\ \A k \in 1..Len(incoming') : k \notin 1..Len(incoming) =>
                 k - Len(incoming) \in 1..Len(said) /\ incoming'[k] = said[k - Len(incoming)]
        BY <1>0, <1>3, <1>4, MessagesAdded
      <3>. QED  BY <1>3, <1>6, <2>1, <3>1
    <2>. QED  BY <1>0, <1>1, <1>6, <2>1 DEF WireIsTheTurns, WireIsQuiet
  <1>. QED  BY <1>0, <1>1, <1>5, <1>7, <1>8, <1>9, <1>10, <1>11, TurnsKept DEF WireIsTheTurns

-----------------------------------------------------------------------------
(***************************************************************************)
(* The turns, from the start.                                              *)
(***************************************************************************)
LEMMA TurnsInit == LmInit => TurnsInv
  <1>. SUFFICES ASSUME LmInit
                PROVE  TurnsInv
    OBVIOUS
  <1>1. /\ epoch = 0 /\ cmds = <<>> /\ requests = <<>> /\ incoming = <<>> /\ daemon = NoTurn
        /\ overlap = FALSE /\ streams = [g \in Gens |-> NoStream]
        /\ handle = [pc |-> "connect", stream |-> 0, gens |-> 0]
        /\ actor = [AtRest EXCEPT !.pc = "dial"]
    BY DEF LmInit
  <1>2. actor \in ActorType /\ actor.pc = "dial" /\ actor.gen = 0 /\ actor.queued = 0
    BY ONLY <1>1, AtRestType DEF ActorType, Turning, Between
  <1>3. handle \in HandleType /\ handle.gens = 0 /\ 0 \in 0..MaxGens
    BY <1>1 DEF HandleType
  <1>4. NoStream \in StreamType /\ NoStream.items = <<>>
    BY DEF NoStream, StreamType
  <1>5. NoTurn \in DaemonType /\ NoTurn.gen = 0
    BY DEF NoTurn, DaemonType
  <1>6. /\ DOMAIN cmds = {} /\ DOMAIN requests = {} /\ DOMAIN incoming = {} /\ DOMAIN NoStream.items = {}
        /\ cmds \in Seq(0..MaxGens) /\ requests \in Seq(0..MaxGens) /\ incoming \in Seq(MessageType)
    BY <1>1, <1>4
  <1>7. LmType
    BY <1>1, <1>2, <1>3, <1>4, <1>5, <1>6 DEF LmType
  <1>8. OnWire = {0}
    BY <1>1, <1>5, <1>6 DEF OnWire
  <1>9. GensInOrder
    BY <1>2, <1>3, <1>6, <1>8 DEF GensInOrder, Turning
  <1>10. WireIsTheTurns
    BY <1>1, <1>2, <1>5, <1>6
       DEF WireIsTheTurns, WireIsQuiet, PromptIsTheTurns, AnswerIsTheTurns, DaemonRests
  <1>11. TurnsAreKeptApart
    BY <1>1, <1>6 DEF TurnsAreKeptApart, TextReachesOwnStream, OnePromptAtATime
  <1>. QED  BY <1>7, <1>9, <1>10, <1>11 DEF TurnsInv

LEMMA TurnsNext == TurnsInv /\ LmNext => TurnsInv'
  BY HandleKeeps, TakeCommandKeeps, IdleIncomingKeeps, LooksKeep, TurnPromptsKeeps,
     LoopCommandKeeps, LoopCancelKeeps, LoopIncomingKeeps, LoopGraceKeeps,
     TurnDoneKeeps, TurnLostKeeps, EstablishingKeeps,
     DaemonTakesKeeps, DaemonSpeaksKeeps, DaemonEndsKeeps, ConnectionDropsKeeps
  DEF LmNext, Actor

-----------------------------------------------------------------------------
(***************************************************************************)
(* The poller.                                                             *)
(***************************************************************************)
LEMMA DelegatesInit == PollerInit => DelegatesInv
  BY DEF PollerInit, DelegatesInv, ReportedAtMostOnce, Told, Awake, Ended

\* The source takes an event: what it has been told and what is on its way are the same.
LEMMA ToldAgain == DelegatesInv /\ NextEvent => Told' = Told
  <1>. SUFFICES ASSUME channel \in Seq(Files), received \in Seq(Files), channel # <<>>
                PROVE  Append(received, Head(channel)) \o Tail(channel) = received \o channel
    BY DEF DelegatesInv, NextEvent, Told
  <1>. QED  OBVIOUS

\* One more is told.
LEMMA ToldMore ==
    ASSUME DelegatesInv, NEW f \in Files, channel' = Append(channel, f), received' = received
    PROVE  /\ Told' = Append(Told, f) /\ Told \in Seq(Files) /\ Len(Told) \in Nat
           /\ DOMAIN Told = 1..Len(Told) /\ DOMAIN Told' = 1..(Len(Told) + 1)
           /\ Told'[Len(Told) + 1] = f /\ \A i \in 1..Len(Told) : Told'[i] = Told[i]
  <1>1. channel \in Seq(Files) /\ received \in Seq(Files)
    BY DEF DelegatesInv
  <1>2. received \o Append(channel, f) = Append(received \o channel, f) /\ received \o channel \in Seq(Files)
    BY <1>1
  <1>3. Told' = Append(Told, f) /\ Told \in Seq(Files)
    BY <1>2 DEF Told
  <1>. QED  BY <1>3

LEMMA DelegatesNext == DelegatesInv /\ PollerNext => DelegatesInv'
  <1>. SUFFICES ASSUME DelegatesInv, PollerNext
                PROVE  DelegatesInv'
    OBVIOUS
  <1>. DEFINE Records == {"absent", "unreadable", "running"} \cup Ended
              Pcs == {"look", "lie down", "asleep", "awake", "scan", "send", "stopped"}
              Type == /\ record \in [Files -> Records]
                      /\ poller \in [pc : Pcs, woken : BOOLEAN, todo : SUBSET Files]
                      /\ settled \subseteq Files /\ pending \subseteq Files
                      /\ channel \in Seq(Files) /\ received \in Seq(Files)
  <1>1. Type /\ (\A i \in DOMAIN Told : Told[i] \in settled) /\ ReportedAtMostOnce
    BY DEF DelegatesInv
  <1>2. ASSUME Type', Told' = Told, settled \subseteq settled', 
               \A f \in Files : record[f] = "unreadable" => record'[f] = "unreadable"
        PROVE  DelegatesInv'
    <2>1. \A i \in DOMAIN Told : Told[i] \in Files
      BY <1>1
    <2>. QED  BY <1>1, <1>2, <2>1 DEF DelegatesInv, ReportedAtMostOnce
  <1>3. ASSUME NEW f \in Files, Delegates(f) \/ DelegateEnds(f)
        PROVE  DelegatesInv'
    <2>1. PICK r \in Records : record' = [record EXCEPT ![f] = r] /\ record[f] \in {"absent", "running"}
      BY <1>3 DEF Delegates, DelegateEnds
    <2>2. UNCHANGED <<poller, settled, pending, channel, received>>
      BY <1>3 DEF Delegates, DelegateEnds
    <2>3. record' \in [Files -> Records] /\ \A g \in Files : record[g] = "unreadable" => record'[g] = "unreadable"
      BY <1>1, <2>1
    <2>. QED  BY <1>1, <1>2, <2>2, <2>3 DEF Told
  <1>4. ASSUME poller' \in [pc : Pcs, woken : BOOLEAN, todo : SUBSET Files],
               UNCHANGED <<record, settled, pending, channel, received>>
        PROVE  DelegatesInv'
    BY <1>1, <1>2, <1>4 DEF Told
  <1>5. ASSUME TurnSettles \/ SourceCancels \/ Looks \/ LiesDown \/ Wakes \/ Scans \/ SendsOn \/ ScanEnds
        PROVE  DelegatesInv'
    <2>1. UNCHANGED <<record, settled, pending, channel, received>>
      BY <1>5 DEF TurnSettles, SourceCancels, Looks, LiesDown, Wakes, Scans, SendsOn, ScanEnds
    <2>2. poller' \in [pc : Pcs, woken : BOOLEAN, todo : SUBSET Files]
      <3>1. \E pc \in Pcs, woken \in BOOLEAN, todo \in SUBSET Files :
              \/ poller' = [poller EXCEPT !.woken = woken]
              \/ poller' = [poller EXCEPT !.pc = pc]
              \/ poller' = [[poller EXCEPT !.pc = pc] EXCEPT !.woken = woken]
              \/ poller' = [[poller EXCEPT !.pc = pc] EXCEPT !.todo = todo]
              \/ poller' = [pc |-> pc, woken |-> woken, todo |-> todo]
        <4>1. Present \in SUBSET Files /\ {} \in SUBSET Files /\ TRUE \in BOOLEAN /\ FALSE \in BOOLEAN
              /\ (poller.woken \/ poller.pc = "asleep") \in BOOLEAN
          BY <1>1 DEF Present
        <4>2. CASE TurnSettles \/ SourceCancels
          BY <4>1, <4>2 DEF TurnSettles, SourceCancels, Notified
        <4>3. CASE Looks \/ SendsOn
          BY <4>1, <4>3 DEF Looks, SendsOn
        <4>4. CASE LiesDown \/ Wakes
          BY <4>1, <4>4 DEF LiesDown, Wakes
        <4>5. CASE Scans \/ ScanEnds
          BY <4>1, <4>5 DEF Scans, ScanEnds, Awake
        <4>. QED  BY <1>5, <4>2, <4>3, <4>4, <4>5
      <3>2. PICK pc \in Pcs, woken \in BOOLEAN, todo \in SUBSET Files :
              \/ poller' = [poller EXCEPT !.woken = woken]
              \/ poller' = [poller EXCEPT !.pc = pc]
              \/ poller' = [[poller EXCEPT !.pc = pc] EXCEPT !.woken = woken]
              \/ poller' = [[poller EXCEPT !.pc = pc] EXCEPT !.todo = todo]
              \/ poller' = [pc |-> pc, woken |-> woken, todo |-> todo]
        BY <3>1
      <3>. HIDE DEF Pcs
      <3>. DEFINE Pollers == [pc : Pcs, woken : BOOLEAN, todo : SUBSET Files]
                  moved == [poller EXCEPT !.pc = pc]
      <3>3. poller \in Pollers
        BY <1>1
      <3>4. moved \in Pollers /\ [poller EXCEPT !.woken = woken] \in Pollers
        BY ONLY <3>3, pc \in Pcs, woken \in BOOLEAN
      <3>5. [pc |-> pc, woken |-> woken, todo |-> todo] \in Pollers
        OBVIOUS
      <3>. HIDE DEF moved
      <3>6. [moved EXCEPT !.woken = woken] \in Pollers /\ [moved EXCEPT !.todo = todo] \in Pollers
        BY ONLY <3>4, woken \in BOOLEAN, todo \in SUBSET Files
      <3>. HIDE DEF Pollers
      <3>7. poller' \in Pollers
        BY <3>2, <3>4, <3>5, <3>6 DEF moved
      <3>. QED  BY <3>7 DEF Pollers
    <2>. QED  BY <1>4, <2>1, <2>2
  <1>6. CASE NextEvent
    <2>1. channel' \in Seq(Files) /\ received' \in Seq(Files)
      <3>1. channel \in Seq(Files) /\ received \in Seq(Files)
        BY <1>1
      <3>2. channel # <<>> /\ received' = Append(received, Head(channel)) /\ channel' = Tail(channel)
        BY <1>6 DEF NextEvent
      <3>. QED  BY ONLY <3>1, <3>2
    <2>2. Told' = Told
      BY <1>6, ToldAgain
    <2>. QED  BY <1>1, <1>2, <1>6, <2>1, <2>2 DEF NextEvent
  <1>7. ASSUME NEW f \in Files, ScanFile(f)
        PROVE  DelegatesInv'
    <2>1. record' = record /\ received' = received /\ poller.pc = "scan"
      BY <1>7 DEF ScanFile
    <2>. DEFINE scanned == [poller EXCEPT !.todo = @ \ {f}]
    <2>2. scanned \in [pc : Pcs, woken : BOOLEAN, todo : SUBSET Files]
      BY <1>1
    <2>3. CASE Skips(f) \/ Waits(f) \/ Ignores(f)
      <3>1. /\ poller' = scanned /\ channel' = channel /\ settled \subseteq settled'
            /\ settled' \subseteq Files /\ pending' \subseteq Files
        BY <1>1, <2>3 DEF Skips, Waits, Ignores, Settles, Left
      <3>. QED  BY <1>1, <1>2, <2>1, <2>2, <3>1 DEF Told
    <2>4. CASE Reports(f)
      <3>1. /\ poller' = [scanned EXCEPT !.pc = "send"] /\ channel' = Append(channel, f)
            /\ settled' = settled \cup {f} /\ pending' = pending \ {f} /\ f \notin settled
            /\ f \in Old => record[f] = "unreadable"
        BY <2>4 DEF Reports, Settles, UnderWay
      <3>. HIDE DEF scanned
      <3>2. poller' \in [pc : Pcs, woken : BOOLEAN, todo : SUBSET Files]
        BY <2>2, <3>1
      <3>3. Type'
        <4>1. channel' \in Seq(Files)
          <5>1. channel \in Seq(Files) /\ channel' = Append(channel, f)
            BY <1>1, <3>1
          <5>. QED  BY ONLY <5>1, f \in Files
        <4>2. settled' \subseteq Files /\ pending' \subseteq Files
          BY <1>1, <3>1
        <4>. QED  BY <1>1, <2>1, <3>2, <4>1, <4>2
      <3>4. /\ DOMAIN Told = 1..Len(Told) /\ DOMAIN Told' = (1..Len(Told)) \cup {Len(Told) + 1}
            /\ Told'[Len(Told) + 1] = f /\ \A i \in 1..Len(Told) : Told'[i] = Told[i]
        <4>1. /\ DOMAIN Told = 1..Len(Told) /\ DOMAIN Told' = 1..(Len(Told) + 1) /\ Len(Told) \in Nat
              /\ Told'[Len(Told) + 1] = f /\ \A i \in 1..Len(Told) : Told'[i] = Told[i]
          BY <2>1, <3>1, ToldMore
        <4>2. 1..(Len(Told) + 1) = (1..Len(Told)) \cup {Len(Told) + 1}
          BY <4>1
        <4>. QED  BY <4>1, <4>2
      <3>5. \A i \in DOMAIN Told : Told[i] # f
        BY <1>1, <3>1
      <3>6. \A i \in DOMAIN Told' : Told'[i] \in settled'
        BY <1>1, <3>1, <3>4
      <3>7. ReportedAtMostOnce'
        <4>0. /\ \A i \in DOMAIN Told : \A j \in DOMAIN Told : Told[i] = Told[j] => i = j
              /\ \A i \in DOMAIN Told : Told[i] \in Old => record[Told[i]] = "unreadable"
          BY <1>1 DEF ReportedAtMostOnce
        <4>1. ASSUME NEW i \in DOMAIN Told', NEW j \in DOMAIN Told', Told'[i] = Told'[j]
              PROVE  i = j
          BY ONLY <3>4, <3>5, <4>0, <4>1, i \in DOMAIN Told', j \in DOMAIN Told'
        <4>2. ASSUME NEW i \in DOMAIN Told', Told'[i] \in Old
              PROVE  record'[Told'[i]] = "unreadable"
          BY ONLY <2>1, <3>1, <3>4, <4>0, <4>2, i \in DOMAIN Told'
        <4>. QED  BY <4>1, <4>2 DEF ReportedAtMostOnce
      <3>. QED  BY <3>3, <3>6, <3>7 DEF DelegatesInv
    <2>. QED  BY <1>7, <2>3, <2>4 DEF ScanFile
  <1>. HIDE DEF Type, Records, Pcs
  <1>. QED  BY <1>3, <1>5, <1>6, <1>7 DEF PollerNext, Poller

-----------------------------------------------------------------------------
(***************************************************************************)
(* However many generations, cancels, lost connections and delegations     *)
(* there are, and whenever the handle, the actor, the daemon and the       *)
(* poller move: what the daemon says in one turn never reaches the stream  *)
(* of another, a prompt never reaches it during a turn, and the source is  *)
(* told of no delegation twice.                                            *)
(***************************************************************************)
THEOREM SessionShared == Spec => []SessionIsShared
  <1>. DEFINE Inv == TurnsInv /\ DelegatesInv
  <1>1. Init => Inv
    BY TurnsInit, DelegatesInit DEF Init
  <1>2. Inv /\ [Next]_all => Inv'
    <2>. SUFFICES ASSUME Inv, [Next]_all
                  PROVE  Inv'
      OBVIOUS
    <2>1. UNCHANGED lm => TurnsInv'
      BY DEF lm, TurnsInv, LmType, GensInOrder, OnWire, WireIsTheTurns, WireIsQuiet, PromptIsTheTurns,
             AnswerIsTheTurns, DaemonRests, TurnsAreKeptApart, TextReachesOwnStream, OnePromptAtATime
    <2>2. UNCHANGED delegates => DelegatesInv'
      BY DEF delegates, DelegatesInv, ReportedAtMostOnce, Told
    <2>3. (LmNext /\ UNCHANGED delegates) \/ (PollerNext /\ UNCHANGED lm)
            \/ (UNCHANGED lm /\ UNCHANGED delegates)
      BY DEF Next, AsActor, AsPoller, all
    <2>. QED  BY <2>1, <2>2, <2>3, TurnsNext, DelegatesNext
  <1>3. Inv => SessionIsShared
    BY DEF TurnsInv, DelegatesInv, SessionIsShared
  <1>. QED  BY <1>1, <1>2, <1>3, PTL DEF Spec
==============================================================================
