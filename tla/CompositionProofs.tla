------------------------- MODULE CompositionProofs -------------------------
(***************************************************************************)
(* What is composed, checked by TLAPS: the stages and workers of the reply *)
(* path, and the pipeline of two stages and the pump.                      *)
(*                                                                         *)
(* First, that a reply is spoken in order and that what reaches a worker   *)
(* is current, for any number of turns, barge-ins and words: an inductive  *)
(* invariant of all the parts for each, up to the theorems WorkStaysCurrent*)
(* and SentencesFollow.                                                    *)
(*                                                                         *)
(* Then, that a barge-in composes, whatever the agent decides and however  *)
(* much the application sends: the proofs of the parts are instantiated    *)
(* with the links of the pipeline, and what is left to show is that what   *)
(* each part assumes of its neighbours, the neighbour it is given does.    *)
(***************************************************************************)
EXTENDS Pipeline, ReplyPath, SequenceTheorems, TLAPS

Data == INSTANCE LinkProofs

-----------------------------------------------------------------------------
(***************************************************************************)
(* What of a prompt is in the cache, and what a reply is sampled from.     *)
(***************************************************************************)

LEMMA FirstOf ==
    ASSUME NEW S, NEW s \in Seq(S), NEW n \in 0..Len(s)
    PROVE  /\ SubSeq(s, 1, n) \in Seq(S) /\ Len(SubSeq(s, 1, n)) = n
           /\ \A i \in 1..n : SubSeq(s, 1, n)[i] = s[i]
  <1>1. \A i \in 1..n : s[i] \in S
    OBVIOUS
  <1>2. 1 \in Int /\ n \in Int /\ n \in Nat
    OBVIOUS
  <1>. QED  BY <1>1, <1>2, SubSeqProperties

LEMMA PrefixIs ==
    ASSUME NEW S, NEW s \in Seq(S), NEW t \in Seq(S)
    PROVE  IsPrefix(s, t) <=> Len(s) <= Len(t) /\ \A i \in 1..Len(s) : s[i] = t[i]
  <1>1. SubSeq(s, 1, Len(s)) = s
    BY SubSeqFull
  <1>2. Len(s) \in Nat /\ Len(t) \in Nat
    OBVIOUS
  <1>3. CASE Len(s) <= Len(t)
    <2>. DEFINE u == SubSeq(t, 1, Len(s))
    <2>1. u \in Seq(S) /\ Len(u) = Len(s) /\ \A i \in 1..Len(s) : u[i] = t[i]
      BY <1>2, <1>3, FirstOf
    <2>. HIDE DEF u
    <2>2. s = u <=> \A i \in 1..Len(s) : s[i] = u[i]
      BY <2>1, SeqEqual
    <2>. QED  BY <1>1, <1>3, <2>1, <2>2 DEF IsPrefix, u
  <1>. QED  BY <1>3 DEF IsPrefix

LEMMA PrefixOfMore ==
    ASSUME NEW S, NEW s \in Seq(S), NEW t \in Seq(S)
    PROVE  s \o t \in Seq(S) /\ IsPrefix(s, s \o t)
  <1>1. /\ s \o t \in Seq(S) /\ Len(s \o t) = Len(s) + Len(t)
        /\ \A i \in 1..(Len(s) + Len(t)) : (s \o t)[i] = IF i <= Len(s) THEN s[i] ELSE t[i - Len(s)]
    BY ConcatProperties
  <1>2. Len(s) \in Nat /\ Len(t) \in Nat
    OBVIOUS
  <1>3. Len(s) <= Len(s \o t) /\ \A i \in 1..Len(s) : s[i] = (s \o t)[i]
    BY <1>1, <1>2
  <1>. QED  BY <1>1, <1>3, PrefixIs

\* Equal elements make equal sequences.
LEMMA SameElements ==
    ASSUME NEW S, NEW s \in Seq(S), NEW t \in Seq(S), Len(s) = Len(t),
           \A i \in 1..Len(s) : s[i] = t[i]
    PROVE  s = t
  BY SeqEqual

LEMMA LongestCommon ==
    ASSUME NEW S, NEW s \in Seq(S), NEW t \in Seq(S)
    PROVE  \A p : p = LongestCommonPrefix({s, t}) =>
             /\ p \in Seq(S) /\ Len(p) <= Len(s) /\ Len(p) <= Len(t)
             /\ \A i \in 1..Len(p) : p[i] = s[i] /\ p[i] = t[i]
  <1>. DEFINE C == CommonPrefixes({s, t})
              T == {k \in Nat : k <= Len(s) /\ \E p \in C : Len(p) = Len(s) - k}
  <1>1. \A p \in C : p \in Seq(S) /\ IsPrefix(p, s) /\ IsPrefix(p, t)
    <2>1. \A q \in {s, t} : \A l \in 0..Len(q) : SubSeq(q, 1, l) \in Seq(S)
      BY FirstOf
    <2>. QED  BY <2>1 DEF CommonPrefixes, Prefixes
  <1>2. <<>> \in C
    <2>1. SubSeq(s, 1, 0) = <<>>
      BY SubSeqEmpty
    <2>2. <<>> \in Prefixes(s)
      BY <2>1 DEF Prefixes
    <2>3. IsPrefix(<<>>, s) /\ IsPrefix(<<>>, t)
      <3>1. <<>> \in Seq(S) /\ Len(<<>>) = 0 /\ 0 <= Len(s) /\ 0 <= Len(t)
        OBVIOUS
      <3>2. \A i \in 1..0 : FALSE
        OBVIOUS
      <3>. QED  BY <3>1, <3>2, PrefixIs
    <2>. QED  BY <2>2, <2>3 DEF CommonPrefixes
  <1>. HIDE DEF C
  <1>3. \A p \in C : /\ p \in Seq(S) /\ Len(p) \in Nat /\ Len(p) <= Len(s) /\ Len(p) <= Len(t)
                     /\ \A i \in 1..Len(p) : p[i] = s[i] /\ p[i] = t[i]
    BY <1>1, PrefixIs
  <1>4. Len(s) \in T
    <2>1. Len(s) \in Nat /\ Len(<<>>) = Len(s) - Len(s)
      OBVIOUS
    <2>. QED  BY <1>2, <2>1
  <1>5. PICK m \in T : \A k \in T : m <= k
    <2>1. T \in SUBSET Nat /\ T # {}
      BY <1>4
    <2>. HIDE DEF T
    <2>. QED  BY <2>1, Data!LeastNatural
  <1>6. PICK p \in C : Len(p) = Len(s) - m
    BY <1>5
  <1>7. \A q \in C : Len(q) <= Len(p)
    <2>. TAKE q \in C
    <2>. DEFINE k == Len(s) - Len(q)
    <2>1. k \in Nat /\ k <= Len(s) /\ Len(q) = Len(s) - k
      BY <1>3
    <2>2. k \in T
      BY <2>1
    <2>3. m <= k /\ m \in Nat
      BY <1>5, <2>2
    <2>. QED  BY <1>3, <1>6, <2>1, <2>3
  <1>8. LongestCommonPrefix({s, t}) \in C
    BY <1>7 DEF LongestCommonPrefix, C
  <1>. QED  BY <1>3, <1>8

LEMMA ReusableIs ==
    ASSUME LlamaType, NEW prompt \in Seq(Token), prompt # <<>>
    PROVE  /\ Reusable(prompt) \in Nat /\ Reusable(prompt) < Len(prompt)
           /\ Reusable(prompt) <= Len(llama.processed)
           /\ \A i \in 1..Reusable(prompt) : llama.processed[i] = prompt[i]
  <1>. DEFINE p == LongestCommonPrefix({llama.processed, prompt})
  <1>1. llama.processed \in Seq(Token)
    BY DEF LlamaType
  <1>2. /\ p \in Seq(Token) /\ Len(p) <= Len(llama.processed) /\ Len(p) <= Len(prompt)
        /\ \A i \in 1..Len(p) : p[i] = llama.processed[i] /\ p[i] = prompt[i]
    BY <1>1, LongestCommon
  <1>. HIDE DEF p
  <1>3. Len(p) \in Nat /\ Len(prompt) \in Nat /\ Len(prompt) > 0 /\ Len(llama.processed) \in Nat
    BY <1>1, <1>2
  <1>4. Reusable(prompt) = IF Len(p) < Len(prompt) THEN Len(p) ELSE Len(prompt) - 1
    BY DEF Reusable, p
  <1>. QED  BY <1>2, <1>3, <1>4

\* A prompt and the first words of its reply.
WithWords(prompt, made) == prompt \o [i \in 1..made |-> <<Last(prompt)[1], i>>]

LEMMA WithWordsIs ==
    ASSUME NEW prompt \in Seq(Token), prompt # <<>>, NEW made \in 0..MaxWords
    PROVE  /\ WithWords(prompt, made) \in Seq(Token)
           /\ Len(WithWords(prompt, made)) = Len(prompt) + made
           /\ \A i \in 1..Len(prompt) : WithWords(prompt, made)[i] = prompt[i]
           /\ \A i \in 1..made : WithWords(prompt, made)[Len(prompt) + i] = <<Last(prompt)[1], i>>
           /\ Last(prompt) \in Token
  <1>. DEFINE reply == [i \in 1..made |-> <<Last(prompt)[1], i>>]
  <1>1. Len(prompt) \in 1..Len(prompt)
    OBVIOUS
  <1>2. Last(prompt) \in Token /\ Last(prompt)[1] \in 0..MaxTurns
    BY <1>1 DEF Last, Token
  <1>3. MaxWords \in Nat
    BY LlamaAssumption
  <1>4. \A i \in 1..made : <<Last(prompt)[1], i>> \in Token
    BY <1>2, <1>3 DEF Token
  <1>5. /\ reply \in Seq(Token) /\ Len(reply) = made
        /\ \A i \in 1..made : reply[i] = <<Last(prompt)[1], i>>
    BY <1>4, <1>3
  <1>. HIDE DEF reply
  <1>6. WithWords(prompt, made) = prompt \o reply
    BY DEF WithWords, reply
  <1>7. /\ prompt \o reply \in Seq(Token) /\ Len(prompt \o reply) = Len(prompt) + Len(reply)
        /\ \A i \in 1..(Len(prompt) + Len(reply)) :
             (prompt \o reply)[i] = IF i <= Len(prompt) THEN prompt[i] ELSE reply[i - Len(prompt)]
    BY <1>5, ConcatProperties
  <1>8. Len(prompt) \in Nat /\ made \in Nat
    BY <1>3
  <1>9. \A i \in 1..made : Len(prompt) + i \in 1..(Len(prompt) + made) /\ ~(Len(prompt) + i <= Len(prompt))
                           /\ (Len(prompt) + i) - Len(prompt) = i
    BY <1>8
  <1>10. \A i \in 1..Len(prompt) : i \in 1..(Len(prompt) + made) /\ i <= Len(prompt)
    BY <1>8
  <1>. QED  BY <1>2, <1>5, <1>6, <1>7, <1>9, <1>10

LEMMA WithNoWords ==
    ASSUME NEW prompt \in Seq(Token), prompt # <<>>
    PROVE  WithWords(prompt, 0) = prompt
  <1>1. 0 \in 0..MaxWords
    BY LlamaAssumption
  <1>2. /\ WithWords(prompt, 0) \in Seq(Token)
        /\ Len(WithWords(prompt, 0)) = Len(prompt) + 0
        /\ \A i \in 1..Len(prompt) : WithWords(prompt, 0)[i] = prompt[i]
    BY <1>1, WithWordsIs
  <1>3. Len(prompt) + 0 = Len(prompt)
    OBVIOUS
  <1>. QED  BY <1>2, <1>3, SameElements

LEMMA WithNextWord ==
    ASSUME NEW prompt \in Seq(Token), prompt # <<>>, NEW made \in 1..MaxWords
    PROVE  WithWords(prompt, made) = WithWords(prompt, made - 1) \o << <<Last(prompt)[1], made>> >>
  <1>. DEFINE word == <<Last(prompt)[1], made>>
              one == <<word>>
              s == WithWords(prompt, made)
              t == WithWords(prompt, made - 1)
              k == Len(prompt)
  <1>1. MaxWords \in Nat /\ made \in 0..MaxWords /\ made - 1 \in 0..MaxWords /\ k \in Nat
    BY LlamaAssumption
  <1>2. /\ s \in Seq(Token) /\ Len(s) = k + made
        /\ \A i \in 1..k : s[i] = prompt[i]
        /\ \A i \in 1..made : s[k + i] = <<Last(prompt)[1], i>>
        /\ Last(prompt) \in Token
    BY <1>1, WithWordsIs
  <1>3. /\ t \in Seq(Token) /\ Len(t) = k + (made - 1)
        /\ \A i \in 1..k : t[i] = prompt[i]
        /\ \A i \in 1..(made - 1) : t[k + i] = <<Last(prompt)[1], i>>
    BY <1>1, WithWordsIs
  <1>. HIDE DEF s, t, k
  <1>4. word \in Token
    BY <1>1, <1>2 DEF Token
  <1>5. one \in Seq(Token) /\ Len(one) = 1 /\ one[1] = word
    BY <1>4
  <1>. HIDE DEF one, word
  <1>6. /\ t \o one \in Seq(Token) /\ Len(t \o one) = Len(t) + 1
        /\ \A i \in 1..(Len(t) + 1) : (t \o one)[i] = IF i <= Len(t) THEN t[i] ELSE one[i - Len(t)]
    <2>1. t \in Seq(Token) /\ one \in Seq(Token)
      BY <1>3, <1>5
    <2>2. /\ t \o one \in Seq(Token) /\ Len(t \o one) = Len(t) + Len(one)
          /\ \A i \in 1..(Len(t) + Len(one)) : (t \o one)[i] = IF i <= Len(t) THEN t[i] ELSE one[i - Len(t)]
      BY ONLY <2>1, ConcatProperties
    <2>. QED  BY <2>2, <1>5
  <1>7. Len(t \o one) = Len(s)
    BY <1>1, <1>2, <1>3, <1>6
  <1>8. ASSUME NEW i \in 1..Len(s)
        PROVE  s[i] = (t \o one)[i]
    <2>1. CASE i \in 1..k
      BY <1>1, <1>2, <1>3, <1>6, <2>1
    <2>2. CASE i \notin 1..k
      <3>. DEFINE j == i - k
      <3>1. j \in 1..made /\ i = k + j
        BY <1>1, <1>2, <2>2
      <3>. HIDE DEF j
      <3>2. s[i] = <<Last(prompt)[1], j>>
        BY <1>2, <3>1
      <3>3. CASE j < made
        <4>1. j \in 1..(made - 1) /\ i <= Len(t) /\ i \in 1..(Len(t) + 1)
          BY <1>1, <1>3, <3>1, <3>3
        <4>. QED  BY <1>3, <1>6, <3>1, <3>2, <4>1
      <3>4. CASE ~(j < made)
        <4>1. j = made /\ ~(i <= Len(t)) /\ i \in 1..(Len(t) + 1) /\ i - Len(t) = 1
          BY <1>1, <1>3, <3>1, <3>4
        <4>2. s[i] = word
          BY <3>2, <4>1 DEF word
        <4>. QED  BY <1>5, <1>6, <4>1, <4>2
      <3>. QED  BY <3>3, <3>4
    <2>. QED  BY <2>1, <2>2
  <1>9. s = t \o one
    BY <1>2, <1>6, <1>7, <1>8, SameElements
  <1>. QED  BY <1>9 DEF s, t, one, word

-----------------------------------------------------------------------------
(***************************************************************************)
(* The inference thread.                                                   *)
(***************************************************************************)
Commands == [epoch : Nat, prompt : Seq(Token)]

\* The stage reads the stream of the last generation asked for, or none; what of it is read
\* and unread are no more words than a reply may have.
StreamOk ==
    /\ stream.epoch \in {0, llama.epoch} /\ ~stream.cut
    /\ stream.epoch = 0 => stream.items = <<>>
    /\ lm.phase /= "idle" <=> stream.epoch /= 0
    /\ lm.reply \in Seq(BOOLEAN) /\ Len(lm.reply) <= MaxWords
    /\ \A i \in 1..Len(stream.items) : stream.items[i] /= "error" => Len(lm.reply) + i <= MaxWords

\* Commands wait in the order of their epochs; behind is what was taken up before them.
InOrder(queue, epoch) ==
    /\ \A i \in 1..Len(queue) : queue[i].epoch \in 1..epoch /\ queue[i].prompt /= <<>>
    /\ \A i, j \in 1..Len(queue) : i < j => queue[i].epoch < queue[j].epoch
Behind(epoch, queue) == \A i \in 1..Len(queue) : epoch < queue[i].epoch

\* Nothing is heard of a command that waits; of the one at work, as many words as it made.
QueueOk ==
    /\ InOrder(llama.queue, llama.epoch)
    /\ \A i \in 1..Len(llama.queue) :
         llama.queue[i].epoch = stream.epoch => stream.items = <<>> /\ lm.reply = <<>>
    /\ Working =>
         /\ llama.job.epoch <= llama.epoch /\ Behind(llama.job.epoch, llama.queue)
         /\ Heard => Len(lm.reply) + Len(stream.items) = llama.job.made

\* How far the cache is at each point of a command; and that what is decoded late is decoded
\* before the thread looks at the epoch again.
JobOk ==
    /\ IsPrefix(llama.processed, llama.kv)
    /\ Working =>
         /\ llama.job.prompt /= <<>> /\ llama.kv = llama.processed
         /\ llama.job.pc \in {"prefill", "decoding"} =>
              /\ llama.job.made = 0 /\ Len(llama.kv) < Len(llama.job.prompt)
              /\ llama.kv = SubSeq(llama.job.prompt, 1, Len(llama.kv))
         /\ llama.job.pc = "sample" => llama.kv = WithWords(llama.job.prompt, llama.job.made)
         /\ llama.job.pc = "feeding" =>
              llama.job.made > 0 /\ llama.kv = WithWords(llama.job.prompt, llama.job.made - 1)
         /\ llama.job.late = 0 \/ (llama.job.late = 1 /\ Stale /\ llama.job.pc \in {"prefill", "sample"})

ModelInv == LlamaType /\ StreamOk /\ QueueOk /\ JobOk

LEMMA LlamaFields ==
    ASSUME LlamaType
    PROVE  /\ llama.epoch \in Nat /\ llama.queue \in Seq(Commands)
           /\ llama.job \in {NoJob} \cup Job
           /\ llama.kv \in Seq(Token) /\ llama.processed \in Seq(Token)
           /\ llama = [epoch |-> llama.epoch, queue |-> llama.queue, job |-> llama.job, kv |-> llama.kv,
                       processed |-> llama.processed]
           /\ stream.epoch \in Nat /\ stream.items \in Seq(Item) /\ stream.open \in BOOLEAN
           /\ stream.cut \in BOOLEAN
  BY DEF LlamaType, Commands

LEMMA JobFields ==
    ASSUME LlamaType, Working
    PROVE  /\ llama.job \in Job /\ llama.job.epoch \in Nat \ {0}
           /\ llama.job.prompt \in Seq(Token)
           /\ llama.job.made \in 0..MaxWords /\ llama.job.late \in Nat
           /\ llama.job.pc \in {"prefill", "decoding", "sample", "feeding"}
  BY DEF LlamaType, Working, Job

LEMMA NoJobIs == NoJob \notin Job /\ NoJob.epoch = 0
  <1>1. \A j \in Job : j.epoch /= 0
    BY DEF Job
  <1>. QED  BY <1>1 DEF NoJob

LEMMA InOrderTail ==
    ASSUME NEW queue \in Seq(Commands), NEW epoch \in Nat, InOrder(queue, epoch), queue /= <<>>
    PROVE  /\ Head(queue) \in Commands /\ Tail(queue) \in Seq(Commands)
           /\ Head(queue).epoch \in 1..epoch /\ Head(queue).prompt /= <<>>
           /\ InOrder(Tail(queue), epoch) /\ Behind(Head(queue).epoch, Tail(queue))
           /\ \A i \in 1..Len(Tail(queue)) : i + 1 \in 1..Len(queue) /\ Tail(queue)[i] = queue[i + 1]
           /\ 1 \in 1..Len(queue) /\ Head(queue) = queue[1]
  <1>1. /\ Tail(queue) \in Seq(Commands) /\ Len(Tail(queue)) = Len(queue) - 1
        /\ Head(queue) = queue[1]
        /\ 1 \in 1..Len(queue) /\ Len(queue) \in Nat
        /\ \A i \in 1..Len(Tail(queue)) : Tail(queue)[i] = queue[i + 1]
    BY HeadTailProperties
  <1>2. \A i \in 1..Len(Tail(queue)) : i + 1 \in 1..Len(queue) /\ 1 < i + 1
    BY <1>1
  <1>3. \A i, j \in 1..Len(Tail(queue)) : i < j => i + 1 < j + 1
    BY <1>1
  <1>4. queue[1] \in Commands
    BY <1>1
  <1>. QED  BY <1>1, <1>2, <1>3, <1>4 DEF InOrder, Behind

LEMMA InOrderMore ==
    ASSUME NEW queue \in Seq(Commands), NEW epoch \in Nat, InOrder(queue, epoch),
           NEW prompt \in Seq(Token), prompt /= <<>>
    PROVE  LET more == Append(queue, [epoch |-> epoch + 1, prompt |-> prompt])
           IN  /\ more \in Seq(Commands) /\ InOrder(more, epoch + 1)
               /\ \A e \in Nat : e <= epoch /\ Behind(e, queue) => Behind(e, more)
               /\ \A i \in 1..Len(more) : i \notin 1..Len(queue) => more[i].epoch = epoch + 1
               /\ \A i \in 1..Len(queue) : more[i].epoch <= epoch
  <1>. DEFINE command == [epoch |-> epoch + 1, prompt |-> prompt]
              more == Append(queue, command)
  <1>1. command \in Commands /\ command.epoch = epoch + 1 /\ command.prompt = prompt
    BY DEF Commands
  <1>. HIDE DEF command
  <1>2. /\ more \in Seq(Commands) /\ Len(more) = Len(queue) + 1 /\ more[Len(queue) + 1] = command
        /\ \A i \in 1..Len(queue) : more[i] = queue[i]
    BY <1>1, AppendProperties
  <1>. HIDE DEF more
  <1>3. /\ Len(queue) \in Nat /\ \A i \in 1..Len(more) : i \in 1..Len(queue) \/ i = Len(queue) + 1
        /\ \A i \in 1..Len(queue) : queue[i].epoch \in 1..epoch /\ queue[i].prompt /= <<>>
    BY <1>2 DEF InOrder
  <1>4. InOrder(more, epoch + 1)
    <2>1. \A i \in 1..Len(more) : more[i].epoch \in 1..(epoch + 1) /\ more[i].prompt /= <<>>
      BY <1>1, <1>2, <1>3
    <2>2. ASSUME NEW i \in 1..Len(more), NEW j \in 1..Len(more), i < j
          PROVE  more[i].epoch < more[j].epoch
      <3>1. i \in 1..Len(queue)
        BY <1>2, <1>3, <2>2
      <3>2. CASE j \in 1..Len(queue)
        BY <1>2, <2>2, <3>1, <3>2 DEF InOrder
      <3>3. CASE j = Len(queue) + 1
        BY <1>1, <1>2, <1>3, <3>1, <3>3
      <3>. QED  BY <1>3, <3>2, <3>3
    <2>. QED  BY <2>1, <2>2 DEF InOrder
  <1>5. \A e \in Nat : e <= epoch /\ Behind(e, queue) => Behind(e, more)
    <2>. SUFFICES ASSUME NEW e \in Nat, e <= epoch, Behind(e, queue), NEW i \in 1..Len(more)
                  PROVE  e < more[i].epoch
      BY DEF Behind
    <2>1. CASE i \in 1..Len(queue)
      BY <1>2, <2>1 DEF Behind
    <2>2. CASE i = Len(queue) + 1
      BY <1>1, <1>2, <2>2
    <2>. QED  BY <1>3, <2>1, <2>2
  <1>6. /\ \A i \in 1..Len(more) : i \notin 1..Len(queue) => more[i].epoch = epoch + 1
        /\ \A i \in 1..Len(queue) : more[i].epoch <= epoch
    BY <1>1, <1>2, <1>3
  <1>. QED  BY <1>2, <1>4, <1>5, <1>6 DEF more, command

-----------------------------------------------------------------------------
\* A stream that is closed stays what it was, but for an error behind its words.
LEMMA ClosesStream ==
    ASSUME LlamaType, StreamOk, llama'.epoch = llama.epoch, UNCHANGED lm,
           NEW epoch \in Nat, NEW items \in {<<>>, <<"error">>}, NEW cut \in BOOLEAN,
           Closes(epoch, items, cut), cut => stream.epoch /= epoch, epoch /= 0
    PROVE  /\ stream' \in [epoch : Nat, items : Seq(Item), open : BOOLEAN, cut : BOOLEAN]
           /\ StreamOk' /\ stream'.epoch = stream.epoch
           /\ stream.epoch /= epoch => stream'.items = stream.items
  <1>1. /\ stream.epoch \in Nat /\ stream.items \in Seq(Item) /\ stream.open \in BOOLEAN
        /\ stream.cut \in BOOLEAN
        /\ stream \in [epoch : Nat, items : Seq(Item), open : BOOLEAN, cut : BOOLEAN]
    BY DEF LlamaType
  <1>2. CASE stream.epoch /= epoch
    <2>1. stream' = stream
      BY <1>2 DEF Closes
    <2>. QED  BY <1>1, <2>1 DEF StreamOk
  <1>3. CASE stream.epoch = epoch
    <2>. DEFINE more == stream.items \o items
    <2>1. stream' = [stream EXCEPT !.items = more, !.open = FALSE, !.cut = cut] /\ ~cut
      BY <1>3 DEF Closes
    <2>2. /\ items \in Seq(Item) /\ (items = <<>> => Len(items) = 0)
          /\ items = <<"error">> => Len(items) = 1 /\ items[1] = "error"
      <3>1. "error" \in Item
        BY DEF Item
      <3>2. CASE items = <<>>
        BY <3>2
      <3>3. CASE items = <<"error">>
        BY <3>1, <3>3
      <3>. QED  BY <3>2, <3>3
    <2>3. /\ more \in Seq(Item) /\ Len(more) = Len(stream.items) + Len(items)
          /\ \A i \in 1..(Len(stream.items) + Len(items)) :
               more[i] = IF i <= Len(stream.items) THEN stream.items[i] ELSE items[i - Len(stream.items)]
      BY <1>1, <2>2, ConcatProperties
    <2>. HIDE DEF more
    <2>4. /\ stream' \in [epoch : Nat, items : Seq(Item), open : BOOLEAN, cut : BOOLEAN]
          /\ stream'.epoch = stream.epoch /\ stream'.items = more /\ stream'.cut = cut
      BY <1>1, <2>1, <2>3
    <2>5. ASSUME NEW i \in 1..Len(more), more[i] /= "error"
          PROVE  i \in 1..Len(stream.items) /\ more[i] = stream.items[i]
      <3>1. Len(stream.items) \in Nat /\ i \in 1..(Len(stream.items) + Len(items))
        BY <1>1, <2>3
      <3>2. CASE i <= Len(stream.items)
        BY <2>3, <3>1, <3>2
      <3>3. CASE ~(i <= Len(stream.items))
        <4>1. items = <<"error">> /\ i - Len(stream.items) = 1
          <5>1. items /= <<>>
            BY <2>2, <3>1, <3>3
          <5>2. items = <<"error">>
            BY <5>1
          <5>. QED  BY <2>2, <3>1, <3>3, <5>2
        <4>. QED  BY <2>2, <2>3, <2>5, <3>1, <3>3, <4>1
      <3>. QED  BY <3>2, <3>3
    <2>6. UNCHANGED lm /\ llama'.epoch = llama.epoch
      OBVIOUS
    <2>. QED  BY <1>3, <2>1, <2>4, <2>5, <2>6 DEF StreamOk
  <1>. QED  BY <1>2, <1>3

\* The command at work, or the one that would have been, is over.
LEMMA WorkOver ==
    ASSUME ModelInv, UNCHANGED lm, NEW epoch \in Nat, NEW items \in {<<>>, <<"error">>},
           NEW cut \in BOOLEAN,
           Closes(epoch, items, cut), cut => stream.epoch /= epoch, epoch /= 0,
           llama'.epoch = llama.epoch, llama'.job = NoJob,
           llama' \in [epoch : Nat, queue : Seq([epoch : Nat, prompt : Seq(Token)]),
                       job : {NoJob} \cup Job, kv : Seq(Token), processed : Seq(Token)],
           IsPrefix(llama'.processed, llama'.kv),
           InOrder(llama'.queue, llama.epoch), Behind(epoch, llama'.queue),
           \A i \in 1..Len(llama'.queue) : \E j \in 1..Len(llama.queue) : llama'.queue[i] = llama.queue[j]
    PROVE  ModelInv'
  <1>1. LlamaType /\ StreamOk /\ QueueOk /\ JobOk
    BY DEF ModelInv
  <1>2. /\ stream' \in [epoch : Nat, items : Seq(Item), open : BOOLEAN, cut : BOOLEAN]
        /\ StreamOk' /\ stream'.epoch = stream.epoch
        /\ stream.epoch /= epoch => stream'.items = stream.items
    BY <1>1, ClosesStream
  <1>3. LlamaType'
    BY <1>2 DEF LlamaType
  <1>4. ~Working'
    BY DEF Working
  <1>5. QueueOk'
    <2>1. ASSUME NEW i \in 1..Len(llama'.queue), llama'.queue[i].epoch = stream'.epoch
          PROVE  stream'.items = <<>> /\ lm'.reply = <<>>
      <3>1. PICK j \in 1..Len(llama.queue) : llama'.queue[i] = llama.queue[j]
        OBVIOUS
      <3>2. epoch < llama'.queue[i].epoch
        BY DEF Behind
      <3>3. stream.epoch /= epoch
        BY <1>2, <2>1, <3>2
      <3>4. stream.items = <<>> /\ lm.reply = <<>>
        BY <1>1, <1>2, <2>1, <3>1 DEF QueueOk
      <3>. QED  BY <1>2, <3>3, <3>4
    <2>2. InOrder(llama'.queue, llama'.epoch)
      OBVIOUS
    <2>. QED  BY <1>4, <2>1, <2>2 DEF QueueOk
  <1>6. JobOk'
    BY <1>4 DEF JobOk
  <1>. QED  BY <1>2, <1>3, <1>5, <1>6 DEF ModelInv

-----------------------------------------------------------------------------
LEMMA TakeCommandKeeps ==
    ASSUME ModelInv, UNCHANGED lm, TakeCommand
    PROVE  ModelInv'
  <1>. DEFINE command == Head(llama.queue)
              prompt == command.prompt
  <1>1. LlamaType /\ StreamOk /\ QueueOk /\ JobOk
    BY DEF ModelInv
  <1>2. ~Working /\ llama.queue /= <<>> /\ stream' = stream
    BY DEF TakeCommand
  <1>3. /\ command \in Commands /\ Tail(llama.queue) \in Seq(Commands)
        /\ command.epoch \in 1..llama.epoch /\ prompt /= <<>>
        /\ InOrder(Tail(llama.queue), llama.epoch) /\ Behind(command.epoch, Tail(llama.queue))
        /\ \A i \in 1..Len(Tail(llama.queue)) :
             i + 1 \in 1..Len(llama.queue) /\ Tail(llama.queue)[i] = llama.queue[i + 1]
        /\ 1 \in 1..Len(llama.queue) /\ command = llama.queue[1]
    BY <1>1, <1>2, LlamaFields, InOrderTail DEF QueueOk
  <1>4. prompt \in Seq(Token) /\ command.epoch \in Nat \ {0}
    BY <1>1, <1>3, LlamaFields DEF Commands
  <1>5. PICK shared \in {0, Reusable(prompt)} :
          llama' = [Trimmed(shared) EXCEPT
                      !.queue = Tail(@),
                      !.job = [epoch |-> command.epoch, prompt |-> command.prompt,
                               made |-> 0, late |-> 0, pc |-> "prefill"]]
    BY DEF TakeCommand
  <1>. DEFINE kv == SubSeq(llama.kv, 1, shared)
              processed == SubSeq(llama.processed, 1, shared)
              job == [epoch |-> command.epoch, prompt |-> command.prompt, made |-> 0, late |-> 0,
                      pc |-> "prefill"]
  <1>6. /\ shared \in Nat /\ shared < Len(prompt) /\ shared <= Len(llama.processed)
        /\ \A i \in 1..shared : llama.processed[i] = prompt[i]
    <2>1. /\ Reusable(prompt) \in Nat /\ Reusable(prompt) < Len(prompt)
          /\ Reusable(prompt) <= Len(llama.processed)
          /\ \A i \in 1..Reusable(prompt) : llama.processed[i] = prompt[i]
      BY <1>1, <1>3, <1>4, ReusableIs
    <2>2. Len(prompt) \in Nat /\ Len(llama.processed) \in Nat
      BY <1>1, <1>4, LlamaFields
    <2>. QED  BY <2>1, <2>2
  <1>7. /\ Len(llama.processed) <= Len(llama.kv)
        /\ \A i \in 1..Len(llama.processed) : llama.processed[i] = llama.kv[i]
    BY <1>1, LlamaFields, PrefixIs DEF JobOk
  <1>8. /\ kv \in Seq(Token) /\ Len(kv) = shared /\ \A i \in 1..shared : kv[i] = llama.kv[i]
        /\ processed \in Seq(Token) /\ Len(processed) = shared
        /\ \A i \in 1..shared : processed[i] = llama.processed[i]
    <2>1. /\ llama.kv \in Seq(Token) /\ llama.processed \in Seq(Token)
          /\ Len(llama.kv) \in Nat /\ Len(llama.processed) \in Nat
      BY <1>1, LlamaFields
    <2>2. shared \in 0..Len(llama.kv) /\ shared \in 0..Len(llama.processed)
      BY <1>6, <1>7, <2>1
    <2>. QED  BY <2>1, <2>2, FirstOf
  <1>9. kv = processed
    <2>1. \A i \in 1..shared : i \in 1..Len(llama.processed)
      BY <1>1, <1>6, LlamaFields
    <2>. QED  BY <1>7, <1>8, <2>1, SameElements
  <1>10. kv = SubSeq(prompt, 1, Len(kv))
    <2>1. shared \in 0..Len(prompt)
      BY <1>4, <1>6
    <2>2. /\ SubSeq(prompt, 1, shared) \in Seq(Token) /\ Len(SubSeq(prompt, 1, shared)) = shared
          /\ \A i \in 1..shared : SubSeq(prompt, 1, shared)[i] = prompt[i]
      BY <1>4, <2>1, FirstOf
    <2>. QED  BY <1>6, <1>8, <1>9, <2>2, SameElements
  <1>11. job \in Job
    BY <1>4, LlamaAssumption DEF Job
  <1>12. /\ llama'.epoch = llama.epoch /\ llama'.queue = Tail(llama.queue) /\ llama'.job = job
         /\ llama'.kv = kv /\ llama'.processed = processed
         /\ llama' = [epoch |-> llama.epoch, queue |-> Tail(llama.queue), job |-> job, kv |-> kv,
                      processed |-> processed]
    BY <1>1, <1>5, LlamaFields DEF Trimmed
  <1>. HIDE DEF kv, processed
  <1>13. LlamaType'
    BY <1>1, <1>2, <1>3, <1>8, <1>11, <1>12, LlamaFields DEF LlamaType, Commands
  <1>14. /\ llama'.job.epoch = command.epoch /\ llama'.job.prompt = prompt /\ llama'.job.made = 0
         /\ llama'.job.late = 0 /\ llama'.job.pc = "prefill"
    BY <1>12
  <1>15. StreamOk'
    BY <1>1, <1>2, <1>12 DEF StreamOk
  <1>16. QueueOk'
    <2>1. ASSUME NEW i \in 1..Len(llama'.queue), llama'.queue[i].epoch = stream'.epoch
          PROVE  stream'.items = <<>> /\ lm'.reply = <<>>
      BY <1>1, <1>2, <1>3, <1>12, <2>1 DEF QueueOk
    <2>2. Heard' => Len(lm'.reply) + Len(stream'.items) = llama'.job.made
      <3>1. ASSUME Heard'
            PROVE  stream.items = <<>> /\ lm.reply = <<>>
        <4>1. stream.epoch = llama.queue[1].epoch
          BY <1>2, <1>3, <1>14, <3>1 DEF Heard
        <4>. QED  BY <1>1, <1>3, <4>1 DEF QueueOk
      <3>2. Len(<<>>) + Len(<<>>) = 0
        OBVIOUS
      <3>. QED  BY <1>2, <1>14, <3>1, <3>2
    <2>3. llama'.job.epoch <= llama'.epoch
      BY <1>1, <1>3, <1>12, <1>14, LlamaFields
    <2>. QED  BY <1>3, <1>12, <1>14, <2>1, <2>2, <2>3 DEF QueueOk
  <1>17. JobOk'
    <2>1. IsPrefix(llama'.processed, llama'.kv)
      <3>1. IsPrefix(processed, processed)
        BY <1>8, PrefixIs
      <3>. QED  BY <1>9, <1>12, <3>1
    <2>2. /\ llama'.kv = SubSeq(llama'.job.prompt, 1, Len(llama'.kv))
          /\ Len(llama'.kv) < Len(llama'.job.prompt)
      BY <1>6, <1>8, <1>10, <1>12, <1>14
    <2>. QED  BY <1>3, <1>9, <1>12, <1>14, <2>1, <2>2 DEF JobOk
  <1>. QED  BY <1>13, <1>15, <1>16, <1>17 DEF ModelInv

LEMMA RefuseCommandKeeps ==
    ASSUME ModelInv, UNCHANGED lm, RefuseCommand
    PROVE  ModelInv'
  <1>. DEFINE epoch == Head(llama.queue).epoch
  <1>1. LlamaType /\ StreamOk /\ QueueOk /\ JobOk
    BY DEF ModelInv
  <1>2. ~Working /\ llama.queue /= <<>> /\ llama' = [llama EXCEPT !.queue = Tail(@)]
    BY DEF RefuseCommand
  <1>3. Closes(epoch, <<"error">>, FALSE)
    BY DEF RefuseCommand
  <1>4. /\ Tail(llama.queue) \in Seq(Commands) /\ epoch \in 1..llama.epoch
        /\ InOrder(Tail(llama.queue), llama.epoch) /\ Behind(epoch, Tail(llama.queue))
        /\ \A i \in 1..Len(Tail(llama.queue)) :
             i + 1 \in 1..Len(llama.queue) /\ Tail(llama.queue)[i] = llama.queue[i + 1]
    BY <1>1, <1>2, LlamaFields, InOrderTail DEF QueueOk
  <1>5. epoch \in Nat /\ epoch /= 0
    BY <1>1, <1>4, LlamaFields
  <1>6. /\ llama'.epoch = llama.epoch /\ llama'.queue = Tail(llama.queue)
        /\ llama'.job = llama.job
        /\ llama'.kv = llama.kv /\ llama'.processed = llama.processed
        /\ llama' = [epoch |-> llama.epoch, queue |-> Tail(llama.queue), job |-> llama.job, kv |-> llama.kv,
                     processed |-> llama.processed]
    BY <1>1, <1>2, LlamaFields
  <1>7. llama' \in [epoch : Nat, queue : Seq([epoch : Nat, prompt : Seq(Token)]),
                    job : {NoJob} \cup Job, kv : Seq(Token), processed : Seq(Token)]
    BY <1>1, <1>4, <1>6, LlamaFields DEF Commands
  <1>8. llama'.job = NoJob /\ IsPrefix(llama'.processed, llama'.kv)
    BY <1>1, <1>2, <1>6 DEF Working, JobOk
  <1>9. \A i \in 1..Len(llama'.queue) : \E j \in 1..Len(llama.queue) : llama'.queue[i] = llama.queue[j]
    BY <1>4, <1>6
  <1>. HIDE DEF epoch
  <1>10. InOrder(llama'.queue, llama.epoch) /\ Behind(epoch, llama'.queue)
    BY <1>4, <1>6
  <1>11. <<"error">> \in {<<>>, <<"error">>} /\ FALSE \in BOOLEAN
    OBVIOUS
  <1>. QED  BY <1>3, <1>5, <1>6, <1>7, <1>8, <1>9, <1>10, <1>11, WorkOver

\* A command comes to an end, with whatever its last decode left in the cache.
LEMMA JobOver ==
    ASSUME ModelInv, UNCHANGED lm, Working, NEW kv \in Seq(Token), IsPrefix(llama.processed, kv),
           llama' = [llama EXCEPT !.kv = kv, !.job = NoJob],
           NEW items \in {<<>>, <<"error">>}, NEW cut \in BOOLEAN, EndJob(items, cut), cut => ~Heard
    PROVE  ModelInv'
  <1>. DEFINE epoch == llama.job.epoch
  <1>1. LlamaType /\ StreamOk /\ QueueOk /\ JobOk
    BY DEF ModelInv
  <1>2. epoch \in Nat /\ epoch /= 0
    BY <1>1, JobFields
  <1>3. Closes(epoch, items, cut)
    BY DEF EndJob
  <1>4. cut => stream.epoch /= epoch
    BY DEF Heard
  <1>5. /\ llama'.epoch = llama.epoch /\ llama'.queue = llama.queue /\ llama'.job = NoJob
        /\ llama'.kv = kv /\ llama'.processed = llama.processed
        /\ llama' = [epoch |-> llama.epoch, queue |-> llama.queue, job |-> NoJob, kv |-> kv,
                     processed |-> llama.processed]
    BY <1>1, LlamaFields
  <1>6. llama' \in [epoch : Nat, queue : Seq([epoch : Nat, prompt : Seq(Token)]),
                    job : {NoJob} \cup Job, kv : Seq(Token), processed : Seq(Token)]
    BY <1>1, <1>5, LlamaFields DEF Commands
  <1>7. IsPrefix(llama'.processed, llama'.kv)
    BY <1>5
  <1>8. InOrder(llama'.queue, llama.epoch) /\ Behind(epoch, llama'.queue)
    BY <1>1, <1>5 DEF QueueOk
  <1>9. \A i \in 1..Len(llama'.queue) : \E j \in 1..Len(llama.queue) : llama'.queue[i] = llama.queue[j]
    BY <1>5
  <1>. HIDE DEF epoch
  <1>. QED  BY <1>2, <1>3, <1>4, <1>5, <1>6, <1>7, <1>8, <1>9, WorkOver

\* ... or leaves the cache alone.
LEMMA JobDropped ==
    ASSUME ModelInv, UNCHANGED lm, Working, llama' = [llama EXCEPT !.job = NoJob],
           NEW items \in {<<>>, <<"error">>}, NEW cut \in BOOLEAN, EndJob(items, cut), cut => ~Heard
    PROVE  ModelInv'
  <1>1. LlamaType /\ JobOk
    BY DEF ModelInv
  <1>2. llama.kv \in Seq(Token) /\ IsPrefix(llama.processed, llama.kv)
    BY <1>1, LlamaFields DEF JobOk
  <1>3. llama' = [llama EXCEPT !.kv = llama.kv, !.job = NoJob]
    BY <1>1, LlamaFields
  <1>. QED  BY <1>2, <1>3, JobOver

LEMMA StaleUnheard ==
    ASSUME ModelInv, Working
    PROVE  Stale => ~Heard
  <1>1. llama.job.epoch \in Nat \ {0} /\ stream.epoch \in {0, llama.epoch}
    BY JobFields DEF ModelInv, StreamOk
  <1>. QED  BY <1>1 DEF Stale, Heard

\* The command goes on: nothing but the job, the cache and its record changes.
LEMMA JobMoves ==
    ASSUME ModelInv, UNCHANGED lm, Working, NEW job \in Job, NEW tokens \in Seq(Token),
           llama' = [llama EXCEPT !.job = job, !.kv = tokens, !.processed = tokens],
           job.epoch = llama.job.epoch, job.prompt = llama.job.prompt,
           stream' \in [epoch : Nat, items : Seq(Item), open : BOOLEAN, cut : BOOLEAN], StreamOk',
           stream'.epoch = stream.epoch,
           \/ stream' = stream /\ job.made = llama.job.made
           \/ Heard /\ Len(stream'.items) = Len(stream.items) + 1 /\ job.made = llama.job.made + 1
    PROVE  LlamaType' /\ StreamOk' /\ QueueOk' /\ Working' /\ (Stale' <=> Stale)
           /\ llama'.job = job /\ llama'.kv = tokens /\ llama'.processed = tokens
           /\ IsPrefix(llama'.processed, llama'.kv)
  <1>1. LlamaType /\ StreamOk /\ QueueOk /\ JobOk
    BY DEF ModelInv
  <1>2. /\ llama'.epoch = llama.epoch /\ llama'.queue = llama.queue /\ llama'.job = job
        /\ llama'.kv = tokens /\ llama'.processed = tokens
        /\ llama' = [epoch |-> llama.epoch, queue |-> llama.queue, job |-> job, kv |-> tokens,
                     processed |-> tokens]
    BY <1>1, LlamaFields
  <1>3. LlamaType'
    BY <1>1, <1>2, LlamaFields DEF LlamaType, Commands
  <1>4. Working' /\ (Stale' <=> Stale) /\ (Heard' <=> Heard)
    BY <1>2, NoJobIs DEF Working, Stale, Heard
  <1>5. IsPrefix(llama'.processed, llama'.kv)
    BY <1>2, PrefixIs
  <1>6. QueueOk'
    <2>1. ASSUME NEW i \in 1..Len(llama'.queue), llama'.queue[i].epoch = stream'.epoch
          PROVE  stream'.items = <<>> /\ lm'.reply = <<>>
      <3>1. llama.queue[i].epoch = stream.epoch /\ i \in 1..Len(llama.queue)
        BY <1>2, <2>1
      <3>2. stream.items = <<>> /\ lm.reply = <<>>
        BY <1>1, <3>1 DEF QueueOk
      <3>3. ~Heard
        <4>1. llama.job.epoch < llama.queue[i].epoch /\ llama.job.epoch \in Nat
          BY <1>1, <3>1, JobFields DEF QueueOk, Behind
        <4>. QED  BY <1>1, <3>1, <4>1, LlamaFields DEF Heard
      <3>. QED  BY <3>2, <3>3
    <2>2. Heard' => Len(lm'.reply) + Len(stream'.items) = llama'.job.made
      <3>1. Heard => Len(lm.reply) + Len(stream.items) = llama.job.made
        BY <1>1 DEF QueueOk
      <3>2. Len(lm.reply) \in Nat /\ Len(stream.items) \in Nat /\ llama.job.made \in Nat
        <4>1. lm.reply \in Seq(BOOLEAN)
          BY <1>1 DEF StreamOk
        <4>2. stream.items \in Seq(Item)
          BY <1>1, LlamaFields
        <4>3. llama.job.made \in 0..MaxWords /\ MaxWords \in Nat
          BY <1>1, JobFields, LlamaAssumption
        <4>4. llama.job.made \in Nat
          BY <4>3
        <4>. QED  BY <4>1, <4>2, <4>4
      <3>3. lm' = lm /\ llama'.job.made = job.made
        BY <1>2
      <3>4. CASE stream' = stream /\ job.made = llama.job.made
        BY <1>4, <3>1, <3>3, <3>4
      <3>5. CASE /\ Heard /\ Len(stream'.items) = Len(stream.items) + 1
                 /\ job.made = llama.job.made + 1
        <4>. DEFINE a == Len(lm.reply)
                    b == Len(stream.items)
                    c == Len(stream'.items)
                    m == llama.job.made
                    n == job.made
        <4>1. Len(lm.reply) + Len(stream.items) = llama.job.made
          BY <3>1, <3>5
        <4>2. Len(stream'.items) = Len(stream.items) + 1 /\ job.made = llama.job.made + 1
          BY <3>5
        <4>3. Len(lm.reply) + Len(stream'.items) = job.made
          <5>1. a \in Nat /\ b \in Nat /\ a + b = m /\ c = b + 1 /\ n = m + 1
            BY <3>2, <4>1, <4>2
          <5>. HIDE DEF a, b, c, m, n
          <5>2. a + c = n
            BY <5>1
          <5>. QED  BY <5>2 DEF a, c, n
        <4>. QED  BY <3>3, <4>3
      <3>. QED  BY <3>4, <3>5
    <2>3. llama'.job.epoch <= llama'.epoch /\ Behind(llama'.job.epoch, llama'.queue)
      BY <1>1, <1>2 DEF QueueOk
    <2>4. InOrder(llama'.queue, llama'.epoch)
      BY <1>1, <1>2 DEF QueueOk
    <2>. QED  BY <2>1, <2>2, <2>3, <2>4 DEF QueueOk
  <1>. QED  BY <1>2, <1>3, <1>4, <1>5, <1>6

LEMMA PrefillKeeps ==
    ASSUME ModelInv, UNCHANGED lm, Prefill
    PROVE  ModelInv'
  <1>1. LlamaType /\ StreamOk /\ QueueOk /\ JobOk /\ Working /\ llama.job.pc = "prefill"
    BY DEF ModelInv, Prefill
  <1>2. CASE Stale
    <2>1. llama' = [llama EXCEPT !.job = NoJob] /\ EndJob(<<>>, TRUE)
      BY <1>2 DEF Prefill
    <2>2. ~Heard
      BY <1>1, <1>2, StaleUnheard
    <2>3. <<>> \in {<<>>, <<"error">>} /\ TRUE \in BOOLEAN
      OBVIOUS
    <2>. QED  BY <1>1, <2>1, <2>2, <2>3, JobDropped
  <1>3. CASE ~Stale
    <2>. DEFINE job == [llama.job EXCEPT !.pc = "decoding"]
    <2>1. llama' = [llama EXCEPT !.job.pc = "decoding"] /\ stream' = stream
      BY <1>3 DEF Prefill
    <2>2. llama.kv \in Seq(Token) /\ llama.kv = llama.processed
      BY <1>1, LlamaFields DEF JobOk
    <2>3. /\ job \in Job /\ job.epoch = llama.job.epoch /\ job.prompt = llama.job.prompt
          /\ job.made = llama.job.made /\ job.pc = "decoding" /\ job.late = llama.job.late
      BY <1>1, JobFields DEF Job
    <2>4. llama' = [llama EXCEPT !.job = job, !.kv = llama.kv, !.processed = llama.kv]
      BY <1>1, <2>1, <2>2, LlamaFields
    <2>. HIDE DEF job
    <2>5. stream' \in [epoch : Nat, items : Seq(Item), open : BOOLEAN, cut : BOOLEAN] /\ StreamOk'
      <3>1. stream' \in [epoch : Nat, items : Seq(Item), open : BOOLEAN, cut : BOOLEAN]
        BY <1>1, <2>1 DEF LlamaType
      <3>2. llama'.epoch = llama.epoch
        BY <1>1, <2>4, LlamaFields
      <3>. QED  BY <1>1, <2>1, <3>1, <3>2 DEF StreamOk
    <2>6. LlamaType' /\ StreamOk' /\ QueueOk' /\ Working' /\ (Stale' <=> Stale)
          /\ llama'.job = job /\ llama'.kv = llama.kv /\ llama'.processed = llama.kv
          /\ IsPrefix(llama'.processed, llama'.kv)
      BY <1>1, <2>1, <2>2, <2>3, <2>4, <2>5, JobMoves
    <2>7. llama.job.late = 0
      BY <1>1, <1>3 DEF JobOk
    <2>8. JobOk'
      BY <1>1, <2>2, <2>3, <2>6, <2>7 DEF JobOk
    <2>. QED  BY <2>6, <2>8 DEF ModelInv
  <1>. QED  BY <1>2, <1>3

\* What a decode adds, and where the cache is then.
LEMMA BatchIs ==
    ASSUME ModelInv, Working, llama.job.pc \in {"decoding", "feeding"}
    PROVE  /\ Batch \in Seq(Token) /\ llama.processed \o Batch \in Seq(Token)
           /\ llama.kv \o Batch = llama.processed \o Batch
           /\ IsPrefix(llama.processed, llama.kv \o Batch)
           /\ IF Len(llama.processed \o Batch) < Len(llama.job.prompt)
              THEN /\ llama.job.made = 0
                   /\ llama.processed \o Batch = SubSeq(llama.job.prompt, 1, Len(llama.processed \o Batch))
              ELSE llama.processed \o Batch = WithWords(llama.job.prompt, llama.job.made)
  <1>. DEFINE prompt == llama.job.prompt
              base == Len(llama.processed)
              size == Len(prompt)
              made == llama.job.made
  <1>1. LlamaType /\ JobOk /\ llama.kv = llama.processed /\ prompt /= <<>>
    BY DEF ModelInv, JobOk
  <1>2. /\ llama.processed \in Seq(Token) /\ prompt \in Seq(Token) /\ made \in 0..MaxWords
        /\ base \in Nat /\ size \in Nat /\ size > 0
    BY <1>1, LlamaFields, JobFields
  <1>3. CASE llama.job.pc = "decoding"
    <2>. DEFINE upTo == IF base + BatchSize < size THEN base + BatchSize ELSE size
    <2>1. Batch = SubSeq(prompt, base + 1, upTo)
      BY <1>3 DEF Batch
    <2>2. made = 0 /\ base < size /\ llama.processed = SubSeq(prompt, 1, base)
      BY <1>1, <1>3 DEF JobOk
    <2>3. upTo \in base..size /\ upTo <= size /\ upTo \in Nat
      BY <1>2, <2>2, LlamaAssumption
    <2>. HIDE DEF upTo
    <2>4. Batch \in Seq(Token)
      <3>1. \A i \in (base + 1)..upTo : prompt[i] \in Token
        BY <1>2, <2>3
      <3>2. base + 1 \in Int /\ upTo \in Int
        BY <1>2, <2>3
      <3>. QED  BY <2>1, <3>1, <3>2, SubSeqProperties
    <2>5. llama.processed \o Batch = SubSeq(prompt, 1, upTo)
      <3>1. 1 \in 1..size + 1 /\ base \in (1 - 1)..size /\ upTo \in base..size
        BY <1>2, <2>2, <2>3
      <3>2. SubSeq(prompt, 1, base) \o SubSeq(prompt, base + 1, upTo) = SubSeq(prompt, 1, upTo)
        BY <1>2, <3>1, ConcatAdjacentSubSeq
      <3>. QED  BY <2>1, <2>2, <3>2
    <2>6. SubSeq(prompt, 1, upTo) \in Seq(Token) /\ Len(SubSeq(prompt, 1, upTo)) = upTo
      <3>1. upTo \in 0..size
        BY <1>2, <2>3
      <3>. QED  BY <1>2, <3>1, FirstOf
    <2>7. CASE upTo < size
      BY <1>1, <2>2, <2>4, <2>5, <2>6, <2>7, PrefixOfMore, <1>2
    <2>8. CASE ~(upTo < size)
      <3>1. upTo = size
        BY <1>2, <2>3, <2>8
      <3>2. SubSeq(prompt, 1, upTo) = prompt
        BY <1>2, <3>1, SubSeqFull
      <3>3. WithWords(prompt, made) = prompt
        BY <1>1, <1>2, <2>2, WithNoWords
      <3>. QED  BY <1>1, <2>2, <2>4, <2>5, <2>6, <2>8, <3>2, <3>3, PrefixOfMore, <1>2
    <2>. QED  BY <2>7, <2>8
  <1>4. CASE llama.job.pc = "feeding"
    <2>1. Batch = << <<Last(prompt)[1], made>> >>
      BY <1>4 DEF Batch
    <2>2. made > 0 /\ llama.processed = WithWords(prompt, made - 1)
      BY <1>1, <1>4 DEF JobOk
    <2>3. made \in 1..MaxWords
      BY <1>2, <2>2
    <2>4. llama.processed \o Batch = WithWords(prompt, made)
      BY <1>1, <1>2, <2>1, <2>2, <2>3, WithNextWord
    <2>5. /\ WithWords(prompt, made) \in Seq(Token) /\ Len(WithWords(prompt, made)) = size + made
          /\ Last(prompt) \in Token
      BY <1>1, <1>2, WithWordsIs
    <2>6. Batch \in Seq(Token)
      <3>1. <<Last(prompt)[1], made>> \in Token
        BY <1>2, <2>5 DEF Token
      <3>. QED  BY <2>1, <3>1
    <2>7. ~(Len(WithWords(prompt, made)) < size)
      BY <1>2, <2>3, <2>5
    <2>. QED  BY <1>1, <1>2, <2>4, <2>5, <2>6, <2>7, PrefixOfMore
  <1>. QED  BY <1>3, <1>4

LEMMA DecodeKeeps ==
    ASSUME ModelInv, UNCHANGED lm, Decode
    PROVE  ModelInv'
  <1>. DEFINE tokens == llama.processed \o Batch
              pc == IF Len(tokens) < Len(llama.job.prompt) THEN "prefill" ELSE "sample"
              late == IF Stale THEN llama.job.late + 1 ELSE llama.job.late
              job == [llama.job EXCEPT !.pc = pc, !.late = late]
  <1>1. LlamaType /\ StreamOk /\ QueueOk /\ JobOk /\ Working /\ llama.job.pc \in {"decoding", "feeding"}
        /\ stream' = stream
    BY DEF ModelInv, Decode
  <1>2. llama' = [llama EXCEPT !.kv = @ \o Batch, !.processed = tokens,
                       !.job.pc = pc, !.job.late = IF Stale THEN @ + 1 ELSE @]
    BY DEF Decode
  <1>3. /\ tokens \in Seq(Token) /\ llama.kv \o Batch = tokens
        /\ IF Len(tokens) < Len(llama.job.prompt)
           THEN llama.job.made = 0 /\ tokens = SubSeq(llama.job.prompt, 1, Len(tokens))
           ELSE tokens = WithWords(llama.job.prompt, llama.job.made)
    BY <1>1, BatchIs
  <1>. HIDE DEF tokens
  <1>4. llama.job.late = 0 /\ late \in Nat /\ (late = 0 \/ (late = 1 /\ Stale))
    BY <1>1 DEF JobOk
  <1>5. /\ job \in Job /\ job.epoch = llama.job.epoch /\ job.prompt = llama.job.prompt
        /\ job.made = llama.job.made /\ job.pc = pc /\ job.late = late
    BY <1>1, <1>4, JobFields DEF Job
  <1>6. llama' = [llama EXCEPT !.job = job, !.kv = tokens, !.processed = tokens]
    BY <1>1, <1>2, <1>3, LlamaFields, JobFields DEF Job
  <1>. HIDE DEF job, late
  <1>7. stream' \in [epoch : Nat, items : Seq(Item), open : BOOLEAN, cut : BOOLEAN] /\ StreamOk'
    <2>1. stream' \in [epoch : Nat, items : Seq(Item), open : BOOLEAN, cut : BOOLEAN]
      BY <1>1 DEF LlamaType
    <2>2. llama'.epoch = llama.epoch
      BY <1>1, <1>6, LlamaFields
    <2>. QED  BY <1>1, <2>1, <2>2 DEF StreamOk
  <1>8. LlamaType' /\ StreamOk' /\ QueueOk' /\ Working' /\ (Stale' <=> Stale)
        /\ llama'.job = job /\ llama'.kv = tokens /\ llama'.processed = tokens
        /\ IsPrefix(llama'.processed, llama'.kv)
    BY <1>1, <1>3, <1>5, <1>6, <1>7, JobMoves
  <1>9. JobOk'
    <2>1. llama.job.prompt /= <<>>
      BY <1>1 DEF JobOk
    <2>2. llama'.job.late = 0 \/ (llama'.job.late = 1 /\ Stale' /\ llama'.job.pc \in {"prefill", "sample"})
      BY <1>4, <1>5, <1>8
    <2>3. llama'.job.prompt /= <<>> /\ llama'.kv = llama'.processed
      BY <1>5, <1>8, <2>1
    <2>4. CASE Len(tokens) < Len(llama.job.prompt)
      <3>1. /\ llama'.job.pc = "prefill" /\ llama'.job.made = 0
            /\ llama'.job.prompt = llama.job.prompt
        BY <1>3, <1>5, <1>8, <2>4
      <3>. QED  BY <1>3, <1>8, <2>2, <2>3, <2>4, <3>1 DEF JobOk
    <2>5. CASE ~(Len(tokens) < Len(llama.job.prompt))
      <3>1. /\ llama'.job.pc = "sample" /\ llama'.job.made = llama.job.made
            /\ llama'.job.prompt = llama.job.prompt
        BY <1>5, <1>8, <2>5
      <3>. QED  BY <1>3, <1>8, <2>2, <2>3, <2>5, <3>1 DEF JobOk
    <2>. QED  BY <2>4, <2>5
  <1>. QED  BY <1>8, <1>9 DEF ModelInv

LEMMA DecodeFailsKeeps ==
    ASSUME ModelInv, UNCHANGED lm, DecodeFails
    PROVE  ModelInv'
  <1>1. /\ LlamaType /\ JobOk /\ Working /\ llama.job.pc \in {"decoding", "feeding"}
        /\ EndJob(<<"error">>, FALSE)
    BY DEF ModelInv, DecodeFails
  <1>2. PICK left \in {<<>>, Batch} : llama' = [llama EXCEPT !.kv = @ \o left, !.job = NoJob]
    BY DEF DecodeFails
  <1>3. llama' = [llama EXCEPT !.kv = llama.kv \o left, !.job = NoJob]
    BY <1>2
  <1>4. llama.kv \o left \in Seq(Token) /\ IsPrefix(llama.processed, llama.kv \o left)
    <2>1. CASE left = Batch
      BY <1>1, <2>1, BatchIs
    <2>2. CASE left = <<>>
      <3>1. llama.kv \o <<>> = llama.kv
        BY <1>1, LlamaFields, ConcatEmptySeq
      <3>. QED  BY <1>1, <2>2, <3>1, LlamaFields DEF JobOk
    <2>. QED  BY <2>1, <2>2
  <1>5. <<"error">> \in {<<>>, <<"error">>} /\ FALSE \in BOOLEAN
    OBVIOUS
  <1>. DEFINE kv == llama.kv \o left
  <1>6. /\ kv \in Seq(Token) /\ IsPrefix(llama.processed, kv)
        /\ llama' = [llama EXCEPT !.kv = kv, !.job = NoJob]
    BY <1>3, <1>4
  <1>. HIDE DEF kv
  <1>. QED  BY <1>1, <1>5, <1>6, JobOver

LEMMA SampleKeeps ==
    ASSUME ModelInv, UNCHANGED lm, Sample
    PROVE  ModelInv'
  <1>1. /\ LlamaType /\ StreamOk /\ QueueOk /\ JobOk /\ Working /\ llama.job.pc = "sample"
        /\ llama.job.made < MaxWords
    BY DEF ModelInv, Sample
  <1>2. CASE Stale \/ ~Heard
    <2>1. llama' = [llama EXCEPT !.job = NoJob] /\ EndJob(<<>>, TRUE)
      BY <1>2 DEF Sample
    <2>2. ~Heard
      BY <1>1, <1>2, StaleUnheard
    <2>3. <<>> \in {<<>>, <<"error">>} /\ TRUE \in BOOLEAN
      OBVIOUS
    <2>. QED  BY <1>1, <2>1, <2>2, <2>3, JobDropped
  <1>3. CASE ~Stale /\ Heard
    <2>. DEFINE job == [llama.job EXCEPT !.made = @ + 1, !.pc = "feeding"]
    <2>1. PICK word \in {"word", "close"} : stream' = [stream EXCEPT !.items = Append(@, word)]
      BY <1>3 DEF Sample
    <2>. DEFINE more == Append(stream.items, word)
    <2>2. llama' = [llama EXCEPT !.job.made = @ + 1, !.job.pc = "feeding"]
      BY <1>3 DEF Sample
    <2>3. llama.kv \in Seq(Token) /\ llama.kv = llama.processed /\ llama.job.late = 0 /\ llama.job.prompt /= <<>>
          /\ llama.kv = WithWords(llama.job.prompt, llama.job.made)
      BY <1>1, <1>3, LlamaFields DEF JobOk
    <2>4. /\ job \in Job /\ job.epoch = llama.job.epoch /\ job.prompt = llama.job.prompt
          /\ job.made = llama.job.made + 1 /\ job.pc = "feeding" /\ job.late = llama.job.late
      <3>1. llama.job.made + 1 \in 0..MaxWords
        <4>1. llama.job.made \in 0..MaxWords /\ llama.job.made < MaxWords /\ MaxWords \in Nat
          BY <1>1, JobFields, LlamaAssumption
        <4>. QED  BY <4>1
      <3>2. llama.job \in Job
        BY <1>1, JobFields
      <3>. QED  BY <3>1, <3>2 DEF Job
    <2>5. llama' = [llama EXCEPT !.job = job, !.kv = llama.kv, !.processed = llama.kv]
      BY <1>1, <2>2, <2>3, LlamaFields, JobFields DEF Job
    <2>. HIDE DEF job
    <2>6. /\ more \in Seq(Item) /\ Len(more) = Len(stream.items) + 1
          /\ \A i \in 1..Len(stream.items) : more[i] = stream.items[i]
      <3>1. word \in Item
        BY DEF Item
      <3>. QED  BY <1>1, <3>1, LlamaFields, AppendProperties
    <2>. HIDE DEF more
    <2>7. /\ stream' \in [epoch : Nat, items : Seq(Item), open : BOOLEAN, cut : BOOLEAN]
          /\ stream'.epoch = stream.epoch /\ stream'.items = more /\ stream'.cut = stream.cut
      BY <1>1, <2>1, <2>6 DEF LlamaType, more
    <2>8. StreamOk'
      <3>1. llama'.epoch = llama.epoch /\ lm' = lm
        BY <1>1, <2>5, LlamaFields
      <3>2. ASSUME NEW i \in 1..Len(more), more[i] /= "error"
            PROVE  Len(lm.reply) + i <= MaxWords
        <4>. DEFINE a == Len(lm.reply)
                    b == Len(stream.items)
                    m == llama.job.made
        <4>1. /\ a \in Nat /\ b \in Nat /\ m < MaxWords /\ m \in 0..MaxWords /\ MaxWords \in Nat
              /\ a + b = m
          <5>1. a \in Nat /\ b \in Nat
            BY <1>1, LlamaFields DEF StreamOk
          <5>2. a + b = m
            BY <1>1, <1>3 DEF QueueOk
          <5>3. m \in 0..MaxWords /\ MaxWords \in Nat /\ m < MaxWords
            BY <1>1, JobFields, LlamaAssumption
          <5>. QED  BY <5>1, <5>2, <5>3
        <4>2. CASE i \in 1..Len(stream.items)
          BY <1>1, <2>6, <3>2, <4>2 DEF StreamOk
        <4>3. CASE i = Len(stream.items) + 1
          <5>. HIDE DEF a, b, m
          <5>1. i = b + 1
            BY <4>3 DEF b
          <5>2. a + i <= MaxWords
            BY <4>1, <5>1
          <5>. QED  BY <5>2 DEF a
        <4>. QED  BY <2>6, <4>1, <4>2, <4>3
      <3>3. stream.epoch /= 0
        BY <1>1, <1>3, JobFields DEF Heard
      <3>. QED  BY <1>1, <2>7, <3>1, <3>2, <3>3 DEF StreamOk
    <2>9. LlamaType' /\ StreamOk' /\ QueueOk' /\ Working' /\ (Stale' <=> Stale)
          /\ llama'.job = job /\ llama'.kv = llama.kv /\ llama'.processed = llama.kv
          /\ IsPrefix(llama'.processed, llama'.kv)
      <3>1. Heard /\ Len(stream'.items) = Len(stream.items) + 1 /\ job.made = llama.job.made + 1
        BY <1>3, <2>4, <2>6, <2>7
      <3>. QED  BY <1>1, <2>3, <2>4, <2>5, <2>7, <2>8, <3>1, JobMoves
    <2>10. JobOk'
      <3>1. llama'.job.made > 0 /\ llama'.job.made - 1 = llama.job.made /\ llama'.job.pc = "feeding"
            /\ llama'.job.late = 0 /\ llama'.job.prompt = llama.job.prompt
        BY <1>1, <2>3, <2>4, <2>9, JobFields
      <3>2. llama'.kv = WithWords(llama'.job.prompt, llama'.job.made - 1)
        BY <2>3, <2>9, <3>1
      <3>. QED  BY <2>3, <2>9, <3>1, <3>2 DEF JobOk
    <2>. QED  BY <2>9, <2>10 DEF ModelInv
  <1>. QED  BY <1>2, <1>3

LEMMA StopUnfedKeeps ==
    ASSUME ModelInv, UNCHANGED lm, StopUnfed
    PROVE  ModelInv'
  <1>1. Working /\ Stale /\ llama' = [llama EXCEPT !.job = NoJob] /\ EndJob(<<>>, TRUE)
    BY DEF StopUnfed
  <1>2. ~Heard
    BY <1>1, StaleUnheard
  <1>3. <<>> \in {<<>>, <<"error">>} /\ TRUE \in BOOLEAN
    OBVIOUS
  <1>. QED  BY <1>1, <1>2, <1>3, JobDropped

LEMMA CompleteKeeps ==
    ASSUME ModelInv, UNCHANGED lm, Complete
    PROVE  ModelInv'
  <1>1. Working /\ llama' = [llama EXCEPT !.job = NoJob] /\ EndJob(<<>>, FALSE)
    BY DEF Complete
  <1>2. <<>> \in {<<>>, <<"error">>} /\ FALSE \in BOOLEAN
    OBVIOUS
  <1>. QED  BY <1>1, <1>2, JobDropped

LEMMA ThreadKeeps ==
    ASSUME ModelInv, UNCHANGED lm, LlamaThread
    PROVE  ModelInv'
  BY TakeCommandKeeps, RefuseCommandKeeps, PrefillKeeps, DecodeKeeps, DecodeFailsKeeps,
     SampleKeeps, StopUnfedKeeps, CompleteKeeps DEF LlamaThread

-----------------------------------------------------------------------------
(***************************************************************************)
(* The handle of the thread, and the stage that reads its stream.          *)
(***************************************************************************)
\* A generation asked for: its command waits behind the others, its stream is empty.
LEMMA GenerateKeeps ==
    ASSUME ModelInv, NEW prompt \in Seq(Token), prompt /= <<>>, Generate(prompt),
           lm'.reply = <<>>, lm'.phase /= "idle"
    PROVE  ModelInv'
  <1>. DEFINE command == [epoch |-> llama.epoch + 1, prompt |-> prompt]
              more == Append(llama.queue, command)
  <1>1. LlamaType /\ StreamOk /\ QueueOk /\ JobOk /\ llama.epoch \in Nat
    BY LlamaFields DEF ModelInv
  <1>2. llama' = [llama EXCEPT !.epoch = llama.epoch + 1, !.queue = more]
        /\ stream' = [NoStream EXCEPT !.epoch = llama.epoch + 1, !.open = TRUE]
    BY DEF Generate
  <1>3. /\ more \in Seq(Commands) /\ InOrder(more, llama.epoch + 1)
        /\ \A e \in Nat : e <= llama.epoch /\ Behind(e, llama.queue) => Behind(e, more)
    BY <1>1, InOrderMore, LlamaFields DEF QueueOk
  <1>. HIDE DEF more
  <1>4. /\ llama' = [epoch |-> llama.epoch + 1, queue |-> more, job |-> llama.job, kv |-> llama.kv,
                     processed |-> llama.processed]
        /\ llama'.epoch = llama.epoch + 1 /\ llama'.queue = more /\ llama'.job = llama.job
        /\ llama'.kv = llama.kv /\ llama'.processed = llama.processed
    BY <1>1, <1>2, LlamaFields
  <1>5. /\ stream'.epoch = llama.epoch + 1 /\ stream'.items = <<>> /\ stream'.cut = FALSE
        /\ stream'.open = TRUE
        /\ stream' \in [epoch : Nat, items : Seq(Item), open : BOOLEAN, cut : BOOLEAN]
    <2>1. stream' = [epoch |-> llama.epoch + 1, items |-> <<>>, open |-> TRUE, cut |-> FALSE]
      BY <1>2 DEF NoStream
    <2>. QED  BY <1>1, <2>1
  <1>6. LlamaType'
    BY <1>1, <1>3, <1>4, <1>5, LlamaFields DEF LlamaType, Commands
  <1>7. StreamOk'
    <2>1. <<>> \in Seq(BOOLEAN) /\ Len(<<>>) = 0 /\ MaxWords \in Nat
      BY LlamaAssumption
    <2>2. llama.epoch + 1 /= 0
      BY <1>1
    <2>. QED  BY <1>4, <1>5, <2>1, <2>2 DEF StreamOk
  <1>8. Working' <=> Working
    BY <1>4 DEF Working
  <1>9. QueueOk'
    <2>1. ASSUME Working
          PROVE  /\ llama'.job.epoch <= llama'.epoch /\ Behind(llama'.job.epoch, llama'.queue)
                 /\ ~Heard'
      <3>1. /\ llama.job.epoch \in Nat /\ llama.job.epoch <= llama.epoch
            /\ Behind(llama.job.epoch, llama.queue)
        BY <1>1, <2>1, JobFields DEF QueueOk
      <3>2. Behind(llama.job.epoch, more)
        BY <1>3, <3>1
      <3>. QED  BY <1>1, <1>4, <1>5, <3>1, <3>2 DEF Heard
    <2>. QED  BY <1>3, <1>4, <1>5, <1>8, <2>1 DEF QueueOk
  <1>10. JobOk'
    <2>1. Working => llama.job.late = 0 \/ (llama.job.late = 1 /\ llama.job.pc \in {"prefill", "sample"})
      BY <1>1 DEF JobOk
    <2>2. Working => Stale'
      <3>1. Working => llama.job.epoch \in Nat /\ llama.job.epoch <= llama.epoch
        BY <1>1, JobFields DEF QueueOk
      <3>. QED  BY <1>1, <1>4, <3>1 DEF Stale
    <2>. QED  BY <1>1, <1>4, <1>8, <2>1, <2>2 DEF JobOk
  <1>. QED  BY <1>6, <1>7, <1>9, <1>10 DEF ModelInv

\* A barge-in: what is in the queue and what is at work has no reader any more.
LEMMA CancelKeeps ==
    ASSUME ModelInv, CancelGenerate, lm'.reply = lm.reply, lm'.phase = "idle"
    PROVE  ModelInv'
  <1>1. LlamaType /\ StreamOk /\ QueueOk /\ JobOk /\ llama.epoch \in Nat
    BY LlamaFields DEF ModelInv
  <1>2. /\ llama' = [epoch |-> llama.epoch + 1, queue |-> llama.queue, job |-> llama.job, kv |-> llama.kv,
                     processed |-> llama.processed]
        /\ llama'.epoch = llama.epoch + 1 /\ llama'.queue = llama.queue /\ llama'.job = llama.job
        /\ llama'.kv = llama.kv /\ llama'.processed = llama.processed
    BY <1>1, LlamaFields DEF CancelGenerate
  <1>3. /\ stream'.epoch = 0 /\ stream'.items = <<>> /\ stream'.cut = FALSE
        /\ stream' \in [epoch : Nat, items : Seq(Item), open : BOOLEAN, cut : BOOLEAN]
    <2>1. stream' = [epoch |-> 0, items |-> <<>>, open |-> FALSE, cut |-> FALSE]
      BY DEF CancelGenerate, NoStream
    <2>. QED  BY <2>1
  <1>4. LlamaType'
    BY <1>1, <1>2, <1>3, LlamaFields DEF LlamaType, Commands
  <1>5. StreamOk'
    BY <1>1, <1>2, <1>3 DEF StreamOk
  <1>6. Working' <=> Working
    BY <1>2 DEF Working
  <1>7. QueueOk'
    <2>1. \A i \in 1..Len(llama.queue) :
             llama.queue[i].epoch \in 1..(llama.epoch + 1) /\ llama.queue[i].epoch /= 0
      BY <1>1 DEF QueueOk, InOrder
    <2>2. InOrder(llama'.queue, llama'.epoch)
      BY <1>1, <1>2, <2>1 DEF QueueOk, InOrder
    <2>3. ASSUME Working
          PROVE  /\ llama'.job.epoch <= llama'.epoch /\ Behind(llama'.job.epoch, llama'.queue)
                 /\ ~Heard'
      <3>1. /\ llama.job.epoch \in Nat \ {0} /\ llama.job.epoch <= llama.epoch
            /\ Behind(llama.job.epoch, llama.queue)
        BY <1>1, <2>3, JobFields DEF QueueOk
      <3>. QED  BY <1>1, <1>2, <1>3, <3>1 DEF Heard
    <2>. QED  BY <1>2, <1>3, <1>6, <2>1, <2>2, <2>3 DEF QueueOk
  <1>8. JobOk'
    <2>1. Working => llama.job.late = 0 \/ (llama.job.late = 1 /\ llama.job.pc \in {"prefill", "sample"})
      BY <1>1 DEF JobOk
    <2>2. Working => Stale'
      <3>1. Working => llama.job.epoch \in Nat /\ llama.job.epoch <= llama.epoch
        BY <1>1, JobFields DEF QueueOk
      <3>. QED  BY <1>1, <1>2, <3>1 DEF Stale
    <2>. QED  BY <1>1, <1>2, <1>6, <2>1, <2>2 DEF JobOk
  <1>. QED  BY <1>4, <1>5, <1>7, <1>8 DEF ModelInv

\* The stream is dropped at its end, or behind its error.
LEMMA DropKeeps ==
    ASSUME ModelInv, UNCHANGED llama, stream' = NoStream, lm'.reply = lm.reply, lm'.phase = "idle"
    PROVE  ModelInv'
  <1>1. LlamaType /\ StreamOk /\ QueueOk /\ JobOk /\ llama.epoch \in Nat
    BY LlamaFields DEF ModelInv
  <1>2. /\ stream'.epoch = 0 /\ stream'.items = <<>> /\ stream'.cut = FALSE
        /\ stream' \in [epoch : Nat, items : Seq(Item), open : BOOLEAN, cut : BOOLEAN]
    <2>1. stream' = [epoch |-> 0, items |-> <<>>, open |-> FALSE, cut |-> FALSE]
      BY DEF NoStream
    <2>. QED  BY <2>1
  <1>3. LlamaType'
    BY <1>1, <1>2 DEF LlamaType
  <1>4. StreamOk'
    BY <1>1, <1>2 DEF StreamOk
  <1>5. (Working' <=> Working) /\ (Stale' <=> Stale)
    BY DEF Working, Stale
  <1>6. QueueOk'
    <2>1. \A i \in 1..Len(llama.queue) : llama.queue[i].epoch /= 0
      BY <1>1 DEF QueueOk, InOrder
    <2>2. Working => ~Heard'
      BY <1>1, <1>2, JobFields DEF Heard
    <2>. QED  BY <1>1, <1>2, <1>5, <2>1, <2>2 DEF QueueOk
  <1>7. JobOk'
    BY <1>1, <1>5 DEF JobOk
  <1>. QED  BY <1>3, <1>4, <1>6, <1>7 DEF ModelInv

\* A word is read off the stream.
LEMMA ReadKeeps ==
    ASSUME ModelInv, UNCHANGED llama, stream.items /= <<>>, Head(stream.items) /= "error",
           stream' = [stream EXCEPT !.items = Tail(@)], NEW word \in BOOLEAN,
           lm'.reply = Append(lm.reply, word), lm'.phase = lm.phase
    PROVE  ModelInv' /\ Len(lm.reply) + 1 <= MaxWords
  <1>1. LlamaType /\ StreamOk /\ QueueOk /\ JobOk /\ MaxWords \in Nat
    BY LlamaAssumption DEF ModelInv
  <1>2. /\ Tail(stream.items) \in Seq(Item) /\ Len(Tail(stream.items)) = Len(stream.items) - 1
        /\ \A i \in 1..Len(Tail(stream.items)) : Tail(stream.items)[i] = stream.items[i + 1]
        /\ Head(stream.items) = stream.items[1] /\ Len(stream.items) \in Nat \ {0}
    BY <1>1, LlamaFields, HeadTailProperties
  <1>3. /\ stream'.epoch = stream.epoch /\ stream'.items = Tail(stream.items)
        /\ stream'.cut = stream.cut
        /\ stream' \in [epoch : Nat, items : Seq(Item), open : BOOLEAN, cut : BOOLEAN]
    BY <1>1, <1>2 DEF LlamaType
  <1>4. lm'.reply \in Seq(BOOLEAN) /\ Len(lm'.reply) = Len(lm.reply) + 1 /\ Len(lm.reply) \in Nat
    <2>1. lm.reply \in Seq(BOOLEAN)
      BY <1>1 DEF StreamOk
    <2>. QED  BY <2>1, AppendProperties
  <1>5. Len(lm.reply) + 1 <= MaxWords
    <2>1. 1 \in 1..Len(stream.items) /\ stream.items[1] /= "error"
      BY <1>2
    <2>. QED  BY <1>1, <2>1 DEF StreamOk
  <1>6. StreamOk'
    <2>1. ASSUME NEW i \in 1..Len(Tail(stream.items)), Tail(stream.items)[i] /= "error"
          PROVE  Len(lm'.reply) + i <= MaxWords
      <3>1. i + 1 \in 1..Len(stream.items) /\ stream.items[i + 1] /= "error" /\ i \in Nat
        BY <1>2, <2>1
      <3>2. Len(lm.reply) + (i + 1) <= MaxWords
        BY <1>1, <3>1 DEF StreamOk
      <3>. QED  BY <1>1, <1>4, <3>1, <3>2
    <2>2. stream.epoch /= 0
      BY <1>1 DEF StreamOk
    <2>. QED  BY <1>1, <1>3, <1>4, <1>5, <2>1, <2>2 DEF StreamOk
  <1>7. LlamaType'
    BY <1>1, <1>3 DEF LlamaType
  <1>8. (Working' <=> Working) /\ (Stale' <=> Stale) /\ (Heard' <=> Heard)
    BY <1>3 DEF Working, Stale, Heard
  <1>9. QueueOk'
    <2>1. \A i \in 1..Len(llama.queue) : llama.queue[i].epoch /= stream.epoch
      BY <1>1 DEF QueueOk
    <2>2. Working /\ Heard => Len(lm'.reply) + Len(stream'.items) = llama.job.made
      <3>. SUFFICES ASSUME Working, Heard
                    PROVE  Len(lm'.reply) + Len(stream'.items) = llama.job.made
        OBVIOUS
      <3>1. Len(lm.reply) + Len(stream.items) = llama.job.made
        BY <1>1 DEF QueueOk
      <3>. DEFINE a == Len(lm.reply)
                  b == Len(stream.items)
                  c == Len(lm'.reply)
                  d == Len(stream'.items)
                  m == llama.job.made
      <3>2. a \in Nat /\ b \in Nat /\ c = a + 1 /\ d = b - 1 /\ a + b = m
        BY <1>2, <1>3, <1>4, <3>1
      <3>. HIDE DEF a, b, c, d, m
      <3>3. c + d = m
        BY <3>2
      <3>. QED  BY <3>3 DEF c, d, m
    <2>. QED  BY <1>1, <1>3, <1>8, <2>1, <2>2 DEF QueueOk
  <1>10. JobOk'
    BY <1>1, <1>8 DEF JobOk
  <1>. QED  BY <1>5, <1>6, <1>7, <1>9, <1>10 DEF ModelInv

\* The stage goes on where the model has no part.
LEMMA AsideKeeps ==
    ASSUME ModelInv, UNCHANGED <<llama, stream>>, lm'.reply = lm.reply,
           lm'.phase = "idle" <=> lm.phase = "idle"
    PROVE  ModelInv'
  BY DEF ModelInv, LlamaType, StreamOk, QueueOk, JobOk, Working, Stale, Heard, InOrder, Behind

-----------------------------------------------------------------------------
(***************************************************************************)
(* The sentences of a text.                                                *)
(***************************************************************************)
\* What of the text has been cut, when the words up to n have been looked at.
Cut(s, text, from, ends, n) ==
    /\ s \in Seq(Sentence)
    /\ \A i \in 1..Len(s) :
         /\ s[i].turn = text.turn /\ s[i].from = (IF i = 1 THEN from ELSE s[i - 1].to) + 1
         /\ s[i].to \in (from + 1)..n /\ s[i].to \in ends
    /\ \A e \in ends : e <= n => e <= (IF s = <<>> THEN from ELSE Last(s).to)

AllEnds(text, final) == Ends(text.words) \cup (IF final THEN {Len(text.words)} ELSE {})

LEMMA SentencesAre ==
    ASSUME NEW text \in Text, NEW from \in Nat, NEW final, Len(text.words) \in Words
    PROVE  Cut(Sentences(text, from, final), text, from, AllEnds(text, final), Len(text.words))
  <1>. DEFINE N == Len(text.words)
              ends == AllEnds(text, final)
              Next1(s, n) == [turn |-> text.turn, to |-> n,
                              from |-> (IF s = <<>> THEN from ELSE Last(s).to) + 1]
              Go(s, n) == IF n \in ends /\ n > from THEN Append(s, Next1(s, n)) ELSE s
              Body(k) == [n \in 0..N |-> IF n = 0 THEN <<>>
                            ELSE IF n \in ends /\ n > from
                            THEN Append(k[n - 1], [turn |-> text.turn, to |-> n,
                                                   from |-> (IF k[n - 1] = <<>> THEN from ELSE Last(k[n - 1]).to) + 1])
                            ELSE k[n - 1]]
              f == CHOOSE k : k = Body(k)
              Piece == [turn : Turns, to : Nat, from : Nat]
              H == [i \in 1..N |-> [s \in Seq(Piece) |-> Go(s, i)]]
  <1>1. N \in Words /\ N \in Nat /\ text.turn \in Turns /\ Words \subseteq Nat /\ MaxWords \in Nat
    BY LlamaAssumption DEF Words, Text
  <1>2. Sentences(text, from, final) = f[N]
    BY DEF Sentences, AllEnds
  <1>3. \A e \in ends : e \in Nat
    BY <1>1 DEF AllEnds, Ends
  <1>. HIDE DEF ends, N
  <1>4. \A i \in 1..N, s \in Seq(Piece) : Go(s, i) \in Seq(Piece)
    <2>. TAKE i \in 1..N, s \in Seq(Piece)
    <2>1. (IF s = <<>> THEN from ELSE Last(s).to) \in Nat
      <3>1. CASE s /= <<>>
        <4>1. Len(s) \in 1..Len(s)
          BY <3>1, EmptySeq
        <4>2. s[Len(s)] \in Piece
          <5>. HIDE DEF Piece
          <5>. QED  BY <4>1, ElementOfSeq
        <4>. QED  BY <3>1, <4>2 DEF Last
      <3>. QED  BY <3>1
    <2>2. Next1(s, i) \in Piece
      BY <1>1, <2>1
    <2>. HIDE DEF Next1, Piece
    <2>. QED  BY <2>2, AppendProperties
  <1>5. PICK g \in [0..N -> Seq(Piece)] : g[0] = <<>> /\ \A i \in 1..N : g[i] = H[i][g[i - 1]]
    <2>. DEFINE A == Seq(Piece)
                a == <<>>
    <2>1. H \in [1..N -> [A -> A]]
      BY <1>4
    <2>2. a \in A /\ N \in Nat
      BY <1>1
    <2>. HIDE DEF A, a, H
    <2>3. \E g \in [0..N -> A] : g[0] = a /\ \A i \in 1..N : g[i] = H[i][g[i - 1]]
      BY ONLY <2>1, <2>2, Data!Iteration
    <2>. QED  BY <2>3 DEF A, a
  <1>6. \A i \in 1..N : g[i] = Go(g[i - 1], i)
    <2>1. \A i \in 1..N, s \in Seq(Piece) : H[i][s] = Go(s, i)
      OBVIOUS
    <2>. HIDE DEF H, Go
    <2>2. \A i \in 1..N : i - 1 \in 0..N
      BY <1>1
    <2>. QED  BY <1>5, <2>1, <2>2
  <1>7. g = Body(g)
    <2>1. \A n \in 0..N : g[n] = IF n = 0 THEN <<>> ELSE Go(g[n - 1], n)
      <3>. HIDE DEF Go
      <3>1. \A n \in 0..N : n = 0 \/ (n /= 0 /\ n \in 1..N)
        BY <1>1
      <3>. QED  BY <1>5, <1>6, <3>1
    <2>2. g = [n \in 0..N |-> IF n = 0 THEN <<>> ELSE Go(g[n - 1], n)]
      <3>. HIDE DEF Go
      <3>. QED  BY <1>5, <2>1
    <2>. QED  BY <2>2
  <1>. HIDE DEF Body
  <1>8. f = Body(f)
    BY <1>7
  <1>. HIDE DEF f
  <1>9. f[0] = <<>> /\ \A n \in 1..N : f[n] = Go(f[n - 1], n)
    <2>1. \A n \in 0..N : Body(f)[n] = IF n = 0 THEN <<>> ELSE Go(f[n - 1], n)
      BY DEF Body
    <2>. HIDE DEF Go
    <2>2. \A n \in 1..N : n \in 0..N /\ n /= 0
      BY <1>1
    <2>3. 0 \in 0..N
      BY <1>1
    <2>. QED  BY <1>8, <2>1, <2>2, <2>3
  <1>10. \A n \in 0..N : Cut(f[n], text, from, ends, n)
    <2>. DEFINE T == {n \in 0..N : Cut(f[n], text, from, ends, n)}
    <2>1. 0 \in T
      <3>1. <<>> \in Seq(Sentence) /\ Len(<<>>) = 0 /\ 0 \in 0..N
        BY <1>1
      <3>2. \A e \in ends : e <= 0 => e <= from
        BY <1>3
      <3>3. Cut(<<>>, text, from, ends, 0)
        BY <3>1, <3>2 DEF Cut
      <3>. QED  BY <1>9, <3>1, <3>3
    <2>2. ASSUME NEW n \in 0..N, n + 1 <= N, n \in T
          PROVE  n + 1 \in T
      <3>. DEFINE s == f[n]
                  e == n + 1
                  was == IF s = <<>> THEN from ELSE Last(s).to
                  x == [turn |-> text.turn, to |-> e, from |-> was + 1]
                  t == Append(s, x)
      <3>1. e \in 1..N /\ e - 1 = n /\ e \in 0..N /\ n \in Nat
        BY <1>1, <2>2
      <3>2. f[e] = IF e \in ends /\ e > from THEN t ELSE s
        BY <1>9, <3>1
      <3>3. Cut(s, text, from, ends, n)
        BY <2>2
      <3>. HIDE DEF s, T
      <3>4. s \in Seq(Sentence) /\ Len(s) \in Nat /\ (s /= <<>> => Len(s) \in 1..Len(s) /\ Last(s) = s[Len(s)])
        BY <3>3, EmptySeq DEF Cut, Last
      <3>5. was \in Nat /\ (s /= <<>> => was \in (from + 1)..n) /\ (s = <<>> => was = from)
        BY <3>1, <3>3, <3>4 DEF Cut
      <3>6. \A k \in ends : k <= n => k <= was
        BY <3>3 DEF Cut
      <3>. HIDE DEF was
      <3>7. CASE ~(e \in ends /\ e > from)
        <4>1. f[e] = s
          BY <3>2, <3>7
        <4>2. \A k \in ends : k <= e => k <= was
          BY <1>3, <3>1, <3>5, <3>6, <3>7
        <4>3. \A i \in 1..Len(s) : s[i].to \in (from + 1)..e
          BY <3>1, <3>3 DEF Cut
        <4>4. Cut(s, text, from, ends, e)
          BY <3>3, <4>2, <4>3 DEF Cut, was
        <4>. QED  BY <3>1, <4>1, <4>4 DEF T
      <3>8. CASE e \in ends /\ e > from
        <4>1. f[e] = t
          BY <3>2, <3>8
        <4>2. was + 1 \in Words /\ e \in Words /\ was + 1 <= e
          BY <1>1, <3>1, <3>5, <3>8 DEF Words
        <4>3. x \in Sentence /\ x.turn = text.turn /\ x.to = e /\ x.from = was + 1
          BY <1>1, <4>2 DEF Sentence
        <4>. HIDE DEF x
        <4>4. /\ t \in Seq(Sentence) /\ Len(t) = Len(s) + 1 /\ t[Len(s) + 1] = x
              /\ \A i \in 1..Len(s) : t[i] = s[i]
          BY <3>4, <4>3, AppendProperties
        <4>. HIDE DEF t
        <4>5. t /= <<>> /\ Last(t) = x
          BY <3>4, <4>4, EmptySeq DEF Last
        <4>6. ASSUME NEW i \in 1..Len(t)
              PROVE  /\ t[i].turn = text.turn
                     /\ t[i].from = (IF i = 1 THEN from ELSE t[i - 1].to) + 1
                     /\ t[i].to \in (from + 1)..e /\ t[i].to \in ends
          <5>1. CASE i \in 1..Len(s)
            <6>1. i /= 1 => i - 1 \in 1..Len(s)
              BY <3>4, <5>1
            <6>2. /\ s[i].turn = text.turn
                  /\ s[i].from = (IF i = 1 THEN from ELSE s[i - 1].to) + 1
                  /\ s[i].to \in (from + 1)..n /\ s[i].to \in ends
              BY <3>3, <5>1 DEF Cut
            <6>3. t[i] = s[i] /\ (i /= 1 => t[i - 1] = s[i - 1])
              BY <4>4, <5>1, <6>1
            <6>4. s[i].to \in (from + 1)..e
              BY <3>1, <6>2
            <6>5. (IF i = 1 THEN from ELSE t[i - 1].to) = IF i = 1 THEN from ELSE s[i - 1].to
              BY <6>3
            <6>. QED  BY <6>2, <6>3, <6>4, <6>5
          <5>2. CASE i = Len(s) + 1
            <6>1. t[i] = x
              BY <4>4, <5>2
            <6>2. was = IF i = 1 THEN from ELSE t[i - 1].to
              <7>1. CASE s = <<>>
                BY <3>5, <5>2, <7>1, EmptySeq
              <7>2. CASE s /= <<>>
                <8>1. i - 1 = Len(s) /\ i /= 1 /\ t[Len(s)] = s[Len(s)]
                  BY <3>4, <4>4, <5>2, <7>2
                <8>. QED  BY <3>4, <7>2, <8>1 DEF was
              <7>. QED  BY <7>1, <7>2
            <6>. QED  BY <3>1, <3>8, <4>3, <6>1, <6>2
          <5>. QED  BY <3>4, <4>4, <5>1, <5>2
        <4>7. Cut(t, text, from, ends, e)
          BY <4>3, <4>4, <4>5, <4>6 DEF Cut
        <4>. QED  BY <3>1, <4>1, <4>7 DEF T
      <3>. QED  BY <3>7, <3>8
    <2>. HIDE DEF T
    <2>3. \A n \in 0..N : n \in T
      BY <1>1, <2>1, <2>2, Data!CountingUp
    <2>. QED  BY <2>3 DEF T
  <1>11. N \in 0..N
    BY <1>1
  <1>. QED  BY <1>2, <1>10, <1>11 DEF N, ends

-----------------------------------------------------------------------------
(***************************************************************************)
(* The inboxes of the three stages.                                        *)
(***************************************************************************)
\* No frame of this path survives a flush: behind an Interrupt, what came after it is left.
LEMMA BehindInterrupt ==
    ASSUME NEW S, NEW box \in Seq(S), Interrupted(box), \A x \in S : ~Durable(x)
    PROVE  /\ First(box) \in 1..Len(box) /\ box[First(box)].kind = "interrupt"
           /\ \A i \in 1..Len(box) : i < First(box) => box[i].kind /= "interrupt"
           /\ AfterInterrupt(box) \in Seq(S) /\ Len(AfterInterrupt(box)) = Len(box) - First(box)
           /\ \A i \in 1..(Len(box) - First(box)) : AfterInterrupt(box)[i] = box[First(box) + i]
  <1>. DEFINE I == {i \in 1..Len(box) : IsInterrupt(box[i])}
              n == First(box)
              p == SubSeq(box, 1, n - 1)
              q == SubSeq(box, n + 1, Len(box))
              keep == {y \in Lanes!Frames(p) : Durable(y)}
              k == Lanes!Retain(p, keep)
  <1>1. I \in SUBSET Nat /\ I /= {} /\ \A i \in I : i \in 1..Len(box) /\ IsInterrupt(box[i])
    BY DEF Interrupted
  <1>2. First(box) = IF I /= {} THEN Min(I) ELSE 0
    BY DEF First, SelectInSeq
  <1>3. n \in I /\ \A i \in I : n <= i
    <2>. HIDE DEF I
    <2>1. \E m \in I : \A j \in I : m <= j
      BY <1>1, Data!LeastNatural
    <2>. QED  BY <1>1, <1>2, <2>1 DEF Min
  <1>4. n \in 1..Len(box) /\ Len(box) \in Nat /\ box[n].kind = "interrupt"
    BY <1>1, <1>3 DEF IsInterrupt
  <1>5. \A i \in 1..Len(box) : i < n => box[i].kind /= "interrupt"
    BY <1>3, <1>4 DEF IsInterrupt
  <1>. HIDE DEF n, I
  <1>6. p \in Seq(S)
    <2>1. \A i \in 1..(n - 1) : box[i] \in S
      BY <1>4
    <2>2. n - 1 \in Int /\ 1 \in Int
      BY <1>4
    <2>. QED  BY <2>1, <2>2, SubSeqProperties
  <1>7. q \in Seq(S) /\ Len(q) = Len(box) - n /\ \A i \in 1..(Len(box) - n) : q[i] = box[n + i]
    <2>1. \A i \in (n + 1)..Len(box) : box[i] \in S
      BY <1>4
    <2>2. n + 1 \in Int /\ Len(box) \in Int /\ n + 1 <= Len(box) + 1
      BY <1>4
    <2>3. /\ q \in Seq(S)
          /\ Len(q) = IF n + 1 <= Len(box) THEN Len(box) - (n + 1) + 1 ELSE 0
          /\ \A i \in 1..(Len(box) - (n + 1) + 1) : q[i] = box[(n + 1) + i - 1]
      BY <2>1, <2>2, SubSeqProperties
    <2>. HIDE DEF q
    <2>. QED  BY <1>4, <2>3
  <1>8. \A x \in Lanes!Frames(p) : x \in S
    <2>. HIDE DEF p
    <2>. QED  BY <1>6 DEF Lanes!Frames
  <1>9. k \in Seq(S) /\ Lanes!Frames(k) = Lanes!Frames(p) \cap keep
    <2>. HIDE DEF p, keep
    <2>1. Lanes!Retain(p, keep) = Data!Retain(p, keep) /\ \A s : Lanes!Frames(s) = Data!Frames(s)
      BY DEF Lanes!Retain, Data!Retain, Lanes!Frames, Data!Frames
    <2>2. /\ Data!Retain(p, keep) \in Seq(S)
          /\ Data!Frames(Data!Retain(p, keep)) = Data!Frames(p) \cap keep
      BY <1>6, Data!RetainEffect
    <2>. QED  BY <2>1, <2>2
  <1>10. keep = {}
    BY <1>8
  <1>. HIDE DEF keep, p
  <1>11. AfterInterrupt(box) = k \o q
    BY DEF AfterInterrupt, Only, n, p, keep
  <1>. HIDE DEF k
  <1>12. k = <<>>
    <2>1. Lanes!Frames(k) = {} /\ Len(k) \in Nat
      BY <1>9, <1>10
    <2>2. \A i \in 1..Len(k) : k[i] \in Lanes!Frames(k)
      BY DEF Lanes!Frames
    <2>3. ~(1 \in 1..Len(k))
      BY <2>1, <2>2
    <2>4. Len(k) = 0
      BY <2>1, <2>3
    <2>. QED  BY <1>9, <2>4, EmptySeq
  <1>. HIDE DEF q
  <1>13. AfterInterrupt(box) = q
    BY <1>7, <1>11, <1>12, ConcatEmptySeq
  <1>. QED  BY <1>4, <1>5, <1>7, <1>13 DEF n

LmFrames == {f \in Frame : f.kind \in {"interrupt", "user"}}
ChunkerFrames == {f \in Frame : \/ f.kind \in {"interrupt", "started", "finished"}
                                \/ f.kind \in {"partial", "final"} /\ Len(f.text.words) \in Words}
TtsFrames == {f \in Frame : f.kind \in {"interrupt", "started", "finished", "sentence"}}

LEMMA FrameFields ==
    ASSUME NEW f \in Frame
    PROVE  /\ f.kind \in {"interrupt", "user", "started", "finished", "partial", "final", "sentence"}
           /\ f.kind \in {"user", "started", "finished"} => f.turn \in Turns /\ f = Mark(f.kind, f.turn)
           /\ f.kind \in {"partial", "final"} => f.text \in Text
           /\ f.kind = "sentence" => f.sentence \in Sentence
           /\ ~Durable(f)
  <1>1. CASE f \in [kind : {"interrupt"}]
    BY <1>1 DEF Durable
  <1>2. CASE f \in [kind : {"user", "started", "finished"}, turn : Turns]
    BY <1>2 DEF Durable, Mark
  <1>3. CASE f \in [kind : {"partial", "final"}, text : Text]
    BY <1>3 DEF Durable
  <1>4. CASE f \in [kind : {"sentence"}, sentence : Sentence]
    BY <1>4 DEF Durable
  <1>. QED  BY <1>1, <1>2, <1>3, <1>4 DEF Frame

LEMMA MakeFrames ==
    /\ Interrupt \in LmFrames /\ Interrupt \in ChunkerFrames /\ Interrupt \in TtsFrames
    /\ \A nth \in Turns : /\ Mark("user", nth) \in LmFrames
                           /\ \A kind \in {"started", "finished"} :
                                Mark(kind, nth) \in ChunkerFrames /\ Mark(kind, nth) \in TtsFrames
    /\ \A text \in Text : Len(text.words) \in Words =>
          /\ [kind |-> "partial", text |-> text] \in ChunkerFrames
          /\ [kind |-> "final", text |-> text] \in ChunkerFrames
    /\ \A sentence \in Sentence : [kind |-> "sentence", sentence |-> sentence] \in TtsFrames
  <1>1. Interrupt \in LmFrames /\ Interrupt \in ChunkerFrames /\ Interrupt \in TtsFrames
    BY DEF Interrupt, LmFrames, ChunkerFrames, TtsFrames, Frame
  <1>2. \A nth \in Turns : Mark("user", nth) \in LmFrames
    BY DEF Mark, LmFrames, Frame
  <1>3. \A nth \in Turns : \A kind \in {"started", "finished"} :
           Mark(kind, nth) \in ChunkerFrames /\ Mark(kind, nth) \in TtsFrames
    BY DEF Mark, ChunkerFrames, TtsFrames, Frame
  <1>4. \A text \in Text : Len(text.words) \in Words =>
          /\ [kind |-> "partial", text |-> text] \in ChunkerFrames
          /\ [kind |-> "final", text |-> text] \in ChunkerFrames
    BY DEF ChunkerFrames, Frame
  <1>5. \A sentence \in Sentence : [kind |-> "sentence", sentence |-> sentence] \in TtsFrames
    BY DEF TtsFrames, Frame
  <1>. QED  BY <1>1, <1>2, <1>3, <1>4, <1>5

Phases == {"idle", "reading", "final", "finished"}
Traces == [turns : 0..MaxTurns, interrupts : 0..MaxInterrupts, finished : SUBSET Turns,
           committed : SUBSET Turns, cut : SUBSET Turns, spoken : Seq(Sentence)]

\* Each stage is sent the frames that it knows, each transcript has words, and the turn that
\* is answered is a turn.
LmOk == /\ lm \in [box : Seq(LmFrames), reply : Seq(BOOLEAN), convo : Seq(Token), phase : Phases]
        /\ lm.convo /= <<>> /\ (lm.phase /= "idle" => Turn \in Turns)
ChunkerOk == chunker \in [box : Seq(ChunkerFrames), emitted : 0..MaxWords, todo : Seq(Sentence)]
TtsOk == tts \in [box : Seq(TtsFrames), speaking : BOOLEAN]
PathOk == LmOk /\ ChunkerOk /\ TtsOk /\ trace \in Traces

LEMMA PathFields ==
    ASSUME PathOk
    PROVE  /\ lm.box \in Seq(LmFrames) /\ lm.reply \in Seq(BOOLEAN) /\ lm.convo \in Seq(Token)
           /\ lm.phase \in Phases /\ lm.convo /= <<>>
           /\ chunker.box \in Seq(ChunkerFrames) /\ chunker.emitted \in 0..MaxWords
           /\ chunker.todo \in Seq(Sentence)
           /\ tts.box \in Seq(TtsFrames) /\ tts.speaking \in BOOLEAN
           /\ trace.turns \in 0..MaxTurns /\ trace.interrupts \in 0..MaxInterrupts
           /\ trace.finished \subseteq Turns /\ trace.committed \subseteq Turns
           /\ trace.cut \subseteq Turns
           /\ trace.spoken \in Seq(Sentence)
  BY DEF PathOk, LmOk, ChunkerOk, TtsOk, Traces

LEMMA Boxes ==
    ASSUME NEW S, NEW box \in Seq(S)
    PROVE  /\ \A x \in S : Append(box, x) \in Seq(S)
           /\ box /= <<>> => Head(box) \in S /\ Tail(box) \in Seq(S) /\ Head(box) = box[1]
  BY AppendProperties, HeadTailProperties

LEMMA NothingDurable ==
    \A S \in {LmFrames, ChunkerFrames, TtsFrames} : \A x \in S : ~Durable(x)
  <1>1. \A x \in Frame : ~Durable(x)
    BY FrameFields
  <1>. QED  BY <1>1 DEF LmFrames, ChunkerFrames, TtsFrames

LEMMA Sent ==
    ASSUME PathOk
    PROVE  /\ \A f \in ChunkerFrames : ToChunker(f) =>
                 /\ ChunkerOk' /\ chunker'.box = Append(chunker.box, f)
                 /\ chunker'.emitted = chunker.emitted /\ chunker'.todo = chunker.todo
           /\ \A f \in TtsFrames : ToTts(f) =>
                 TtsOk' /\ tts'.box = Append(tts.box, f) /\ tts'.speaking = tts.speaking
  <1>1. ASSUME NEW f \in ChunkerFrames, ToChunker(f)
        PROVE  /\ ChunkerOk' /\ chunker'.box = Append(chunker.box, f)
               /\ chunker'.emitted = chunker.emitted /\ chunker'.todo = chunker.todo
    <2>. DEFINE more == Append(chunker.box, f)
    <2>1. more \in Seq(ChunkerFrames)
      BY PathFields, Boxes
    <2>2. chunker' = [chunker EXCEPT !.box = more]
      BY <1>1 DEF ToChunker
    <2>. HIDE DEF more
    <2>3. /\ ChunkerOk' /\ chunker'.box = more /\ chunker'.emitted = chunker.emitted
          /\ chunker'.todo = chunker.todo
      BY <2>1, <2>2 DEF PathOk, ChunkerOk
    <2>. QED  BY <2>3 DEF more
  <1>2. ASSUME NEW f \in TtsFrames, ToTts(f)
        PROVE  TtsOk' /\ tts'.box = Append(tts.box, f) /\ tts'.speaking = tts.speaking
    <2>. DEFINE more == Append(tts.box, f)
    <2>1. more \in Seq(TtsFrames)
      BY PathFields, Boxes
    <2>2. tts' = [tts EXCEPT !.box = more]
      BY <1>2 DEF ToTts
    <2>. HIDE DEF more
    <2>3. TtsOk' /\ tts'.box = more /\ tts'.speaking = tts.speaking
      BY <2>1, <2>2 DEF PathOk, TtsOk
    <2>. QED  BY <2>3 DEF more
  <1>. QED  BY <1>1, <1>2

-----------------------------------------------------------------------------
(***************************************************************************)
(* Upstream and LmStage.                                                   *)
(***************************************************************************)
LEMMA TurnIs ==
    ASSUME NEW convo \in Seq(Token), convo /= <<>>
    PROVE  Last(convo) \in Token /\ Len(convo) \in 1..Len(convo)
  <1>1. Len(convo) \in 1..Len(convo)
    BY EmptySeq
  <1>. QED  BY <1>1, ElementOfSeq DEF Last

LEMMA UpstreamKeeps ==
    ASSUME ModelInv, PathOk, UserSpeaks \/ BargeIn
    PROVE  ModelInv' /\ PathOk'
  <1>1. UNCHANGED <<llama, stream, chunker, tts>>
    BY DEF UserSpeaks, BargeIn
  <1>2. PICK f \in LmFrames : lm' = [lm EXCEPT !.box = Append(@, f)] /\ trace' \in Traces
    <2>1. CASE UserSpeaks
      <3>1. trace.turns + 1 \in Turns /\ trace.turns + 1 \in 0..MaxTurns
        <4>1. trace.turns \in 0..MaxTurns /\ MaxTurns \in Nat
          BY PathFields, LlamaAssumption
        <4>2. trace.turns < MaxTurns
          BY <2>1 DEF UserSpeaks
        <4>. QED  BY <4>1, <4>2 DEF Turns
      <3>2. trace' \in Traces
        BY <2>1, <3>1 DEF UserSpeaks, PathOk, Traces
      <3>. QED  BY <2>1, <3>1, <3>2, MakeFrames DEF UserSpeaks
    <2>2. CASE BargeIn
      <3>1. trace.interrupts + 1 \in 0..MaxInterrupts
        <4>1. trace.interrupts \in 0..MaxInterrupts /\ MaxInterrupts \in Nat
          BY PathFields, ReplyAssumption
        <4>2. trace.interrupts < MaxInterrupts
          BY <2>2 DEF BargeIn
        <4>. QED  BY <4>1, <4>2
      <3>2. trace' \in Traces
        BY <2>2, <3>1 DEF BargeIn, PathOk, Traces
      <3>. QED  BY <2>2, <3>2, MakeFrames DEF BargeIn
    <2>. QED  BY <2>1, <2>2
  <1>3. lm.box \in Seq(LmFrames) /\ Append(lm.box, f) \in Seq(LmFrames)
    BY PathFields, Boxes
  <1>4. LmOk' /\ lm'.reply = lm.reply /\ lm'.phase = lm.phase
    BY <1>2, <1>3 DEF PathOk, LmOk, Turn
  <1>5. ChunkerOk' /\ TtsOk'
    BY <1>1 DEF PathOk, ChunkerOk, TtsOk
  <1>6. ModelInv'
    BY <1>1, <1>4, AsideKeeps
  <1>. QED  BY <1>2, <1>4, <1>5, <1>6 DEF PathOk

LEMMA LmTakesKeeps ==
    ASSUME ModelInv, PathOk, LmTakes
    PROVE  ModelInv' /\ PathOk'
  <1>. DEFINE nth == Head(lm.box).turn
              word == <<nth, 0>>
              convo == Append(lm.convo, word)
  <1>1. lm.box /= <<>> /\ ~Interrupted(lm.box) /\ UNCHANGED <<tts, trace>>
    BY DEF LmTakes, HasData
  <1>2. /\ lm' = [lm EXCEPT !.box = Tail(@), !.convo = convo, !.reply = <<>>, !.phase = "reading"]
        /\ Generate(convo) /\ ToChunker(Mark("started", nth))
    BY DEF LmTakes
  <1>3. Head(lm.box) \in LmFrames /\ Tail(lm.box) \in Seq(LmFrames)
    BY <1>1, PathFields, Boxes
  <1>4. nth \in Turns
    <2>1. Head(lm.box).kind /= "interrupt"
      <3>1. 1 \in 1..Len(lm.box) /\ Head(lm.box) = lm.box[1]
        BY <1>1, PathFields, EmptySeq
      <3>. QED  BY <1>1, <3>1 DEF Interrupted, IsInterrupt
    <2>. QED  BY <1>3, <2>1, FrameFields DEF LmFrames
  <1>. HIDE DEF nth
  <1>5. word \in Token /\ 0 \in 0..MaxWords /\ nth \in 0..MaxTurns
    BY <1>4, LlamaAssumption DEF Token, Turns
  <1>6. /\ convo \in Seq(Token) /\ Len(convo) = Len(lm.convo) + 1
        /\ convo[Len(lm.convo) + 1] = word
        /\ Len(lm.convo) \in Nat
    <2>. HIDE DEF word
    <2>. QED  BY <1>5, PathFields, AppendProperties
  <1>. HIDE DEF convo
  <1>7. convo /= <<>> /\ Last(convo) = word
    BY <1>6, EmptySeq DEF Last
  <1>8. LmOk' /\ lm'.reply = <<>> /\ lm'.phase = "reading"
    <2>1. lm' = [box |-> Tail(lm.box), reply |-> <<>>, convo |-> convo, phase |-> "reading"]
      BY <1>2 DEF PathOk, LmOk
    <2>2. <<>> \in Seq(BOOLEAN)
      OBVIOUS
    <2>. QED  BY <1>3, <1>4, <1>6, <1>7, <2>1, <2>2 DEF LmOk, Turn, Phases
  <1>9. ChunkerOk'
    BY <1>2, <1>4, MakeFrames, Sent
  <1>10. TtsOk'
    BY <1>1 DEF PathOk, TtsOk
  <1>11. trace' \in Traces
    BY <1>1 DEF PathOk
  <1>12. ModelInv'
    BY <1>2, <1>6, <1>7, <1>8, GenerateKeeps
  <1>. QED  BY <1>8, <1>9, <1>10, <1>11, <1>12 DEF PathOk

LEMMA LmReadsKeeps ==
    ASSUME ModelInv, PathOk, LmReads
    PROVE  ModelInv' /\ PathOk'
  <1>. DEFINE word == Head(stream.items) = "close"
              reply == Append(lm.reply, word)
  <1>1. /\ lm.phase = "reading" /\ stream.items /= <<>> /\ Head(stream.items) /= "error"
        /\ stream' = [stream EXCEPT !.items = Tail(@)] /\ UNCHANGED <<llama, tts, trace>>
    BY DEF LmReads
  <1>2. /\ lm' = [lm EXCEPT !.reply = reply]
        /\ ToChunker([kind |-> "partial", text |-> [turn |-> Turn, words |-> reply]])
    BY DEF LmReads
  <1>3. word \in BOOLEAN
    OBVIOUS
  <1>. HIDE DEF word
  <1>4. reply \in Seq(BOOLEAN) /\ Len(reply) = Len(lm.reply) + 1 /\ Len(lm.reply) \in Nat
    BY <1>3, PathFields, AppendProperties
  <1>5. LmOk' /\ lm'.reply = reply /\ lm'.phase = lm.phase
    <2>. HIDE DEF reply
    <2>. QED  BY <1>2, <1>4 DEF PathOk, LmOk, Turn
  <1>6. ModelInv' /\ Len(lm.reply) + 1 <= MaxWords
    BY <1>1, <1>3, <1>5, ReadKeeps
  <1>7. Turn \in Turns
    BY <1>1 DEF PathOk, LmOk
  <1>8. ChunkerOk'
    <2>. DEFINE text == [turn |-> Turn, words |-> reply]
    <2>1. text \in Text /\ Len(text.words) \in Words
      <3>. HIDE DEF reply
      <3>. QED  BY <1>4, <1>6, <1>7, LlamaAssumption DEF Text, Words
    <2>. HIDE DEF text
    <2>. QED  BY <1>2, <2>1, MakeFrames, Sent DEF text
  <1>9. TtsOk'
    BY <1>1 DEF PathOk, TtsOk
  <1>10. trace' \in Traces
    BY <1>1 DEF PathOk
  <1>. QED  BY <1>5, <1>6, <1>8, <1>9, <1>10 DEF PathOk

LEMMA LmFailsKeeps ==
    ASSUME ModelInv, PathOk, LmFails
    PROVE  ModelInv' /\ PathOk'
  <1>1. /\ lm' = [lm EXCEPT !.phase = "idle"] /\ stream' = NoStream
        /\ UNCHANGED <<llama, chunker, tts, trace>>
    BY DEF LmFails
  <1>2. LmOk' /\ lm'.reply = lm.reply /\ lm'.phase = "idle"
    BY <1>1 DEF PathOk, LmOk, Turn, Phases
  <1>3. ChunkerOk' /\ TtsOk' /\ trace' \in Traces
    BY <1>1 DEF PathOk, ChunkerOk, TtsOk
  <1>4. ModelInv'
    BY <1>1, <1>2, DropKeeps
  <1>. QED  BY <1>2, <1>3, <1>4 DEF PathOk

LEMMA LmFinalKeeps ==
    ASSUME ModelInv, PathOk, LmFinal
    PROVE  ModelInv' /\ PathOk'
  <1>1. /\ lm.phase = "reading" /\ lm.reply /= <<>> /\ lm' = [lm EXCEPT !.phase = "final"]
        /\ ToChunker([kind |-> "final", text |-> Reply])
        /\ UNCHANGED <<llama, stream, tts, trace>>
    BY DEF LmFinal, StreamEnded
  <1>2. Turn \in Turns
    BY <1>1 DEF PathOk, LmOk
  <1>3. LmOk' /\ lm'.reply = lm.reply /\ lm'.phase = "final"
    BY <1>1, <1>2 DEF PathOk, LmOk, Turn, Phases
  <1>4. Reply \in Text /\ Len(Reply.words) \in Words
    <2>1. /\ lm.reply \in Seq(BOOLEAN) /\ Len(lm.reply) <= MaxWords /\ Len(lm.reply) \in Nat
          /\ MaxWords \in Nat
      BY PathFields, LlamaAssumption DEF ModelInv, StreamOk
    <2>2. Len(lm.reply) /= 0
      BY <1>1, <2>1, EmptySeq
    <2>. QED  BY <1>2, <2>1, <2>2 DEF Reply, Text, Words
  <1>5. ChunkerOk'
    <2>. HIDE DEF Reply
    <2>. QED  BY <1>1, <1>4, MakeFrames, Sent
  <1>6. TtsOk' /\ trace' \in Traces
    BY <1>1 DEF PathOk, TtsOk
  <1>7. ModelInv'
    BY <1>1, <1>3, AsideKeeps
  <1>. QED  BY <1>3, <1>5, <1>6, <1>7 DEF PathOk

LEMMA LmFinishesKeeps ==
    ASSUME ModelInv, PathOk, LmFinishes
    PROVE  ModelInv' /\ PathOk'
  <1>1. /\ lm.phase /= "idle" /\ lm' = [lm EXCEPT !.phase = "finished"]
        /\ ToChunker(Mark("finished", Turn)) /\ UNCHANGED <<llama, stream, tts>>
        /\ trace' = [trace EXCEPT !.finished = @ \cup {Turn}]
    BY DEF LmFinishes, StreamEnded
  <1>2. Turn \in Turns
    BY <1>1 DEF PathOk, LmOk
  <1>3. LmOk' /\ lm'.reply = lm.reply /\ lm'.phase = "finished"
    BY <1>1, <1>2 DEF PathOk, LmOk, Turn, Phases
  <1>4. ChunkerOk'
    BY <1>1, <1>2, MakeFrames, Sent
  <1>5. TtsOk'
    BY <1>1 DEF PathOk, TtsOk
  <1>6. trace' \in Traces
    BY <1>1, <1>2 DEF PathOk, Traces
  <1>7. ModelInv'
    BY <1>1, <1>3, AsideKeeps
  <1>. QED  BY <1>3, <1>4, <1>5, <1>6, <1>7 DEF PathOk

LEMMA LmCommitsKeeps ==
    ASSUME ModelInv, PathOk, LmCommits
    PROVE  ModelInv' /\ PathOk'
  <1>. DEFINE said == [i \in 1..Len(lm.reply) |-> <<Turn, i>>]
              convo == lm.convo \o said
  <1>1. /\ lm.phase = "finished" /\ lm' = [lm EXCEPT !.phase = "idle", !.convo = convo]
        /\ stream' = NoStream /\ UNCHANGED <<llama, chunker, tts>>
        /\ trace' = [trace EXCEPT !.committed = @ \cup {Turn}]
    BY DEF LmCommits
  <1>2. Turn \in Turns
    BY <1>1 DEF PathOk, LmOk
  <1>3. said \in Seq(Token) /\ Len(said) \in Nat
    <2>1. Len(lm.reply) \in Nat /\ Len(lm.reply) <= MaxWords /\ MaxWords \in Nat
      BY PathFields, LlamaAssumption DEF ModelInv, StreamOk
    <2>2. Turn \in 0..MaxTurns
      BY <1>2, LlamaAssumption DEF Turns
    <2>. HIDE DEF Turn
    <2>3. \A i \in 1..Len(lm.reply) : <<Turn, i>> \in Token
      BY <2>1, <2>2 DEF Token
    <2>. QED  BY <2>1, <2>3
  <1>. HIDE DEF said
  <1>4. convo \in Seq(Token) /\ Len(convo) = Len(lm.convo) + Len(said)
    BY <1>3, PathFields, ConcatProperties
  <1>. HIDE DEF convo
  <1>5. convo /= <<>>
    <2>1. Len(lm.convo) \in Nat /\ Len(lm.convo) /= 0
      BY PathFields, EmptySeq
    <2>. QED  BY <1>3, <1>4, <2>1
  <1>6. LmOk' /\ lm'.reply = lm.reply /\ lm'.phase = "idle"
    BY <1>1, <1>4, <1>5 DEF PathOk, LmOk, Phases
  <1>7. ChunkerOk' /\ TtsOk'
    BY <1>1 DEF PathOk, ChunkerOk, TtsOk
  <1>8. trace' \in Traces
    <2>. HIDE DEF Turn
    <2>. QED  BY <1>1, <1>2 DEF PathOk, Traces
  <1>9. ModelInv'
    BY <1>1, <1>6, DropKeeps
  <1>. QED  BY <1>6, <1>7, <1>8, <1>9 DEF PathOk

LEMMA LmInterruptKeeps ==
    ASSUME ModelInv, PathOk, LmInterrupt
    PROVE  ModelInv' /\ PathOk'
  <1>1. /\ Interrupted(lm.box) /\ lm' = [lm EXCEPT !.box = AfterInterrupt(@), !.phase = "idle"]
        /\ CancelGenerate /\ ToChunker(Interrupt) /\ UNCHANGED tts
        /\ trace' = [trace EXCEPT !.cut = @ \cup trace.finished]
    BY DEF LmInterrupt
  <1>2. AfterInterrupt(lm.box) \in Seq(LmFrames)
    BY <1>1, PathFields, NothingDurable, BehindInterrupt
  <1>3. LmOk' /\ lm'.reply = lm.reply /\ lm'.phase = "idle"
    BY <1>1, <1>2 DEF PathOk, LmOk, Phases
  <1>4. ChunkerOk'
    BY <1>1, MakeFrames, Sent
  <1>5. TtsOk'
    BY <1>1 DEF PathOk, TtsOk
  <1>6. trace' \in Traces
    BY <1>1 DEF PathOk, Traces
  <1>7. ModelInv'
    BY <1>1, <1>3, CancelKeeps
  <1>. QED  BY <1>3, <1>4, <1>5, <1>6, <1>7 DEF PathOk

-----------------------------------------------------------------------------
(***************************************************************************)
(* SentenceChunker.                                                        *)
(***************************************************************************)
LEMMA ModelAside == ASSUME ModelInv, UNCHANGED <<llama, stream, lm>> PROVE ModelInv'
  BY AsideKeeps

LEMMA LmAside == LmOk /\ UNCHANGED lm => LmOk'
  BY DEF LmOk, Turn

\* A transcript whose offset lies in it: what is read of it.
LEMMA ChunkerReadsIs ==
    ASSUME PathOk, ChunkerReads
    PROVE  LET text == Head(chunker.box).text
               final == Head(chunker.box).kind = "final"
               sentences == Sentences(text, chunker.emitted, final)
           IN  /\ Head(chunker.box) \in ChunkerFrames /\ text \in Text /\ Len(text.words) \in Words
               /\ Head(chunker.box).kind \in {"partial", "final"}
               /\ chunker.emitted <= Len(text.words)
               /\ Cut(sentences, text, chunker.emitted, AllEnds(text, final), Len(text.words))
               /\ chunker'.box = Tail(chunker.box) /\ chunker'.todo = sentences
               /\ chunker'.emitted = IF final THEN 0
                                     ELSE IF sentences = <<>> THEN chunker.emitted ELSE Last(sentences).to
               /\ ChunkerOk'
  <1>. DEFINE frame == Head(chunker.box)
              text == frame.text
              final == frame.kind = "final"
              sentences == Sentences(text, chunker.emitted, final)
              emitted == IF final THEN 0 ELSE IF sentences = <<>> THEN chunker.emitted ELSE Last(sentences).to
  <1>1. /\ chunker.box /= <<>> /\ frame.kind \in {"partial", "final"}
        /\ chunker.emitted <= Len(text.words)
        /\ chunker' = [chunker EXCEPT !.box = Tail(@), !.todo = sentences, !.emitted = emitted]
    BY DEF ChunkerReads, HasData, OffsetInText
  <1>2. frame \in ChunkerFrames /\ Tail(chunker.box) \in Seq(ChunkerFrames)
    BY <1>1, PathFields, Boxes
  <1>3. text \in Text /\ Len(text.words) \in Words
    BY <1>1, <1>2, FrameFields DEF ChunkerFrames
  <1>. HIDE DEF text, final
  <1>4. chunker.emitted \in Nat
    BY PathFields
  <1>5. Cut(sentences, text, chunker.emitted, AllEnds(text, final), Len(text.words))
    BY <1>3, <1>4, SentencesAre
  <1>. HIDE DEF sentences
  <1>6. sentences \in Seq(Sentence)
    BY <1>5 DEF Cut
  <1>7. emitted \in 0..MaxWords
    <2>1. sentences /= <<>> => Last(sentences).to \in 0..MaxWords
      <3>1. \A s \in Sentence : s.to \in 0..MaxWords
        BY LlamaAssumption DEF Sentence, Words
      <3>2. sentences /= <<>> => Len(sentences) \in 1..Len(sentences)
        BY <1>6, EmptySeq
      <3>. QED  BY <1>6, <3>1, <3>2, ElementOfSeq DEF Last
    <2>2. 0 \in 0..MaxWords
      BY LlamaAssumption
    <2>. QED  BY <2>1, <2>2, PathFields
  <1>. HIDE DEF emitted
  <1>8. /\ chunker'.box = Tail(chunker.box) /\ chunker'.todo = sentences
        /\ chunker'.emitted = emitted
        /\ ChunkerOk'
    BY <1>1, <1>2, <1>6, <1>7 DEF PathOk, ChunkerOk
  <1>. QED  BY <1>1, <1>2, <1>3, <1>5, <1>8 DEF text, final, sentences, emitted

LEMMA ChunkerForwardsIs ==
    ASSUME PathOk, ChunkerForwards
    PROVE  LET frame == Head(chunker.box)
           IN  /\ chunker.box /= <<>> /\ frame \in ChunkerFrames /\ frame \in TtsFrames
               /\ frame.kind \in {"started", "finished"} /\ frame.turn \in Turns
               /\ chunker'.box = Tail(chunker.box) /\ chunker'.todo = chunker.todo
               /\ chunker'.emitted = (IF frame.kind = "started" THEN 0 ELSE chunker.emitted)
               /\ ChunkerOk'
               /\ TtsOk' /\ tts'.box = Append(tts.box, frame) /\ tts'.speaking = tts.speaking
  <1>. DEFINE frame == Head(chunker.box)
              emitted == IF frame.kind = "started" THEN 0 ELSE chunker.emitted
  <1>1. /\ chunker.box /= <<>> /\ frame.kind \in {"started", "finished"} /\ ToTts(frame)
        /\ chunker' = [chunker EXCEPT !.box = Tail(@), !.emitted = emitted]
    BY DEF ChunkerForwards, HasData
  <1>2. frame \in ChunkerFrames /\ Tail(chunker.box) \in Seq(ChunkerFrames)
    BY <1>1, PathFields, Boxes
  <1>3. frame.turn \in Turns /\ frame = Mark(frame.kind, frame.turn)
    BY <1>1, <1>2, FrameFields DEF ChunkerFrames
  <1>4. frame \in TtsFrames
    BY <1>1, <1>3, MakeFrames
  <1>5. emitted \in 0..MaxWords
    <2>1. 0 \in 0..MaxWords
      BY LlamaAssumption
    <2>. QED  BY <2>1, PathFields
  <1>. HIDE DEF emitted
  <1>6. /\ chunker'.box = Tail(chunker.box) /\ chunker'.todo = chunker.todo
        /\ chunker'.emitted = emitted
        /\ ChunkerOk'
    BY <1>1, <1>2, <1>5 DEF PathOk, ChunkerOk
  <1>7. TtsOk' /\ tts'.box = Append(tts.box, frame) /\ tts'.speaking = tts.speaking
    BY <1>1, <1>4, Sent
  <1>. QED  BY <1>1, <1>2, <1>3, <1>4, <1>6, <1>7 DEF emitted

LEMMA ChunkerEmitsIs ==
    ASSUME PathOk, ChunkerEmits
    PROVE  /\ chunker.todo /= <<>> /\ Head(chunker.todo) \in Sentence
           /\ chunker'.box = chunker.box /\ chunker'.todo = Tail(chunker.todo)
           /\ chunker'.emitted = chunker.emitted /\ ChunkerOk'
           /\ TtsOk'
           /\ tts'.box = Append(tts.box, [kind |-> "sentence", sentence |-> Head(chunker.todo)])
           /\ tts'.speaking = tts.speaking
  <1>. DEFINE frame == [kind |-> "sentence", sentence |-> Head(chunker.todo)]
  <1>1. chunker.todo /= <<>> /\ ToTts(frame) /\ chunker' = [chunker EXCEPT !.todo = Tail(@)]
    BY DEF ChunkerEmits
  <1>2. Head(chunker.todo) \in Sentence /\ Tail(chunker.todo) \in Seq(Sentence)
    BY <1>1, PathFields, Boxes
  <1>3. frame \in TtsFrames
    BY <1>2, MakeFrames
  <1>. HIDE DEF frame
  <1>4. TtsOk' /\ tts'.box = Append(tts.box, frame) /\ tts'.speaking = tts.speaking
    BY <1>1, <1>3, Sent
  <1>5. /\ chunker'.box = chunker.box /\ chunker'.todo = Tail(chunker.todo)
        /\ chunker'.emitted = chunker.emitted /\ ChunkerOk'
    BY <1>1, <1>2 DEF PathOk, ChunkerOk
  <1>. QED  BY <1>1, <1>2, <1>4, <1>5 DEF frame

LEMMA ChunkerInterruptIs ==
    ASSUME PathOk, ChunkerInterrupt
    PROVE  /\ Interrupted(chunker.box) /\ AfterInterrupt(chunker.box) \in Seq(ChunkerFrames)
           /\ chunker'.box = AfterInterrupt(chunker.box) /\ chunker'.todo = <<>>
           /\ chunker'.emitted = 0
           /\ ChunkerOk' /\ TtsOk' /\ tts'.box = Append(tts.box, Interrupt)
           /\ tts'.speaking = tts.speaking
  <1>1. /\ Interrupted(chunker.box) /\ ToTts(Interrupt)
        /\ chunker' = [chunker EXCEPT !.box = AfterInterrupt(@), !.todo = <<>>, !.emitted = 0]
    BY DEF ChunkerInterrupt
  <1>2. AfterInterrupt(chunker.box) \in Seq(ChunkerFrames)
    BY <1>1, PathFields, NothingDurable, BehindInterrupt
  <1>3. TtsOk' /\ tts'.box = Append(tts.box, Interrupt) /\ tts'.speaking = tts.speaking
    BY <1>1, MakeFrames, Sent
  <1>4. <<>> \in Seq(Sentence) /\ 0 \in 0..MaxWords
    BY LlamaAssumption
  <1>5. /\ chunker'.box = AfterInterrupt(chunker.box) /\ chunker'.todo = <<>>
        /\ chunker'.emitted = 0
        /\ ChunkerOk'
    BY <1>1, <1>2, <1>4 DEF PathOk, ChunkerOk
  <1>. QED  BY <1>1, <1>2, <1>3, <1>5

LEMMA ChunkerKeeps ==
    ASSUME ModelInv, PathOk, ChunkerSteps
    PROVE  ModelInv' /\ PathOk'
  <1>1. UNCHANGED <<llama, stream, lm, trace>>
    BY DEF ChunkerSteps, ChunkerReads, ChunkerForwards, ChunkerEmits, ChunkerInterrupt
  <1>2. ModelInv' /\ LmOk' /\ trace' \in Traces
    BY <1>1, ModelAside, LmAside DEF PathOk
  <1>3. ChunkerOk' /\ TtsOk'
    <2>1. CASE ChunkerReads
      <3>1. ChunkerOk'
        BY <2>1, ChunkerReadsIs
      <3>2. UNCHANGED tts
        BY <2>1 DEF ChunkerReads
      <3>. QED  BY <3>1, <3>2 DEF PathOk, TtsOk
    <2>2. CASE ChunkerForwards
      BY <2>2, ChunkerForwardsIs
    <2>3. CASE ChunkerEmits
      BY <2>3, ChunkerEmitsIs
    <2>4. CASE ChunkerInterrupt
      BY <2>4, ChunkerInterruptIs
    <2>. QED  BY <2>1, <2>2, <2>3, <2>4 DEF ChunkerSteps
  <1>. QED  BY <1>2, <1>3 DEF PathOk

-----------------------------------------------------------------------------
(***************************************************************************)
(* TtsStage and the synthesis thread.                                      *)
(***************************************************************************)
\* The stage reads the speech of the sentence it asked for last, or none.
SherpaOk ==
    /\ SherpaType
    /\ audio.epoch \in {0, sherpa.epoch} /\ ~audio.cut
    /\ \A i \in 1..Len(sherpa.queue) : sherpa.queue[i] /= 0
    /\ sherpa.job.epoch = 0 => sherpa.job = NoSynthesis

LEMMA SherpaFields ==
    ASSUME SherpaType
    PROVE  /\ sherpa = [epoch |-> sherpa.epoch, queue |-> sherpa.queue, job |-> sherpa.job]
           /\ sherpa.epoch \in Nat /\ sherpa.queue \in Seq(Nat)
           /\ sherpa.job = [epoch |-> sherpa.job.epoch, made |-> sherpa.job.made]
           /\ sherpa.job.epoch \in Nat /\ sherpa.job.made \in 0..MaxSegments
           /\ audio = [epoch |-> audio.epoch, items |-> audio.items, open |-> audio.open, cut |-> audio.cut]
           /\ audio.epoch \in Nat /\ audio.items \in Seq({"segment", "error"})
           /\ audio.open \in BOOLEAN
           /\ audio.cut \in BOOLEAN
  BY DEF SherpaType

LEMMA NoAudioIs ==
    ASSUME SherpaOk, audio' = NoAudio, sherpa'.epoch \in Nat, sherpa'.queue = sherpa.queue,
           sherpa'.job = sherpa.job,
           sherpa' = [epoch |-> sherpa'.epoch, queue |-> sherpa.queue, job |-> sherpa.job]
    PROVE  SherpaOk'
  <1>1. SherpaType
    BY DEF SherpaOk
  <1>2. /\ audio'.epoch = 0 /\ audio'.cut = FALSE
        /\ audio' \in [epoch : Nat, items : Seq({"segment", "error"}), open : BOOLEAN, cut : BOOLEAN]
    <2>1. audio' = [epoch |-> 0, items |-> <<>>, open |-> FALSE, cut |-> FALSE]
      BY DEF NoAudio
    <2>. QED  BY <2>1
  <1>3. SherpaType'
    BY <1>1, <1>2, SherpaFields DEF SherpaType
  <1>. QED  BY <1>2, <1>3 DEF SherpaOk

LEMMA SynthesizeKeeps ==
    ASSUME SherpaOk, Synthesize
    PROVE  SherpaOk'
  <1>. DEFINE e == sherpa.epoch + 1
              more == Append(sherpa.queue, e)
  <1>1. SherpaType /\ sherpa' = [sherpa EXCEPT !.epoch = e, !.queue = more]
        /\ audio' = [epoch |-> e, items |-> <<>>, open |-> TRUE, cut |-> FALSE]
    BY DEF SherpaOk, Synthesize, NoAudio
  <1>2. e \in Nat /\ e /= 0
    BY <1>1, SherpaFields
  <1>. HIDE DEF e
  <1>3. /\ more \in Seq(Nat) /\ Len(more) = Len(sherpa.queue) + 1
        /\ more[Len(sherpa.queue) + 1] = e
        /\ \A i \in 1..Len(sherpa.queue) : more[i] = sherpa.queue[i]
    BY <1>1, <1>2, SherpaFields, AppendProperties
  <1>. HIDE DEF more
  <1>4. \A i \in 1..Len(more) : more[i] /= 0
    <2>1. \A i \in 1..Len(more) : i \in 1..Len(sherpa.queue) \/ i = Len(sherpa.queue) + 1
      BY <1>1, <1>3, SherpaFields
    <2>. QED  BY <1>2, <1>3, <2>1 DEF SherpaOk
  <1>5. /\ sherpa'.epoch = e /\ sherpa'.queue = more /\ sherpa'.job = sherpa.job
        /\ sherpa' = [epoch |-> e, queue |-> more, job |-> sherpa.job]
    BY <1>1, SherpaFields
  <1>6. SherpaType'
    <2>1. <<>> \in Seq({"segment", "error"})
      OBVIOUS
    <2>. QED  BY <1>1, <1>2, <1>3, <1>5, <2>1 DEF SherpaType
  <1>. QED  BY <1>1, <1>4, <1>5, <1>6 DEF SherpaOk

\* A speech that ends is not cut off, if it is the one that is read.
LEMMA EndSpeechKeeps ==
    ASSUME SherpaOk, NEW epoch \in Nat, NEW items \in {<<>>, <<"error">>}, NEW cut \in BOOLEAN,
           EndSpeech(epoch, items, cut), cut => audio.epoch /= epoch
    PROVE  /\ audio' \in [epoch : Nat, items : Seq({"segment", "error"}), open : BOOLEAN, cut : BOOLEAN]
           /\ audio'.epoch = audio.epoch /\ ~audio'.cut
  <1>1. SherpaType /\ ~audio.cut
    BY DEF SherpaOk
  <1>2. CASE audio.epoch /= epoch
    <2>1. audio' = audio
      BY <1>2 DEF EndSpeech
    <2>. QED  BY <1>1, <2>1 DEF SherpaType
  <1>3. CASE audio.epoch = epoch
    <2>. DEFINE more == audio.items \o items
    <2>1. audio' = [audio EXCEPT !.items = more, !.open = FALSE, !.cut = cut] /\ ~cut
      BY <1>3 DEF EndSpeech
    <2>2. items \in Seq({"segment", "error"})
      <3>1. <<>> \in Seq({"segment", "error"}) /\ <<"error">> \in Seq({"segment", "error"})
        OBVIOUS
      <3>. QED  BY <3>1
    <2>3. more \in Seq({"segment", "error"})
      BY <1>1, <2>2, SherpaFields, ConcatProperties
    <2>. HIDE DEF more
    <2>. QED  BY <1>1, <2>1, <2>3 DEF SherpaType
  <1>. QED  BY <1>2, <1>3

LEMMA SherpaThreadKeeps ==
    ASSUME SherpaOk, SherpaThread
    PROVE  SherpaOk'
  <1>1. /\ SherpaType /\ audio.epoch \in {0, sherpa.epoch} /\ ~audio.cut
        /\ \A i \in 1..Len(sherpa.queue) : sherpa.queue[i] /= 0
        /\ sherpa.job.epoch = 0 => sherpa.job = NoSynthesis
    BY DEF SherpaOk
  <1>2. NoSynthesis = [epoch |-> 0, made |-> 0] /\ NoSynthesis \in [epoch : Nat, made : 0..MaxSegments]
        /\ NoSynthesis.epoch = 0
    BY SpeechAssumption DEF NoSynthesis
  <1>3. CASE TakeSentence
    <2>. DEFINE e == Head(sherpa.queue)
                rest == Tail(sherpa.queue)
    <2>1. ~Synthesizing /\ sherpa.queue /= <<>>
      BY <1>3 DEF TakeSentence
    <2>2. /\ e \in Nat /\ e = sherpa.queue[1] /\ rest \in Seq(Nat)
          /\ Len(rest) = Len(sherpa.queue) - 1
          /\ \A i \in 1..Len(rest) : rest[i] = sherpa.queue[i + 1]
          /\ 1 \in 1..Len(sherpa.queue) /\ Len(sherpa.queue) \in Nat
      BY <1>1, <2>1, SherpaFields, HeadTailProperties, EmptySeq
    <2>. HIDE DEF rest, e
    <2>3. e /= 0 /\ \A i \in 1..Len(rest) : rest[i] /= 0
      <3>1. \A i \in 1..Len(rest) : i + 1 \in 1..Len(sherpa.queue)
        BY <2>2
      <3>. QED  BY <1>1, <2>2, <3>1
    <2>4. CASE e = sherpa.epoch
      <3>. DEFINE job == [epoch |-> e, made |-> sherpa.job.made]
      <3>1. sherpa' = [sherpa EXCEPT !.queue = rest, !.job.epoch = e] /\ audio' = audio
        BY <1>3, <2>4 DEF TakeSentence, e, rest
      <3>2. sherpa' = [epoch |-> sherpa.epoch, queue |-> rest, job |-> job]
        BY <1>1, <3>1, SherpaFields
      <3>3. job \in [epoch : Nat, made : 0..MaxSegments] /\ job.epoch /= 0
        BY <1>1, <2>2, <2>3, SherpaFields
      <3>. HIDE DEF job
      <3>4. /\ SherpaType' /\ sherpa'.epoch = sherpa.epoch /\ sherpa'.queue = rest
            /\ sherpa'.job = job
        <4>1. audio' \in [epoch : Nat, items : Seq({"segment", "error"}), open : BOOLEAN, cut : BOOLEAN]
          BY <1>1, <3>1 DEF SherpaType
        <4>2. sherpa.epoch \in Nat
          BY <1>1, SherpaFields
        <4>3. sherpa' \in [epoch : Nat, queue : Seq(Nat), job : [epoch : Nat, made : 0..MaxSegments]]
          BY ONLY <2>2, <3>2, <3>3, <4>2
        <4>. QED  BY <3>2, <4>1, <4>3 DEF SherpaType
      <3>. QED  BY <1>1, <2>3, <3>1, <3>3, <3>4 DEF SherpaOk
    <2>5. CASE e /= sherpa.epoch
      <3>1. sherpa' = [sherpa EXCEPT !.queue = rest] /\ EndSpeech(e, <<>>, TRUE)
        BY <1>3, <2>5 DEF TakeSentence, e, rest
      <3>2. audio.epoch /= e
        BY <1>1, <2>3, <2>5
      <3>3. <<>> \in {<<>>, <<"error">>} /\ TRUE \in BOOLEAN
        OBVIOUS
      <3>4. /\ audio' \in [epoch : Nat, items : Seq({"segment", "error"}), open : BOOLEAN, cut : BOOLEAN]
            /\ audio'.epoch = audio.epoch /\ ~audio'.cut
        BY <2>2, <3>1, <3>2, <3>3, EndSpeechKeeps
      <3>5. /\ SherpaType' /\ sherpa'.epoch = sherpa.epoch /\ sherpa'.queue = rest
            /\ sherpa'.job = sherpa.job
        BY <1>1, <2>2, <3>1, <3>4 DEF SherpaType
      <3>. QED  BY <1>1, <2>3, <3>4, <3>5 DEF SherpaOk
    <2>. QED  BY <2>4, <2>5
  <1>4. ASSUME Synthesizing
        PROVE  sherpa.job.epoch \in Nat \ {0}
    BY <1>1, <1>4, SherpaFields DEF Synthesizing
  <1>5. ASSUME NEW items \in {<<>>, <<"error">>}, NEW cut \in BOOLEAN, Synthesizing,
               EndSpeech(sherpa.job.epoch, items, cut), cut => audio.epoch /= sherpa.job.epoch,
               sherpa' = [sherpa EXCEPT !.job = NoSynthesis]
        PROVE  SherpaOk'
    <2>. DEFINE epoch == sherpa.job.epoch
    <2>1. epoch \in Nat /\ EndSpeech(epoch, items, cut) /\ (cut => audio.epoch /= epoch)
      BY <1>4, <1>5
    <2>. HIDE DEF epoch
    <2>2. /\ audio' \in [epoch : Nat, items : Seq({"segment", "error"}), open : BOOLEAN, cut : BOOLEAN]
          /\ audio'.epoch = audio.epoch /\ ~audio'.cut
      BY <2>1, EndSpeechKeeps
    <2>3. /\ SherpaType' /\ sherpa'.epoch = sherpa.epoch /\ sherpa'.queue = sherpa.queue
          /\ sherpa'.job = NoSynthesis
      BY <1>1, <1>2, <1>5, <2>2 DEF SherpaType
    <2>. QED  BY <1>1, <2>2, <2>3 DEF SherpaOk
  <1>6. CASE Emit
    <2>1. Synthesizing /\ sherpa.job.made < MaxSegments
      BY <1>6 DEF Emit
    <2>2. CASE Passed \/ audio.epoch /= sherpa.job.epoch
      <3>1. /\ sherpa' = [sherpa EXCEPT !.job = NoSynthesis]
            /\ EndSpeech(sherpa.job.epoch, <<>>, TRUE)
        BY <1>6, <2>2 DEF Emit
      <3>2. audio.epoch /= sherpa.job.epoch
        BY <1>1, <1>4, <2>1, <2>2 DEF Passed
      <3>3. <<>> \in {<<>>, <<"error">>} /\ TRUE \in BOOLEAN
        OBVIOUS
      <3>. QED  BY <1>5, <2>1, <3>1, <3>2, <3>3
    <2>3. CASE ~(Passed \/ audio.epoch /= sherpa.job.epoch)
      <3>. DEFINE made == sherpa.job.made + 1
                  items == Append(audio.items, "segment")
      <3>1. sherpa' = [sherpa EXCEPT !.job.made = made] /\ audio' = [audio EXCEPT !.items = items]
        BY <1>6, <2>3 DEF Emit
      <3>2. made \in 0..MaxSegments
        <4>1. sherpa.job.made \in 0..MaxSegments /\ MaxSegments \in Nat
          BY <1>1, SherpaFields, SpeechAssumption
        <4>. QED  BY <2>1, <4>1
      <3>3. items \in Seq({"segment", "error"})
        <4>1. "segment" \in {"segment", "error"}
          OBVIOUS
        <4>. QED  BY <1>1, <4>1, SherpaFields, AppendProperties
      <3>. HIDE DEF made, items
      <3>. DEFINE job == [epoch |-> sherpa.job.epoch, made |-> made]
      <3>4. sherpa' = [epoch |-> sherpa.epoch, queue |-> sherpa.queue, job |-> job]
        BY <1>1, <3>1, SherpaFields
      <3>5. job \in [epoch : Nat, made : 0..MaxSegments] /\ job.epoch /= 0
        BY <1>1, <1>4, <2>1, <3>2, SherpaFields
      <3>. HIDE DEF job
      <3>6. audio' \in [epoch : Nat, items : Seq({"segment", "error"}), open : BOOLEAN, cut : BOOLEAN]
            /\ audio'.epoch = audio.epoch /\ audio'.cut = audio.cut
        BY <1>1, <3>1, <3>3 DEF SherpaType
      <3>7. /\ SherpaType' /\ sherpa'.epoch = sherpa.epoch /\ sherpa'.queue = sherpa.queue
            /\ sherpa'.job = job
        BY <1>1, <3>4, <3>5, <3>6, SherpaFields DEF SherpaType
      <3>. QED  BY <1>1, <3>5, <3>6, <3>7 DEF SherpaOk
    <2>. QED  BY <2>2, <2>3
  <1>7. CASE EngineReturns
    <2>1. PICK failure \in {<<>>, <<"error">>} :
             EndSpeech(sherpa.job.epoch, IF Passed THEN <<>> ELSE failure, FALSE)
      BY <1>7 DEF EngineReturns
    <2>2. (IF Passed THEN <<>> ELSE failure) \in {<<>>, <<"error">>} /\ FALSE \in BOOLEAN
      OBVIOUS
    <2>3. Synthesizing /\ sherpa' = [sherpa EXCEPT !.job = NoSynthesis]
      BY <1>7 DEF EngineReturns
    <2>. DEFINE items == IF Passed THEN <<>> ELSE failure
    <2>4. items \in {<<>>, <<"error">>} /\ EndSpeech(sherpa.job.epoch, items, FALSE)
      BY <2>1, <2>2
    <2>. HIDE DEF items
    <2>. QED  BY <1>5, <2>2, <2>3, <2>4
  <1>. QED  BY <1>3, <1>6, <1>7 DEF SherpaThread

LEMMA SherpaAside == SherpaOk /\ UNCHANGED <<sherpa, audio>> => SherpaOk'
  BY DEF SherpaOk, SherpaType

LEMMA TtsSpeaksIs ==
    ASSUME PathOk, TtsSpeaks
    PROVE  /\ tts.box /= <<>> /\ Head(tts.box) \in TtsFrames /\ Head(tts.box).kind = "sentence"
           /\ Head(tts.box).sentence \in Sentence
           /\ TtsOk' /\ tts'.box = Tail(tts.box)
           /\ trace' \in Traces /\ trace'.spoken = Append(trace.spoken, Head(tts.box).sentence)
           /\ trace'.turns = trace.turns
  <1>. DEFINE sentence == Head(tts.box).sentence
              more == Append(trace.spoken, sentence)
  <1>1. /\ tts.box /= <<>> /\ Head(tts.box).kind = "sentence"
        /\ tts' = [tts EXCEPT !.box = Tail(@), !.speaking = TRUE]
        /\ trace' = [trace EXCEPT !.spoken = more]
    BY DEF TtsSpeaks, HasData
  <1>2. Head(tts.box) \in TtsFrames /\ Tail(tts.box) \in Seq(TtsFrames)
    BY <1>1, PathFields, Boxes
  <1>3. sentence \in Sentence
    BY <1>1, <1>2, FrameFields DEF TtsFrames
  <1>. HIDE DEF sentence
  <1>4. more \in Seq(Sentence)
    BY <1>3, PathFields, Boxes
  <1>. HIDE DEF more
  <1>5. TtsOk' /\ tts'.box = Tail(tts.box)
    BY <1>1, <1>2 DEF PathOk, TtsOk
  <1>6. trace' \in Traces /\ trace'.spoken = more /\ trace'.turns = trace.turns
    BY <1>1, <1>4 DEF PathOk, Traces
  <1>. QED  BY <1>1, <1>2, <1>3, <1>5, <1>6 DEF more, sentence

LEMMA TtsInterruptIs ==
    ASSUME PathOk, TtsInterrupt
    PROVE  /\ Interrupted(tts.box) /\ AfterInterrupt(tts.box) \in Seq(TtsFrames)
           /\ TtsOk' /\ tts'.box = AfterInterrupt(tts.box)
  <1>1. Interrupted(tts.box) /\ tts' = [box |-> AfterInterrupt(tts.box), speaking |-> FALSE]
    BY DEF TtsInterrupt
  <1>2. AfterInterrupt(tts.box) \in Seq(TtsFrames)
    BY <1>1, PathFields, NothingDurable, BehindInterrupt
  <1>. QED  BY <1>1, <1>2 DEF TtsOk

LEMMA TtsKeeps ==
    ASSUME ModelInv, PathOk, SherpaOk, TtsSteps
    PROVE  ModelInv' /\ PathOk' /\ SherpaOk'
  <1>1. UNCHANGED <<llama, stream, lm, chunker>>
    BY DEF TtsSteps, TtsForwards, TtsSpeaks, TtsHears, TtsEnds, TtsInterrupt
  <1>2. ModelInv' /\ LmOk' /\ ChunkerOk'
    BY <1>1, ModelAside, LmAside DEF PathOk, ChunkerOk
  <1>3. SherpaType
    BY DEF SherpaOk
  <1>4. CASE TtsForwards
    <2>1. /\ tts.box /= <<>> /\ tts' = [tts EXCEPT !.box = Tail(@)]
          /\ UNCHANGED <<sherpa, audio, trace>>
      BY <1>4 DEF TtsForwards, HasData
    <2>2. Tail(tts.box) \in Seq(TtsFrames)
      BY <2>1, PathFields, Boxes
    <2>3. TtsOk' /\ trace' \in Traces
      BY <2>1, <2>2 DEF PathOk, TtsOk
    <2>. QED  BY <1>2, <2>1, <2>3, SherpaAside DEF PathOk
  <1>5. CASE TtsSpeaks
    <2>1. Synthesize
      BY <1>5 DEF TtsSpeaks
    <2>. QED  BY <1>2, <1>5, <2>1, TtsSpeaksIs, SynthesizeKeeps DEF PathOk
  <1>6. ASSUME audio' = NoAudio, UNCHANGED sherpa
        PROVE  SherpaOk'
    <2>1. /\ sherpa.epoch \in Nat
          /\ sherpa = [epoch |-> sherpa.epoch, queue |-> sherpa.queue, job |-> sherpa.job]
      BY <1>3, SherpaFields
    <2>2. /\ sherpa'.epoch \in Nat /\ sherpa'.queue = sherpa.queue /\ sherpa'.job = sherpa.job
          /\ sherpa' = [epoch |-> sherpa'.epoch, queue |-> sherpa.queue, job |-> sherpa.job]
      BY <1>6, <2>1
    <2>. QED  BY <1>6, <2>2, NoAudioIs
  <1>7. CASE TtsHears
    <2>1. audio.items /= <<>> /\ UNCHANGED <<sherpa, trace>>
      BY <1>7 DEF TtsHears
    <2>2. trace' \in Traces
      BY <2>1 DEF PathOk
    <2>3. CASE Head(audio.items) = "error"
      <3>1. tts' = [tts EXCEPT !.speaking = FALSE] /\ audio' = NoAudio
        BY <1>7, <2>3 DEF TtsHears
      <3>2. TtsOk'
        BY <3>1 DEF PathOk, TtsOk
      <3>. QED  BY <1>2, <1>6, <2>1, <2>2, <3>1, <3>2 DEF PathOk
    <2>4. CASE Head(audio.items) /= "error"
      <3>1. audio' = [audio EXCEPT !.items = Tail(@)] /\ UNCHANGED tts
        BY <1>7, <2>4 DEF TtsHears
      <3>2. Tail(audio.items) \in Seq({"segment", "error"})
        BY <1>3, <2>1, SherpaFields, Boxes
      <3>3. /\ audio' \in [epoch : Nat, items : Seq({"segment", "error"}), open : BOOLEAN, cut : BOOLEAN]
            /\ audio'.epoch = audio.epoch /\ audio'.cut = audio.cut
        BY <1>3, <3>1, <3>2 DEF SherpaType
      <3>4. SherpaOk'
        BY <2>1, <3>3 DEF SherpaOk, SherpaType
      <3>5. TtsOk'
        BY <3>1 DEF PathOk, TtsOk
      <3>. QED  BY <1>2, <2>2, <3>4, <3>5 DEF PathOk
    <2>. QED  BY <2>3, <2>4
  <1>8. CASE TtsEnds
    <2>1. /\ tts' = [tts EXCEPT !.speaking = FALSE] /\ audio' = NoAudio
          /\ UNCHANGED <<sherpa, trace>>
      BY <1>8 DEF TtsEnds
    <2>2. TtsOk' /\ trace' \in Traces
      BY <2>1 DEF PathOk, TtsOk
    <2>. QED  BY <1>2, <1>6, <2>1, <2>2 DEF PathOk
  <1>9. CASE TtsInterrupt
    <2>1. CancelSpeech /\ UNCHANGED trace
      BY <1>9 DEF TtsInterrupt
    <2>2. SherpaOk'
      <3>1. /\ audio' = NoAudio /\ sherpa'.epoch = sherpa.epoch + 1
            /\ sherpa'.queue = sherpa.queue
            /\ sherpa'.job = sherpa.job
            /\ sherpa' = [epoch |-> sherpa.epoch + 1, queue |-> sherpa.queue, job |-> sherpa.job]
        BY <1>3, <2>1, SherpaFields DEF CancelSpeech
      <3>2. sherpa'.epoch \in Nat
        BY <1>3, <3>1, SherpaFields
      <3>. QED  BY <3>1, <3>2, NoAudioIs
    <2>3. TtsOk' /\ trace' \in Traces
      BY <1>9, <2>1, TtsInterruptIs DEF PathOk
    <2>. QED  BY <1>2, <2>2, <2>3 DEF PathOk
  <1>. QED  BY <1>4, <1>5, <1>7, <1>8, <1>9 DEF TtsSteps

-----------------------------------------------------------------------------
(***************************************************************************)
(* The work of the two threads.                                            *)
(***************************************************************************)
WorkInv == ModelInv /\ PathOk /\ SherpaOk

LEMMA WorkInit == Init => WorkInv
  <1>. SUFFICES ASSUME Init PROVE WorkInv
    OBVIOUS
  <1>1. /\ llama = [epoch |-> 0, queue |-> <<>>, job |-> NoJob, kv |-> <<>>, processed |-> <<>>]
        /\ stream = [epoch |-> 0, items |-> <<>>, open |-> FALSE, cut |-> FALSE]
        /\ sherpa = [epoch |-> 0, queue |-> <<>>, job |-> [epoch |-> 0, made |-> 0]]
        /\ audio = [epoch |-> 0, items |-> <<>>, open |-> FALSE, cut |-> FALSE]
        /\ lm = [box |-> <<>>, reply |-> <<>>, convo |-> << <<0, 0>> >>, phase |-> "idle"]
        /\ chunker = [box |-> <<>>, emitted |-> 0, todo |-> <<>>]
        /\ tts = [box |-> <<>>, speaking |-> FALSE]
        /\ trace = [turns |-> 0, interrupts |-> 0, finished |-> {}, committed |-> {},
                    cut |-> {}, spoken |-> <<>>]
    BY DEF Init, LlamaInit, SherpaInit, NoStream, NoAudio, NoSynthesis
  <1>2. \A S : <<>> \in Seq(S) /\ Len(<<>>) = 0
    OBVIOUS
  <1>3. 0 \in 0..MaxTurns /\ 0 \in 0..MaxWords /\ 0 \in 0..MaxInterrupts /\ 0 \in 0..MaxSegments
        /\ MaxWords \in Nat
    BY LlamaAssumption, ReplyAssumption, SpeechAssumption
  <1>4. ~Working
    BY <1>1 DEF Working
  <1>5. LlamaType
    BY <1>1, <1>2 DEF LlamaType
  <1>6. StreamOk
    BY <1>1, <1>2, <1>3 DEF StreamOk
  <1>7. QueueOk
    BY <1>1, <1>2, <1>4 DEF QueueOk, InOrder
  <1>8. JobOk
    <2>1. IsPrefix(<<>>, <<>>)
      <3>1. /\ <<>> \in Seq(Token) /\ Len(<<>>) <= Len(<<>>)
            /\ \A i \in 1..Len(<<>>) : <<>>[i] = <<>>[i]
        OBVIOUS
      <3>. QED  BY ONLY <3>1, PrefixIs
    <2>. QED  BY <1>1, <1>4, <2>1 DEF JobOk
  <1>9. SherpaOk
    <2>1. SherpaType
      BY <1>1, <1>2, <1>3 DEF SherpaType
    <2>. QED  BY <1>1, <2>1 DEF SherpaOk, NoSynthesis
  <1>10. LmOk
    <2>1. <<0, 0>> \in Token
      BY <1>3 DEF Token
    <2>2. << <<0, 0>> >> \in Seq(Token) /\ << <<0, 0>> >> /= <<>>
      BY <2>1
    <2>. QED  BY <1>1, <1>2, <2>2 DEF LmOk, Phases
  <1>11. ChunkerOk /\ TtsOk
    BY <1>1, <1>2, <1>3 DEF ChunkerOk, TtsOk
  <1>12. trace \in Traces
    BY <1>1, <1>2, <1>3 DEF Traces
  <1>. QED  BY <1>5, <1>6, <1>7, <1>8, <1>9, <1>10, <1>11, <1>12 DEF WorkInv, ModelInv, PathOk

LEMMA PathAside == PathOk /\ UNCHANGED <<lm, chunker, tts, trace>> => PathOk'
  BY LmAside DEF PathOk, ChunkerOk, TtsOk

LEMMA WorkNext == WorkInv /\ [Next]_vars => WorkInv'
  <1>. SUFFICES ASSUME WorkInv, [Next]_vars PROVE WorkInv'
    OBVIOUS
  <1>1. ModelInv /\ PathOk /\ SherpaOk
    BY DEF WorkInv
  <1>2. CASE UserSpeaks \/ BargeIn
    <2>1. UNCHANGED <<sherpa, audio>>
      BY <1>2 DEF UserSpeaks, BargeIn
    <2>. QED  BY <1>1, <1>2, <2>1, UpstreamKeeps, SherpaAside DEF WorkInv
  <1>3. CASE LmSteps
    <2>1. UNCHANGED <<sherpa, audio>>
      BY <1>3 DEF LmSteps, LmTakes, LmReads, LmFails, LmFinal, LmFinishes, LmCommits, LmInterrupt
    <2>2. ModelInv' /\ PathOk'
      BY <1>1, <1>3, LmTakesKeeps, LmReadsKeeps, LmFailsKeeps, LmFinalKeeps, LmFinishesKeeps,
         LmCommitsKeeps, LmInterruptKeeps DEF LmSteps
    <2>. QED  BY <1>1, <2>1, <2>2, SherpaAside DEF WorkInv
  <1>4. CASE ChunkerSteps
    <2>1. UNCHANGED <<sherpa, audio>>
      BY <1>4 DEF ChunkerSteps, ChunkerReads, ChunkerForwards, ChunkerEmits, ChunkerInterrupt
    <2>. QED  BY <1>1, <1>4, <2>1, ChunkerKeeps, SherpaAside DEF WorkInv
  <1>5. CASE TtsSteps
    BY <1>1, <1>5, TtsKeeps DEF WorkInv
  <1>6. CASE LlamaSteps
    <2>1. LlamaThread /\ UNCHANGED <<sherpa, audio, lm, chunker, tts, trace>>
      BY <1>6 DEF LlamaSteps
    <2>. QED  BY <1>1, <2>1, ThreadKeeps, PathAside, SherpaAside DEF WorkInv
  <1>7. CASE SherpaSteps
    <2>1. SherpaThread /\ UNCHANGED <<llama, stream, lm, chunker, tts, trace>>
      BY <1>7 DEF SherpaSteps
    <2>. QED  BY <1>1, <2>1, SherpaThreadKeeps, ModelAside, PathAside DEF WorkInv
  <1>8. CASE UNCHANGED vars
    <2>1. UNCHANGED <<llama, stream, sherpa, audio, lm, chunker, tts, trace>>
      BY <1>8 DEF vars
    <2>. QED  BY <1>1, <2>1, ModelAside, PathAside, SherpaAside DEF WorkInv
  <1>. QED  BY <1>2, <1>3, <1>4, <1>5, <1>6, <1>7, <1>8 DEF Next, System, Rest

LEMMA LargerSeq == \A S, T : S \subseteq T => Seq(S) \subseteq Seq(T)
  <1>. SUFFICES ASSUME NEW S, NEW T, S \subseteq T, NEW s \in Seq(S) PROVE s \in Seq(T)
    OBVIOUS
  <1>1. \A i \in 1..Len(s) : s[i] \in T
    OBVIOUS
  <1>. QED  BY <1>1

LEMMA PathTypes == PathOk /\ LlamaType /\ SherpaType => TypeOK
  <1>. SUFFICES ASSUME PathOk, LlamaType, SherpaType PROVE TypeOK
    OBVIOUS
  <1>1. /\ Seq(LmFrames) \subseteq Seq(Frame) /\ Seq(ChunkerFrames) \subseteq Seq(Frame)
        /\ Seq(TtsFrames) \subseteq Seq(Frame)
    <2>1. LmFrames \subseteq Frame /\ ChunkerFrames \subseteq Frame /\ TtsFrames \subseteq Frame
      BY DEF LmFrames, ChunkerFrames, TtsFrames
    <2>. QED  BY <2>1, LargerSeq
  <1>2. lm \in [box : Seq(Frame), reply : Seq(BOOLEAN), convo : Seq(Token),
                phase : {"idle", "reading", "final", "finished"}]
    BY <1>1 DEF PathOk, LmOk, Phases
  <1>3. chunker \in [box : Seq(Frame), emitted : 0..MaxWords, todo : Seq(Sentence)]
    BY <1>1 DEF PathOk, ChunkerOk
  <1>4. tts \in [box : Seq(Frame), speaking : BOOLEAN]
    BY <1>1 DEF PathOk, TtsOk
  <1>. QED  BY <1>2, <1>3, <1>4 DEF PathOk, TypeOK, Traces

LEMMA CacheHolds == ModelInv => CacheIsPrompt /\ OneLateDecode
  <1>. SUFFICES ASSUME ModelInv PROVE CacheIsPrompt /\ OneLateDecode
    OBVIOUS
  <1>. DEFINE prompt == llama.job.prompt
              made == llama.job.made
              kv == llama.kv
  <1>1. LlamaType /\ JobOk
    BY DEF ModelInv
  <1>2. ASSUME Working
        PROVE  /\ kv = llama.processed /\ IsPrefix(kv, WithWords(prompt, made))
               /\ llama.job.pc = "sample" => kv = WithWords(prompt, made)
    <2>1. /\ prompt \in Seq(Token) /\ prompt /= <<>> /\ made \in 0..MaxWords /\ kv \in Seq(Token)
          /\ llama.job.pc \in {"prefill", "decoding", "sample", "feeding"} /\ kv = llama.processed
      BY <1>1, <1>2, LlamaFields, JobFields DEF JobOk
    <2>2. WithWords(prompt, made) \in Seq(Token)
      BY <2>1, WithWordsIs
    <2>3. CASE llama.job.pc \in {"prefill", "decoding"}
      <3>1. made = 0 /\ Len(kv) < Len(prompt) /\ kv = SubSeq(prompt, 1, Len(kv))
        BY <1>1, <1>2, <2>3 DEF JobOk
      <3>2. WithWords(prompt, made) = prompt
        BY <2>1, <3>1, WithNoWords
      <3>3. Len(kv) \in 0..Len(prompt)
        BY <2>1, <3>1
      <3>4. \A i \in 1..Len(kv) : SubSeq(prompt, 1, Len(kv))[i] = prompt[i]
        BY <2>1, <3>3, FirstOf
      <3>5. IsPrefix(kv, prompt)
        <4>1. Len(kv) <= Len(prompt) /\ \A i \in 1..Len(kv) : kv[i] = prompt[i]
          BY <3>1, <3>3, <3>4
        <4>. QED  BY <2>1, <4>1, PrefixIs
      <3>. QED  BY <2>1, <2>3, <3>2, <3>5
    <2>4. CASE llama.job.pc = "sample"
      <3>1. kv = WithWords(prompt, made)
        BY <1>1, <1>2, <2>4 DEF JobOk
      <3>. QED  BY <2>1, <3>1, PrefixIs
    <2>5. CASE llama.job.pc = "feeding"
      <3>1. made > 0 /\ kv = WithWords(prompt, made - 1)
        BY <1>1, <1>2, <2>5 DEF JobOk
      <3>2. made \in 1..MaxWords
        BY <2>1, <3>1
      <3>. DEFINE word == <<Last(prompt)[1], made>>
      <3>3. WithWords(prompt, made) = kv \o <<word>>
        BY <2>1, <3>1, <3>2, WithNextWord
      <3>4. word \in Token
        BY <2>1, WithWordsIs DEF Token
      <3>. HIDE DEF word
      <3>5. <<word>> \in Seq(Token)
        BY <3>4
      <3>. QED  BY <2>1, <2>5, <3>3, <3>5, PrefixOfMore
    <2>. QED  BY <2>1, <2>3, <2>4, <2>5
  <1>3. IsPrefix(llama.processed, llama.kv)
    BY <1>1 DEF JobOk
  <1>4. CacheIsPrompt
    BY <1>2, <1>3 DEF CacheIsPrompt, WithWords
  <1>5. OneLateDecode
    BY <1>1 DEF JobOk, OneLateDecode
  <1>. QED  BY <1>4, <1>5

\* However turns, barge-ins and failures follow each other, the prompt cache holds what its
\* record says and what the reply under way is sampled from, a cancelled generation decodes
\* at most once more, and no stream that is still read ends because it was cut off (worker.rs
\* of pipecrab-lm-llamacpp and of pipecrab-tts-sherpa).
THEOREM WorkStaysCurrent == Spec => []WorkIsCurrent
  <1>1. WorkInv => WorkIsCurrent
    <2>. SUFFICES ASSUME WorkInv PROVE WorkIsCurrent
      OBVIOUS
    <2>1. TypeOK
      BY PathTypes DEF WorkInv, ModelInv, SherpaOk
    <2>2. EndMeansComplete
      BY DEF EndMeansComplete, WorkInv, ModelInv, StreamOk, SherpaOk
    <2>3. CacheIsPrompt /\ OneLateDecode
      BY CacheHolds DEF WorkInv
    <2>. QED  BY <2>1, <2>2, <2>3 DEF WorkIsCurrent
  <1>. QED  BY <1>1, WorkInit, WorkNext, PTL DEF Spec

-----------------------------------------------------------------------------
(***************************************************************************)
(* The sentences that wait to be spoken: those of an inbox behind its last *)
(* Interrupt.                                                              *)
(***************************************************************************)
LEMMA SequencesGrow ==
    ASSUME NEW S, NEW P, <<>> \in P,
           \A s \in Seq(S) : \A x \in S : s \in P => Append(s, x) \in P
    PROVE  \A s \in Seq(S) : s \in P
  <1>. DEFINE T == {n \in Nat : \A s \in Seq(S) : Len(s) = n => s \in P}
  <1>1. 0 \in T
    BY EmptySeq
  <1>2. ASSUME NEW n \in Nat, n \in T
        PROVE  n + 1 \in T
    <2>1. ASSUME NEW s \in Seq(S), Len(s) = n + 1
          PROVE  s \in P
      <3>1. s /= <<>>
        BY <2>1
      <3>2. PICK t \in Seq(S), x \in S : s = Append(t, x)
        BY <3>1, SequenceEmptyOrAppend
      <3>3. Len(t) = n
        BY <2>1, <3>2
      <3>. QED  BY <1>2, <3>2, <3>3
    <2>. QED  BY <2>1
  <1>3. Nat \subseteq T
    <2>. HIDE DEF T
    <2>. QED  BY <1>1, <1>2, Data!SetInduction
  <1>. QED  BY <1>3

LEMMA ConcatAppend ==
    ASSUME NEW S, NEW s \in Seq(S), NEW t \in Seq(S), NEW x \in S
    PROVE  s \o Append(t, x) = Append(s \o t, x)
  <1>1. t \o <<x>> = Append(t, x) /\ (s \o t) \o <<x>> = Append(s \o t, x)
    BY AppendIsConcat, ConcatProperties
  <1>2. (s \o t) \o <<x>> = s \o (t \o <<x>>)
    <2>1. <<x>> \in Seq(S)
      OBVIOUS
    <2>. QED  BY <2>1, ConcatAssociative
  <1>. QED  BY <1>1, <1>2

SaidStep(f, k) ==
    IF f.kind = "interrupt" THEN <<>> ELSE IF f.kind = "sentence" THEN Append(k, f.sentence) ELSE k

Said(box) ==
    LET k[n \in 0..Len(box)] == IF n = 0 THEN <<>> ELSE SaidStep(box[n], k[n - 1])
    IN  k[Len(box)]

\* Going through an inbox once.
Through(g, box) ==
    /\ g[0] = <<>> /\ \A i \in 1..Len(box) : g[i] = SaidStep(box[i], g[i - 1])
    /\ Said(box) = g[Len(box)]

LEMMA SaidStepType ==
    ASSUME NEW f \in TtsFrames, NEW k \in Seq(Sentence)
    PROVE  SaidStep(f, k) \in Seq(Sentence)
  <1>1. f.kind = "sentence" => f.sentence \in Sentence
    BY FrameFields DEF TtsFrames
  <1>2. f.kind = "sentence" => Append(k, f.sentence) \in Seq(Sentence)
    BY <1>1, AppendProperties
  <1>. QED  BY <1>2 DEF SaidStep

LEMMA SaidThrough ==
    ASSUME NEW box \in Seq(TtsFrames)
    PROVE  \E g \in [0..Len(box) -> Seq(Sentence)] : Through(g, box)
  <1>. DEFINE N == Len(box)
              Body(k) == [n \in 0..N |-> IF n = 0 THEN <<>> ELSE SaidStep(box[n], k[n - 1])]
              H == [i \in 1..N |-> [s \in Seq(Sentence) |-> SaidStep(box[i], s)]]
              f == CHOOSE k : k = Body(k)
  <1>1. N \in Nat /\ \A i \in 1..N : box[i] \in TtsFrames
    OBVIOUS
  <1>2. \A i \in 1..N, s \in Seq(Sentence) : SaidStep(box[i], s) \in Seq(Sentence)
    BY <1>1, SaidStepType
  <1>3. Said(box) = f[N]
    BY DEF Said
  <1>. HIDE DEF N
  <1>4. PICK g \in [0..N -> Seq(Sentence)] : g[0] = <<>> /\ \A i \in 1..N : g[i] = H[i][g[i - 1]]
    <2>. DEFINE A == Seq(Sentence)
                a == <<>>
    <2>1. H \in [1..N -> [A -> A]]
      BY <1>2
    <2>2. a \in A /\ N \in Nat
      BY <1>1
    <2>. HIDE DEF A, a, H
    <2>3. \E g \in [0..N -> A] : g[0] = a /\ \A i \in 1..N : g[i] = H[i][g[i - 1]]
      BY ONLY <2>1, <2>2, Data!Iteration
    <2>. QED  BY <2>3 DEF A, a
  <1>5. \A i \in 1..N : g[i] = SaidStep(box[i], g[i - 1])
    <2>1. \A i \in 1..N, s \in Seq(Sentence) : H[i][s] = SaidStep(box[i], s)
      OBVIOUS
    <2>. HIDE DEF H
    <2>2. \A i \in 1..N : i - 1 \in 0..N
      BY <1>1
    <2>. QED  BY <1>4, <2>1, <2>2
  <1>6. g = Body(g)
    <2>1. \A n \in 0..N : g[n] = IF n = 0 THEN <<>> ELSE SaidStep(box[n], g[n - 1])
      <3>1. \A n \in 0..N : n = 0 \/ (n /= 0 /\ n \in 1..N)
        BY <1>1
      <3>. QED  BY <1>4, <1>5, <3>1
    <2>. QED  BY <1>4, <2>1
  <1>. HIDE DEF Body
  <1>7. f = Body(f)
    BY <1>6
  <1>. HIDE DEF f
  <1>8. f[0] = <<>> /\ \A n \in 1..N : f[n] = SaidStep(box[n], f[n - 1])
    <2>1. \A n \in 0..N : Body(f)[n] = IF n = 0 THEN <<>> ELSE SaidStep(box[n], f[n - 1])
      BY DEF Body
    <2>2. \A n \in 1..N : n \in 0..N /\ n /= 0
      BY <1>1
    <2>3. 0 \in 0..N
      BY <1>1
    <2>. QED  BY <1>7, <2>1, <2>2, <2>3
  <1>9. \A n \in 0..N : f[n] = g[n]
    <2>. DEFINE T == {n \in 0..N : f[n] = g[n]}
    <2>1. 0 \in T
      BY <1>1, <1>4, <1>8
    <2>2. ASSUME NEW n \in 0..N, n + 1 <= N, n \in T
          PROVE  n + 1 \in T
      <3>1. n + 1 \in 1..N /\ (n + 1) - 1 = n /\ n + 1 \in 0..N
        BY <1>1, <2>2
      <3>2. f[n + 1] = SaidStep(box[n + 1], f[n]) /\ g[n + 1] = SaidStep(box[n + 1], g[n])
        BY <1>5, <1>8, <3>1
      <3>. QED  BY <2>2, <3>1, <3>2
    <2>. HIDE DEF T
    <2>3. \A n \in 0..N : n \in T
      BY <1>1, <2>1, <2>2, Data!CountingUp
    <2>. QED  BY <2>3 DEF T
  <1>10. f[N] = g[N]
    BY <1>1, <1>9
  <1>. QED  BY <1>3, <1>4, <1>5, <1>10 DEF N, Through

LEMMA SaidType ==
    ASSUME NEW box \in Seq(TtsFrames)
    PROVE  Said(box) \in Seq(Sentence)
  <1>1. PICK g \in [0..Len(box) -> Seq(Sentence)] : Through(g, box)
    BY SaidThrough
  <1>2. Len(box) \in 0..Len(box)
    OBVIOUS
  <1>. QED  BY <1>1, <1>2 DEF Through

LEMMA SaidNone == Said(<<>>) = <<>>
  <1>1. <<>> \in Seq(TtsFrames) /\ Len(<<>>) = 0
    OBVIOUS
  <1>2. PICK g \in [0..Len(<<>>) -> Seq(Sentence)] : Through(g, <<>>)
    BY <1>1, SaidThrough
  <1>. QED  BY <1>1, <1>2 DEF Through

LEMMA SaidAppend ==
    ASSUME NEW box \in Seq(TtsFrames), NEW x \in TtsFrames
    PROVE  Said(Append(box, x)) = SaidStep(x, Said(box))
  <1>. DEFINE whole == Append(box, x)
              N == Len(box)
  <1>1. /\ N \in Nat /\ whole \in Seq(TtsFrames) /\ Len(whole) = N + 1 /\ whole[N + 1] = x
        /\ \A i \in 1..N : whole[i] = box[i]
    BY AppendProperties
  <1>. HIDE DEF whole
  <1>2. PICK g \in [0..N -> Seq(Sentence)] : Through(g, box)
    BY SaidThrough
  <1>3. PICK h \in [0..Len(whole) -> Seq(Sentence)] : Through(h, whole)
    BY <1>1, SaidThrough
  <1>4. /\ g[0] = <<>> /\ h[0] = <<>> /\ Said(box) = g[N] /\ Said(whole) = h[N + 1]
        /\ \A i \in 1..N : g[i] = SaidStep(box[i], g[i - 1])
        /\ \A i \in 1..(N + 1) : h[i] = SaidStep(whole[i], h[i - 1])
    BY <1>1, <1>2, <1>3 DEF Through
  <1>. HIDE DEF N
  <1>5. \A n \in 0..N : g[n] = h[n]
    <2>. DEFINE T == {n \in 0..N : g[n] = h[n]}
    <2>1. 0 \in T
      BY <1>1, <1>4
    <2>2. ASSUME NEW n \in 0..N, n + 1 <= N, n \in T
          PROVE  n + 1 \in T
      <3>1. n + 1 \in 1..N /\ n + 1 \in 1..(N + 1) /\ (n + 1) - 1 = n /\ n + 1 \in 0..N
        BY <1>1, <2>2
      <3>2. /\ g[n + 1] = SaidStep(box[n + 1], g[n]) /\ h[n + 1] = SaidStep(whole[n + 1], h[n])
            /\ whole[n + 1] = box[n + 1]
        BY <1>1, <1>4, <3>1
      <3>. QED  BY <2>2, <3>1, <3>2
    <2>. HIDE DEF T
    <2>3. \A n \in 0..N : n \in T
      BY <1>1, <2>1, <2>2, Data!CountingUp
    <2>. QED  BY <2>3 DEF T
  <1>6. g[N] = h[N] /\ N + 1 \in 1..(N + 1) /\ (N + 1) - 1 = N
    BY <1>1, <1>5
  <1>7. h[N + 1] = SaidStep(x, h[N])
    BY <1>1, <1>4, <1>6
  <1>. QED  BY <1>4, <1>6, <1>7 DEF whole

LEMMA SaidConcat ==
    ASSUME NEW s \in Seq(TtsFrames), NEW t \in Seq(TtsFrames)
    PROVE  Said(s \o t) = IF Interrupted(t) THEN Said(t) ELSE Said(s) \o Said(t)
  <1>. DEFINE Holds(u) == Said(s \o u) = IF Interrupted(u) THEN Said(u) ELSE Said(s) \o Said(u)
              P == {u \in Seq(TtsFrames) : Holds(u)}
  <1>1. <<>> \in P
    <2>1. /\ ~Interrupted(<<>>) /\ s \o <<>> = s /\ Said(s) \o <<>> = Said(s)
          /\ <<>> \in Seq(TtsFrames)
      BY SaidType, ConcatEmptySeq DEF Interrupted
    <2>. QED  BY <2>1, SaidNone
  <1>2. ASSUME NEW u \in Seq(TtsFrames), NEW x \in TtsFrames, u \in P
        PROVE  Append(u, x) \in P
    <2>1. /\ Append(u, x) \in Seq(TtsFrames) /\ s \o u \in Seq(TtsFrames)
          /\ Len(Append(u, x)) = Len(u) + 1 /\ Append(u, x)[Len(u) + 1] = x
          /\ \A i \in 1..Len(u) : Append(u, x)[i] = u[i]
      BY AppendProperties, ConcatProperties
    <2>2. /\ Said(s \o Append(u, x)) = SaidStep(x, Said(s \o u))
          /\ Said(Append(u, x)) = SaidStep(x, Said(u))
      <3>. DEFINE w == s \o u
      <3>1. s \o Append(u, x) = Append(w, x)
        BY ConcatAppend
      <3>2. w \in Seq(TtsFrames)
        BY <2>1
      <3>. HIDE DEF w
      <3>3. Said(Append(w, x)) = SaidStep(x, Said(w))
        BY <3>2, SaidAppend
      <3>4. Said(Append(u, x)) = SaidStep(x, Said(u))
        BY SaidAppend
      <3>. QED  BY <3>1, <3>3, <3>4 DEF w
    <2>3. Interrupted(Append(u, x)) <=> Interrupted(u) \/ x.kind = "interrupt"
      <3>. DEFINE v == Append(u, x)
      <3>1. /\ Len(u) \in Nat /\ Len(v) = Len(u) + 1 /\ v[Len(u) + 1] = x
            /\ \A i \in 1..Len(u) : v[i] = u[i]
        BY <2>1
      <3>. HIDE DEF v
      <3>2. \A i \in 1..Len(v) : i \in 1..Len(u) \/ i = Len(u) + 1
        BY <3>1
      <3>3. \A i \in 1..Len(u) : i \in 1..Len(v)
        BY <3>1
      <3>4. Len(u) + 1 \in 1..Len(v)
        BY <3>1
      <3>5. Interrupted(v) <=> Interrupted(u) \/ x.kind = "interrupt"
        BY <3>1, <3>2, <3>3, <3>4 DEF Interrupted, IsInterrupt
      <3>. QED  BY <3>5 DEF v
    <2>4. Said(s \o u) = IF Interrupted(u) THEN Said(u) ELSE Said(s) \o Said(u)
      BY <1>2
    <2>5. Said(s) \in Seq(Sentence) /\ Said(u) \in Seq(Sentence)
      BY SaidType
    <2>6. CASE x.kind = "interrupt"
      BY <2>2, <2>3, <2>6 DEF SaidStep
    <2>7. CASE x.kind = "sentence"
      <3>1. x.sentence \in Sentence
        BY <2>7, FrameFields DEF TtsFrames
      <3>2. Said(s) \o Append(Said(u), x.sentence) = Append(Said(s) \o Said(u), x.sentence)
        BY <2>5, <3>1, ConcatAppend
      <3>. QED  BY <2>1, <2>2, <2>3, <2>4, <2>7, <3>2 DEF SaidStep
    <2>8. CASE x.kind \notin {"interrupt", "sentence"}
      BY <2>1, <2>2, <2>3, <2>4, <2>8 DEF SaidStep
    <2>9. Holds(Append(u, x))
      BY <2>6, <2>7, <2>8
    <2>. QED  BY <2>1, <2>9
  <1>. HIDE DEF P
  <1>3. t \in P
    BY <1>1, <1>2, SequencesGrow
  <1>. QED  BY <1>3 DEF P

LEMMA SaidOfOne ==
    ASSUME NEW x \in TtsFrames
    PROVE  /\ <<x>> \in Seq(TtsFrames) /\ Said(<<x>>) = SaidStep(x, <<>>)
           /\ Interrupted(<<x>>) <=> x.kind = "interrupt"
  <1>1. <<>> \in Seq(TtsFrames) /\ Append(<<>>, x) = <<x>> /\ <<x>> \in Seq(TtsFrames)
    OBVIOUS
  <1>2. Said(Append(<<>>, x)) = SaidStep(x, Said(<<>>))
    BY <1>1, SaidAppend
  <1>3. Interrupted(<<x>>) <=> x.kind = "interrupt"
    BY DEF Interrupted, IsInterrupt
  <1>. QED  BY <1>1, <1>2, <1>3, SaidNone

\* A frame is taken, an Interrupt is handled.
LEMMA SaidTail ==
    ASSUME NEW box \in Seq(TtsFrames), box /= <<>>, ~Interrupted(box)
    PROVE  Said(box) = SaidStep(Head(box), <<>>) \o Said(Tail(box))
  <1>. DEFINE x == Head(box)
              rest == Tail(box)
              one == <<x>>
  <1>1. x \in TtsFrames /\ rest \in Seq(TtsFrames) /\ box = one \o rest /\ Len(rest) = Len(box) - 1
        /\ \A i \in 1..Len(rest) : rest[i] = box[i + 1]
    BY HeadTailProperties, ConcatProperties
  <1>. HIDE DEF x, rest
  <1>2. one \in Seq(TtsFrames) /\ Said(one) = SaidStep(x, <<>>)
    BY <1>1, SaidOfOne
  <1>. HIDE DEF one
  <1>3. ~Interrupted(rest)
    <2>1. \A i \in 1..Len(rest) : i + 1 \in 1..Len(box)
      BY <1>1
    <2>. QED  BY <1>1, <2>1 DEF Interrupted
  <1>4. Said(box) = Said(one) \o Said(rest)
    BY <1>1, <1>2, <1>3, SaidConcat
  <1>. QED  BY <1>2, <1>4 DEF x, rest

LEMMA SaidAfter ==
    ASSUME NEW box \in Seq(TtsFrames), Interrupted(box)
    PROVE  Said(AfterInterrupt(box)) = Said(box)
  <1>. DEFINE n == First(box)
              p == SubSeq(box, 1, n)
              q == AfterInterrupt(box)
  <1>1. /\ n \in 1..Len(box) /\ box[n].kind = "interrupt" /\ q \in Seq(TtsFrames)
        /\ Len(q) = Len(box) - n
        /\ \A i \in 1..(Len(box) - n) : q[i] = box[n + i]
    BY NothingDurable, BehindInterrupt
  <1>. HIDE DEF n, q
  <1>2. /\ p \in Seq(TtsFrames) /\ Len(p) = n /\ \A i \in 1..n : p[i] = box[i]
    BY <1>1, FirstOf
  <1>. HIDE DEF p
  <1>3. box = p \o q
    <2>1. /\ p \o q \in Seq(TtsFrames) /\ Len(p \o q) = Len(p) + Len(q)
          /\ \A i \in 1..(Len(p) + Len(q)) : (p \o q)[i] = IF i <= Len(p) THEN p[i] ELSE q[i - Len(p)]
      BY <1>1, <1>2, ConcatProperties
    <2>. DEFINE r == p \o q
    <2>2. r \in Seq(TtsFrames) /\ Len(r) = Len(box) /\ Len(box) \in Nat
      BY <1>1, <1>2, <2>1
    <2>3. ASSUME NEW i \in 1..Len(box)
          PROVE  r[i] = box[i]
      <3>1. r[i] = IF i <= n THEN p[i] ELSE q[i - n]
        BY <1>1, <1>2, <2>1, <2>2
      <3>2. CASE i <= n
        <4>1. i \in 1..n
          BY <1>1, <3>2
        <4>. QED  BY <1>2, <3>1, <3>2, <4>1
      <3>3. CASE ~(i <= n)
        <4>1. i - n \in 1..(Len(box) - n) /\ n + (i - n) = i
          BY <1>1, <3>3
        <4>2. q[i - n] = box[i]
          BY <1>1, <4>1
        <4>. QED  BY <3>1, <3>3, <4>2
      <3>. QED  BY <3>2, <3>3
    <2>. HIDE DEF r
    <2>4. r = box
      BY <2>2, <2>3, SameElements
    <2>. QED  BY <2>4 DEF r
  <1>4. Said(p) = <<>>
    <2>1. p /= <<>> /\ Len(p) \in Nat
      BY <1>1, <1>2
    <2>2. PICK s \in Seq(TtsFrames), x \in TtsFrames : p = Append(s, x)
      BY <1>2, <2>1, SequenceEmptyOrAppend
    <2>3. x = p[Len(p)]
      BY <2>2
    <2>4. x.kind = "interrupt"
      BY <1>1, <1>2, <2>3
    <2>. QED  BY <2>2, <2>4, SaidAppend DEF SaidStep
  <1>5. Said(q) \in Seq(Sentence)
    BY <1>1, SaidType
  <1>6. Said(box) = IF Interrupted(q) THEN Said(q) ELSE Said(p) \o Said(q)
    BY <1>1, <1>2, <1>3, SaidConcat
  <1>7. <<>> \o Said(q) = Said(q)
    BY <1>5, ConcatEmptySeq
  <1>. QED  BY <1>4, <1>6, <1>7 DEF q

-----------------------------------------------------------------------------
(***************************************************************************)
(* The order in which a reply is spoken.  z is what is spoken, waits to be *)
(* spoken and waits to be sent, in this order; box is the inbox of the     *)
(* chunker.                                                                *)
(***************************************************************************)
TurnOf(f) == IF f.kind \in {"partial", "final"} THEN f.text.turn ELSE f.turn

Chained(z) ==
    \A i \in 1..Len(z) :
        IF i > 1 /\ z[i - 1].turn = z[i].turn THEN z[i].from = z[i - 1].to + 1
        ELSE z[i].from = 1 /\ \A j \in 1..(i - 1) : z[j].turn < z[i].turn

LastEnd(m, words) == m \in Ends(words) \cup {0} /\ \A e \in Ends(words) : e <= m

\* All that is complete in the first words of the reply to turn has been cut from it.
MidOf(z, emitted, nth, words) ==
    /\ LastEnd(emitted, words)
    /\ \A i \in 1..Len(z) : z[i].turn <= nth /\ (emitted = 0 => z[i].turn < nth)
    /\ emitted /= 0 => z /= <<>> /\ Last(z).turn = nth /\ Last(z).to = emitted

\* The next frame finds the offset where the text before it left it.
HeadOk(z, emitted, g) ==
    /\ g.kind = "partial" => MidOf(z, emitted, g.text.turn, Front(g.text.words))
    /\ g.kind = "final" => MidOf(z, emitted, g.text.turn, g.text.words)

\* A partial transcript comes behind the one a word shorter, or behind the announcement of
\* its generation; a final one behind the partial of the same words.
Follows(f, g) ==
    /\ g.kind = "partial" =>
         \/ f = Mark("started", g.text.turn) /\ Len(g.text.words) = 1
         \/ f = [kind |-> "partial", text |-> [turn |-> g.text.turn, words |-> Front(g.text.words)]]
    /\ g.kind = "final" => f = [kind |-> "partial", text |-> g.text]

Bounded(z, nth) == \A j \in 1..Len(z) : z[j].turn <= nth
NotYet(z, f) == /\ Bounded(z, TurnOf(f))
                /\ f.kind = "started" => \A j \in 1..Len(z) : z[j].turn < TurnOf(f)
Before(f, g) == TurnOf(f) <= TurnOf(g) /\ (g.kind = "started" => TurnOf(f) < TurnOf(g))

Speech(z, box, emitted, nth) ==
    /\ Chained(z) /\ Bounded(z, nth)
    /\ \A i \in 1..Len(box) : IsData(box[i]) => TurnOf(box[i]) <= nth /\ NotYet(z, box[i])
    /\ \A i, j \in 1..Len(box) : i < j /\ IsData(box[i]) /\ IsData(box[j]) => Before(box[i], box[j])
    /\ \A i \in 1..Len(box) : i > 1 => Follows(box[i - 1], box[i])
    /\ box /= <<>> => HeadOk(z, emitted, box[1])

\* What the stage reads goes on where the inbox, or the chunker, stands.
Latest(nth, reply) == IF reply = <<>> THEN Mark("started", nth)
                       ELSE [kind |-> "partial", text |-> [turn |-> nth, words |-> reply]]
Reading(z, box, emitted, nth, reply) ==
    IF box = <<>> THEN MidOf(z, emitted, nth, reply) ELSE Last(box) = Latest(nth, reply)

\* Turns are announced in order.
Users(box, nth, turns) ==
    /\ nth <= turns
    /\ \A i \in 1..Len(box) : IsData(box[i]) => nth < box[i].turn /\ box[i].turn <= turns
    /\ \A i, j \in 1..Len(box) : i < j /\ IsData(box[i]) /\ IsData(box[j]) => box[i].turn < box[j].turn

LEMMA TurnOfFrame ==
    ASSUME NEW f \in ChunkerFrames
    PROVE  IsData(f) => TurnOf(f) \in Turns
  <1>1. /\ f.kind \in {"interrupt", "user", "started", "finished", "partial", "final", "sentence"}
        /\ f.kind \in {"user", "started", "finished"} => f.turn \in Turns
        /\ f.kind \in {"partial", "final"} => f.text \in Text
        /\ f.kind \in {"interrupt", "started", "finished", "partial", "final"}
    BY FrameFields DEF ChunkerFrames
  <1>2. \A text \in Text : text.turn \in Turns
    BY DEF Text
  <1>. QED  BY <1>1, <1>2 DEF TurnOf, IsData

\* A frame is sent to the chunker.
LEMMA SpeechSent ==
    ASSUME NEW z \in Seq(Sentence), NEW box \in Seq(ChunkerFrames), NEW emitted \in Nat,
           NEW nth \in Nat, Speech(z, box, emitted, nth),
           NEW later \in Nat, nth <= later, NEW g \in ChunkerFrames,
           IsData(g) => TurnOf(g) = later, g.kind = "started" => nth < later,
           box /= <<>> => Follows(Last(box), g), box = <<>> => HeadOk(z, emitted, g)
    PROVE  Speech(z, Append(box, g), emitted, later)
  <1>. DEFINE more == Append(box, g)
              n == Len(box)
  <1>1. /\ more \in Seq(ChunkerFrames) /\ Len(more) = n + 1 /\ more[n + 1] = g
        /\ \A i \in 1..n : more[i] = box[i]
    BY AppendProperties
  <1>. HIDE DEF more
  <1>2. n \in Nat /\ Turns \subseteq Nat /\ \A i \in 1..Len(more) : i \in 1..n \/ i = n + 1
    BY <1>1 DEF Turns
  <1>3. /\ Chained(z) /\ Bounded(z, nth)
        /\ \A i \in 1..n : IsData(box[i]) => TurnOf(box[i]) <= nth /\ NotYet(z, box[i])
        /\ \A i, j \in 1..n : i < j /\ IsData(box[i]) /\ IsData(box[j]) => Before(box[i], box[j])
        /\ \A i \in 1..n : i > 1 => Follows(box[i - 1], box[i])
        /\ box /= <<>> => HeadOk(z, emitted, box[1])
    BY DEF Speech
  <1>4. \A j \in 1..Len(z) : z[j].turn \in Nat
    <2>1. \A s \in Sentence : s.turn \in Nat
      BY <1>2 DEF Sentence
    <2>2. \A j \in 1..Len(z) : z[j] \in Sentence
      OBVIOUS
    <2>. QED  BY <2>1, <2>2
  <1>5. \A i \in 1..n : IsData(box[i]) => TurnOf(box[i]) \in Nat
    <2>1. \A f \in ChunkerFrames : IsData(f) => TurnOf(f) \in Nat
      BY <1>2, TurnOfFrame
    <2>2. \A i \in 1..n : box[i] \in ChunkerFrames
      OBVIOUS
    <2>. QED  BY <2>1, <2>2
  <1>6. Bounded(z, later)
    BY <1>3, <1>4 DEF Bounded
  <1>7. IsData(g) => TurnOf(g) <= later /\ NotYet(z, g)
    <2>1. g.kind = "started" => \A j \in 1..Len(z) : z[j].turn < later
      BY <1>3, <1>4 DEF Bounded
    <2>. QED  BY <1>6, <2>1 DEF NotYet
  <1>8. \A i \in 1..Len(more) : IsData(more[i]) => TurnOf(more[i]) <= later /\ NotYet(z, more[i])
    <2>1. \A i \in 1..n : IsData(box[i]) => TurnOf(box[i]) <= later
      BY <1>3, <1>5
    <2>. QED  BY <1>1, <1>2, <1>3, <1>7, <2>1
  <1>9. ASSUME NEW i \in 1..Len(more), NEW j \in 1..Len(more), i < j, IsData(more[i]), IsData(more[j])
        PROVE  Before(more[i], more[j])
    <2>1. i \in 1..n
      BY <1>1, <1>2, <1>9
    <2>2. CASE j \in 1..n
      BY <1>1, <1>3, <1>9, <2>1, <2>2
    <2>3. CASE j = n + 1
      <3>1. TurnOf(box[i]) <= nth /\ TurnOf(box[i]) \in Nat /\ more[i] = box[i] /\ more[j] = g
        BY <1>1, <1>3, <1>5, <1>9, <2>1, <2>3
      <3>2. TurnOf(g) = later
        BY <1>9, <3>1
      <3>. QED  BY <3>1, <3>2 DEF Before
    <2>. QED  BY <1>2, <2>2, <2>3
  <1>10. ASSUME NEW i \in 1..Len(more), i > 1
         PROVE  Follows(more[i - 1], more[i])
    <2>1. i - 1 \in 1..n
      BY <1>1, <1>2, <1>10
    <2>2. CASE i \in 1..n
      BY <1>1, <1>3, <1>10, <2>1, <2>2
    <2>3. CASE i = n + 1
      <3>1. box /= <<>> /\ Last(box) = box[n] /\ i - 1 = n
        BY <1>2, <1>10, <2>1, <2>3, EmptySeq DEF Last
      <3>2. more[i - 1] = Last(box) /\ more[i] = g
        BY <1>1, <2>1, <2>3, <3>1
      <3>. QED  BY <3>1, <3>2
    <2>. QED  BY <1>2, <2>2, <2>3
  <1>11. HeadOk(z, emitted, more[1])
    <2>1. CASE box = <<>>
      <3>1. more[1] = g
        BY <1>1, <2>1, EmptySeq
      <3>. QED  BY <2>1, <3>1
    <2>2. CASE box /= <<>>
      <3>1. more[1] = box[1]
        BY <1>1, <1>2, <2>2, EmptySeq
      <3>. QED  BY <1>3, <2>2, <3>1
    <2>. QED  BY <2>1, <2>2
  <1>. QED  BY <1>3, <1>6, <1>8, <1>9, <1>10, <1>11 DEF Speech, more

\* The chunker goes on to the frames behind the first n ones; what waits to be spoken is now y.
LEMMA SpeechRest ==
    ASSUME NEW z \in Seq(Sentence), NEW box \in Seq(ChunkerFrames), NEW emitted \in Nat,
           NEW nth \in Nat, Speech(z, box, emitted, nth),
           NEW n \in 1..Len(box), NEW rest \in Seq(ChunkerFrames), Len(rest) = Len(box) - n,
           \A i \in 1..(Len(box) - n) : rest[i] = box[n + i],
           NEW y \in Seq(Sentence), NEW left \in Nat, Chained(y), Bounded(y, nth),
           \A i \in 1..Len(box) : i > n /\ IsData(box[i]) => NotYet(y, box[i]),
           rest /= <<>> => (Follows(box[n], rest[1]) => HeadOk(y, left, rest[1]))
    PROVE  Speech(y, rest, left, nth)
  <1>1. /\ \A i \in 1..Len(box) : IsData(box[i]) => TurnOf(box[i]) <= nth
        /\ \A i, j \in 1..Len(box) : i < j /\ IsData(box[i]) /\ IsData(box[j]) => Before(box[i], box[j])
        /\ \A i \in 1..Len(box) : i > 1 => Follows(box[i - 1], box[i])
    BY DEF Speech
  <1>2. Len(box) \in Nat /\ Len(rest) \in Nat /\ n \in Nat
    OBVIOUS
  <1>3. \A i \in 1..Len(rest) : n + i \in 1..Len(box) /\ rest[i] = box[n + i] /\ n + i > n
    BY <1>2
  <1>4. \A i \in 1..Len(rest) : IsData(rest[i]) => TurnOf(rest[i]) <= nth /\ NotYet(y, rest[i])
    BY <1>1, <1>3
  <1>5. ASSUME NEW i \in 1..Len(rest), NEW j \in 1..Len(rest), i < j, IsData(rest[i]), IsData(rest[j])
        PROVE  Before(rest[i], rest[j])
    <2>1. n + i < n + j
      BY <1>2, <1>5
    <2>. QED  BY <1>1, <1>3, <1>5, <2>1
  <1>6. ASSUME NEW i \in 1..Len(rest), i > 1
        PROVE  Follows(rest[i - 1], rest[i])
    <2>1. i - 1 \in 1..Len(rest) /\ n + (i - 1) = (n + i) - 1 /\ n + i > 1
      BY <1>2, <1>6
    <2>2. Follows(box[(n + i) - 1], box[n + i])
      BY <1>1, <1>3, <2>1
    <2>. QED  BY <1>3, <2>1, <2>2
  <1>7. rest /= <<>> => HeadOk(y, left, rest[1])
    <2>. SUFFICES ASSUME rest /= <<>> PROVE Follows(box[n], rest[1])
      OBVIOUS
    <2>1. 1 \in 1..Len(rest)
      BY EmptySeq
    <2>2. n + 1 > 1 /\ (n + 1) - 1 = n /\ n + 1 \in 1..Len(box) /\ rest[1] = box[n + 1]
      BY <1>2, <1>3, <2>1
    <2>3. Follows(box[(n + 1) - 1], box[n + 1])
      BY <1>1, <2>2
    <2>. QED  BY <2>2, <2>3
  <1>. QED  BY <1>4, <1>5, <1>6, <1>7 DEF Speech

\* The last sentence of z ends where the chunker stands in the reply to turn.
Stands(z, emitted, nth) ==
    /\ Chained(z) /\ Bounded(z, nth)
    /\ emitted = 0 => \A i \in 1..Len(z) : z[i].turn < nth
    /\ emitted /= 0 => z /= <<>> /\ Last(z).turn = nth /\ Last(z).to = emitted

EndsAs(y, s) == y /= <<>> /\ Last(y) = Last(s)

\* What is cut from the next text follows what was cut before.
LEMMA CutFollows ==
    ASSUME NEW z \in Seq(Sentence), NEW text \in Text, NEW emitted \in Nat, NEW ends,
           NEW n, NEW s, Cut(s, text, emitted, ends, n), Stands(z, emitted, text.turn)
    PROVE  /\ z \o s \in Seq(Sentence) /\ Chained(z \o s) /\ Bounded(z \o s, text.turn)
           /\ \A f \in ChunkerFrames :
                NotYet(z, f) /\ (s /= <<>> => Before([kind |-> "partial", text |-> text], f)) => NotYet(z \o s, f)
           /\ s = <<>> => z \o s = z
           /\ s /= <<>> => EndsAs(z \o s, s)
  <1>. DEFINE y == z \o s
              k == Len(z)
              t == text.turn
  <1>. USE DEF Stands
  <1>1. /\ s \in Seq(Sentence) /\ Len(s) \in Nat /\ k \in Nat
        /\ \A i \in 1..Len(s) : s[i].turn = t /\ s[i].from = (IF i = 1 THEN emitted ELSE s[i - 1].to) + 1
    BY DEF Cut
  <1>2. /\ y \in Seq(Sentence) /\ Len(y) = k + Len(s)
        /\ \A i \in 1..(k + Len(s)) : y[i] = IF i <= k THEN z[i] ELSE s[i - k]
    BY <1>1, ConcatProperties
  <1>. HIDE DEF y
  <1>3. \A i \in 1..Len(y) : \/ i \in 1..k /\ y[i] = z[i]
                             \/ i - k \in 1..Len(s) /\ y[i] = s[i - k] /\ ~(i <= k)
    BY <1>1, <1>2
  <1>. DEFINE T == text.turn
  <1>4. \A i \in 1..Len(y) : y[i].turn <= t
    <2>1. t \in Nat /\ t <= t
      BY DEF Text, Turns
    <2>2. \A i \in 1..k : z[i].turn <= t
      BY DEF Bounded
    <2>3. \A i \in 1..Len(s) : s[i].turn = t
      BY <1>1
    <2>. HIDE DEF t, k
    <2>. QED  BY <1>3, <2>1, <2>2, <2>3
  <1>5. Chained(y)
    <2>1. ASSUME NEW i \in 1..Len(y)
          PROVE  IF i > 1 /\ y[i - 1].turn = y[i].turn THEN y[i].from = y[i - 1].to + 1
                 ELSE y[i].from = 1 /\ \A j \in 1..(i - 1) : y[j].turn < y[i].turn
      <3>1. CASE i \in 1..k
        <4>1. \A j \in 1..i : j \in 1..k /\ y[j] = z[j]
          BY <1>1, <1>2, <3>1
        <4>2. IF i > 1 /\ z[i - 1].turn = z[i].turn THEN z[i].from = z[i - 1].to + 1
              ELSE z[i].from = 1 /\ \A j \in 1..(i - 1) : z[j].turn < z[i].turn
          BY <3>1 DEF Chained
        <4>3. y[i] = z[i] /\ (i > 1 => y[i - 1] = z[i - 1]) /\ \A j \in 1..(i - 1) : y[j] = z[j]
          BY <1>1, <3>1, <4>1
        <4>. QED  BY <4>2, <4>3
      <3>2. CASE i = k + 1 /\ i - k \in 1..Len(s)
        <4>1. /\ y[i] = s[1] /\ s[1].turn = t /\ s[1].from = emitted + 1
              /\ \A j \in 1..(i - 1) : j \in 1..k /\ y[j] = z[j]
          <5>1. i - k = 1 /\ 1 \in 1..Len(s) /\ ~(i <= k) /\ i - 1 = k
            BY <1>1, <3>2
          <5>2. y[i] = s[1]
            BY <1>2, <3>2, <5>1
          <5>3. \A j \in 1..k : y[j] = z[j]
            BY <1>1, <1>2
          <5>. QED  BY <1>1, <5>1, <5>2, <5>3
        <4>2. CASE emitted = 0
          <5>1. \A j \in 1..(i - 1) : y[j].turn < t
            BY <4>1, <4>2
          <5>2. t \in Nat
            BY DEF Text, Turns
          <5>3. i > 1 => y[i - 1].turn /= t
            <6>. SUFFICES ASSUME i > 1 PROVE y[i - 1].turn /= t
              OBVIOUS
            <6>1. i - 1 \in 1..(i - 1)
              BY <1>1, <3>2
            <6>2. y[i - 1].turn < t
              BY <5>1, <6>1
            <6>. QED  BY <5>2, <6>2
          <5>. QED  BY <4>1, <4>2, <5>1, <5>3
        <4>3. CASE emitted /= 0
          <5>1. k \in 1..k /\ Last(z) = z[k] /\ i - 1 = k /\ i > 1
            BY <1>1, <3>2, <4>3, EmptySeq DEF Last
          <5>2. y[i - 1].turn = t /\ y[i - 1].to = emitted
            BY <4>1, <4>3, <5>1
          <5>. QED  BY <4>1, <5>1, <5>2
        <4>. QED  BY <4>2, <4>3
      <3>3. CASE i > k + 1 /\ i - k \in 1..Len(s)
        <4>1. i - 1 \in 1..Len(y) /\ (i - 1) - k = (i - k) - 1 /\ (i - k) - 1 \in 1..Len(s) /\ i - k /= 1
              /\ ~(i <= k) /\ ~(i - 1 <= k) /\ i > 1
          BY <1>1, <1>2, <3>3
        <4>2. y[i] = s[i - k] /\ y[i - 1] = s[(i - k) - 1]
          BY <1>2, <4>1
        <4>3. /\ s[i - k].turn = t /\ s[(i - k) - 1].turn = t
              /\ s[i - k].from = s[(i - k) - 1].to + 1
          BY <1>1, <3>3, <4>1
        <4>. QED  BY <4>1, <4>2, <4>3
      <3>. QED  BY <1>1, <1>3, <3>1, <3>2, <3>3
    <2>. QED  BY <2>1 DEF Chained
  <1>6. ASSUME NEW f \in ChunkerFrames, NotYet(z, f),
               s /= <<>> => Before([kind |-> "partial", text |-> text], f)
        PROVE  NotYet(y, f)
    <2>1. s /= <<>> => t <= TurnOf(f) /\ (f.kind = "started" => t < TurnOf(f))
      BY <1>6 DEF Before, TurnOf
    <2>2. \A j \in 1..k : z[j].turn <= TurnOf(f) /\ (f.kind = "started" => z[j].turn < TurnOf(f))
      BY <1>6 DEF NotYet, Bounded
    <2>3. ASSUME NEW j \in 1..Len(y)
          PROVE  y[j].turn <= TurnOf(f) /\ (f.kind = "started" => y[j].turn < TurnOf(f))
      <3>1. CASE j \in 1..k /\ y[j] = z[j]
        BY <2>2, <3>1
      <3>2. CASE j - k \in 1..Len(s) /\ y[j] = s[j - k]
        <4>1. s /= <<>>
          BY <3>2
        <4>2. y[j].turn = t
          BY <1>1, <3>2
        <4>. QED  BY <2>1, <4>1, <4>2
      <3>. QED  BY <1>3, <3>1, <3>2
    <2>. QED  BY <2>3 DEF NotYet, Bounded
  <1>7. (s = <<>> => y = z) /\ (s /= <<>> => y /= <<>> /\ Last(y) = Last(s))
    <2>1. CASE s = <<>>
      BY <2>1, ConcatEmptySeq DEF y
    <2>2. CASE s /= <<>>
      <3>1. Len(s) \in 1..Len(s) /\ Len(y) \in 1..Len(y) /\ Len(y) - k = Len(s) /\ ~(Len(y) <= k)
        BY <1>1, <1>2, <2>2, EmptySeq
      <3>2. y[Len(y)] = s[Len(s)]
        BY <1>2, <3>1
      <3>3. y /= <<>>
        BY <3>1
      <3>. QED  BY <2>2, <3>2, <3>3 DEF Last
    <2>. QED  BY <2>1, <2>2
  <1>. QED  BY <1>2, <1>4, <1>5, <1>6, <1>7 DEF y, Bounded, EndsAs

LEMMA EndsOfFront ==
    ASSUME NEW words \in Seq(BOOLEAN), Len(words) >= 1
    PROVE  Ends(Front(words)) \subseteq Ends(words)
  <1>. DEFINE w == Front(words)
  <1>1. /\ w \in Seq(BOOLEAN) /\ Len(w) = Len(words) - 1
        /\ \A i \in 1..(Len(words) - 1) : w[i] = words[i]
    <2>1. Len(words) - 1 \in 0..Len(words)
      OBVIOUS
    <2>. QED  BY <2>1, FirstOf DEF Front
  <1>. HIDE DEF w
  <1>2. Ends(w) \subseteq Ends(words)
    BY <1>1 DEF Ends
  <1>. QED  BY <1>2 DEF w

\* Reading a partial transcript leaves the chunker where its text ends.
LEMMA CutStands ==
    ASSUME NEW z \in Seq(Sentence), NEW text \in Text, NEW emitted \in Nat,
           Len(text.words) \in Words,
           NEW s, Cut(s, text, emitted, AllEnds(text, FALSE), Len(text.words)),
           Chained(z), MidOf(z, emitted, text.turn, Front(text.words))
    PROVE  MidOf(z \o s, IF s = <<>> THEN emitted ELSE Last(s).to, text.turn, text.words)
  <1>. DEFINE stand == IF s = <<>> THEN emitted ELSE Last(s).to
              y == z \o s
              t == text.turn
              ends == Ends(text.words)
  <1>1. /\ LastEnd(emitted, Front(text.words)) /\ Bounded(z, t)
        /\ emitted = 0 => \A i \in 1..Len(z) : z[i].turn < t
        /\ emitted /= 0 => z /= <<>> /\ Last(z).turn = t /\ Last(z).to = emitted
    BY DEF MidOf, Bounded
  <1>2. /\ y \in Seq(Sentence) /\ Bounded(y, t)
        /\ s = <<>> => y = z
        /\ s /= <<>> => y /= <<>> /\ Last(y) = Last(s)
    <2>. DEFINE all == AllEnds(text, FALSE)
                size == Len(text.words)
    <2>1. /\ z \in Seq(Sentence) /\ text \in Text /\ emitted \in Nat
          /\ Cut(s, text, emitted, all, size)
          /\ Stands(z, emitted, text.turn)
      BY <1>1 DEF Stands
    <2>. HIDE DEF all, size
    <2>2. z \o s \in Seq(Sentence) /\ Bounded(z \o s, text.turn)
      BY ONLY <2>1, CutFollows
    <2>3. s = <<>> => z \o s = z
      BY ONLY <2>1, CutFollows
    <2>4. s /= <<>> => EndsAs(z \o s, s)
      BY ONLY <2>1, CutFollows
    <2>. QED  BY <2>2, <2>3, <2>4 DEF EndsAs
  <1>. HIDE DEF y
  <1>3. /\ text.words \in Seq(BOOLEAN) /\ Len(text.words) \in Nat /\ Len(text.words) >= 1
        /\ t \in Nat
    <2>1. text.words \in Seq(BOOLEAN) /\ t \in Turns
      BY DEF Text
    <2>2. Len(text.words) \in Nat /\ Len(text.words) >= 1
      BY <2>1 DEF Words
    <2>. QED  BY <2>1, <2>2 DEF Turns
  <1>4. AllEnds(text, FALSE) = ends
    BY DEF AllEnds
  <1>5. /\ s \in Seq(Sentence)
        /\ \A i \in 1..Len(s) : s[i].turn = t /\ s[i].to \in (emitted + 1)..Len(text.words) /\ s[i].to \in ends
        /\ \A e \in ends : e <= Len(text.words) => e <= stand
    BY <1>4 DEF Cut
  <1>6. s /= <<>> => /\ Last(s).turn = t /\ Last(s).to \in ends /\ Last(s).to /= 0
    <2>. SUFFICES ASSUME s /= <<>> PROVE Last(s).turn = t /\ Last(s).to \in ends /\ Last(s).to /= 0
      OBVIOUS
    <2>1. Len(s) \in 1..Len(s)
      BY <1>5, EmptySeq
    <2>2. /\ s[Len(s)].turn = t /\ s[Len(s)].to \in (emitted + 1)..Len(text.words)
          /\ s[Len(s)].to \in ends
      BY <1>5, <2>1
    <2>. QED  BY <1>3, <2>2 DEF Last
  <1>7. LastEnd(stand, text.words)
    <2>1. \A e \in ends : e <= stand
      <3>1. \A e \in ends : e <= Len(text.words)
        BY <1>3 DEF Ends
      <3>. QED  BY <1>5, <3>1
    <2>2. stand \in ends \cup {0}
      <3>1. emitted \in ends \cup {0}
        BY <1>1, <1>3, EndsOfFront DEF LastEnd
      <3>. QED  BY <1>6, <3>1
    <2>. QED  BY <2>1, <2>2 DEF LastEnd
  <1>8. CASE s = <<>>
    BY <1>1, <1>2, <1>7, <1>8 DEF MidOf, y, Bounded
  <1>9. CASE s /= <<>>
    <2>1. stand = Last(s).to /\ stand /= 0
      BY <1>6, <1>9
    <2>2. \A i \in 1..Len(y) : y[i].turn <= t
      BY <1>2 DEF Bounded
    <2>. HIDE DEF stand
    <2>3. MidOf(y, stand, t, text.words)
      BY <1>2, <1>6, <1>7, <1>9, <2>1, <2>2 DEF MidOf
    <2>. QED  BY <2>3 DEF y, stand
  <1>. QED  BY <1>8, <1>9

\* What is left of what waits for a stage, behind its first n frames.
LEMMA UsersLeft ==
    ASSUME NEW box \in Seq(LmFrames), NEW nth, NEW turns, Users(box, nth, turns),
           NEW n \in 0..Len(box), NEW rest, Len(rest) = Len(box) - n,
           \A i \in 1..(Len(box) - n) : rest[i] = box[n + i]
    PROVE  Users(rest, nth, turns)
  <1>1. Len(box) \in Nat /\ n \in Nat
    OBVIOUS
  <1>2. \A i \in 1..Len(rest) : n + i \in 1..Len(box) /\ rest[i] = box[n + i]
    BY <1>1
  <1>3. \A i \in 1..Len(rest) : IsData(rest[i]) => nth < rest[i].turn /\ rest[i].turn <= turns
    BY <1>2 DEF Users
  <1>4. ASSUME NEW i \in 1..Len(rest), NEW j \in 1..Len(rest), i < j, IsData(rest[i]), IsData(rest[j])
        PROVE  rest[i].turn < rest[j].turn
    <2>1. n + i < n + j
      BY <1>1, <1>4
    <2>. QED  BY <1>2, <1>4, <2>1 DEF Users
  <1>. QED  BY <1>3, <1>4 DEF Users

LEMMA UserTurn ==
    ASSUME NEW f \in LmFrames, IsData(f)
    PROVE  f.turn \in Turns /\ f.turn \in Nat
  <1>1. f \in Frame /\ f.kind = "user"
    BY DEF LmFrames, IsData
  <1>2. f.turn \in Turns
    BY <1>1, FrameFields
  <1>. QED  BY <1>2 DEF Turns

\* A turn is announced, or a barge-in.
LEMMA UsersSent ==
    ASSUME NEW box \in Seq(LmFrames), NEW nth \in Nat, NEW turns \in Nat, Users(box, nth, turns),
           NEW f \in LmFrames, NEW more \in Nat, turns <= more,
           IsData(f) => f.turn = more /\ turns < more
    PROVE  Users(Append(box, f), nth, more)
  <1>. DEFINE whole == Append(box, f)
              n == Len(box)
  <1>1. /\ n \in Nat /\ Len(whole) = n + 1 /\ whole[n + 1] = f
        /\ \A i \in 1..n : whole[i] = box[i]
    BY AppendProperties
  <1>. HIDE DEF whole
  <1>2. \A i \in 1..Len(whole) : i \in 1..n \/ i = n + 1
    BY <1>1
  <1>3. \A i \in 1..n : IsData(box[i]) => box[i].turn \in Nat /\ nth < box[i].turn /\ box[i].turn <= turns
    <2>1. \A i \in 1..n : box[i] \in LmFrames
      OBVIOUS
    <2>. QED  BY <2>1, UserTurn DEF Users
  <1>4. nth <= turns
    BY DEF Users
  <1>5. ASSUME NEW i \in 1..Len(whole), IsData(whole[i])
        PROVE  nth < whole[i].turn /\ whole[i].turn <= more
    <2>1. CASE i \in 1..n
      <3>. DEFINE t == box[i].turn
      <3>1. t \in Nat /\ nth < t /\ t <= turns /\ whole[i] = box[i]
        BY <1>1, <1>3, <1>5, <2>1
      <3>. HIDE DEF t
      <3>2. nth < t /\ t <= more
        BY <3>1
      <3>. QED  BY <3>1, <3>2 DEF t
    <2>2. CASE i = n + 1
      BY <1>1, <1>4, <1>5, <2>2
    <2>. QED  BY <1>2, <2>1, <2>2
  <1>6. ASSUME NEW i \in 1..Len(whole), NEW j \in 1..Len(whole), i < j, IsData(whole[i]), IsData(whole[j])
        PROVE  whole[i].turn < whole[j].turn
    <2>1. i \in 1..n
      BY <1>1, <1>2, <1>6
    <2>2. CASE j \in 1..n
      <3>1. whole[i] = box[i] /\ whole[j] = box[j]
        BY <1>1, <2>1, <2>2
      <3>. QED  BY <1>6, <2>1, <2>2, <3>1 DEF Users
    <2>3. CASE j = n + 1
      <3>. DEFINE t == box[i].turn
      <3>1. /\ t \in Nat /\ t <= turns /\ whole[i] = box[i] /\ f.turn = more /\ turns < more
            /\ whole[j] = f
        BY <1>1, <1>3, <1>6, <2>1, <2>3
      <3>. HIDE DEF t
      <3>2. t < more
        BY <3>1
      <3>. QED  BY <3>1, <3>2 DEF t
    <2>. QED  BY <1>2, <2>2, <2>3
  <1>7. nth <= more
    BY <1>4
  <1>. QED  BY <1>5, <1>6, <1>7 DEF Users, whole

\* The next turn is taken.
LEMMA UsersTaken ==
    ASSUME NEW box \in Seq(LmFrames), box /= <<>>, NEW nth \in Nat, NEW turns \in Nat,
           Users(box, nth, turns), IsData(box[1])
    PROVE  /\ nth < box[1].turn /\ box[1].turn \in Nat
           /\ Users(Tail(box), box[1].turn, turns)
  <1>. DEFINE rest == Tail(box)
  <1>1. /\ Len(box) \in Nat \ {0} /\ Len(rest) = Len(box) - 1 /\ rest \in Seq(LmFrames)
        /\ \A i \in 1..Len(rest) : rest[i] = box[i + 1]
    BY HeadTailProperties, EmptySeq
  <1>. HIDE DEF rest
  <1>2. 1 \in 1..Len(box) /\ box[1] \in LmFrames
    BY <1>1
  <1>3. nth < box[1].turn /\ box[1].turn <= turns /\ box[1].turn \in Nat
    BY <1>2, UserTurn DEF Users
  <1>4. \A i \in 1..Len(rest) : i + 1 \in 1..Len(box) /\ 1 < i + 1 /\ rest[i] = box[i + 1]
    BY <1>1
  <1>5. \A i \in 1..Len(rest) : IsData(rest[i]) => box[1].turn < rest[i].turn /\ rest[i].turn <= turns
    BY <1>2, <1>4 DEF Users
  <1>6. ASSUME NEW i \in 1..Len(rest), NEW j \in 1..Len(rest), i < j, IsData(rest[i]), IsData(rest[j])
        PROVE  rest[i].turn < rest[j].turn
    <2>1. i + 1 < j + 1
      BY <1>1, <1>6
    <2>. QED  BY <1>4, <1>6, <2>1 DEF Users
  <1>7. Users(rest, box[1].turn, turns)
    BY <1>3, <1>5, <1>6 DEF Users
  <1>. QED  BY <1>3, <1>7 DEF rest

\* The first part of what is spoken.
LEMMA SpeechFront ==
    ASSUME NEW a \in Seq(Sentence), NEW b \in Seq(Sentence)
    PROVE  /\ Chained(a \o b) => Chained(a)
           /\ \A nth : Bounded(a \o b, nth) => Bounded(a, nth)
           /\ \A f : NotYet(a \o b, f) => NotYet(a, f)
  <1>. DEFINE z == a \o b
              n == Len(a)
  <1>1. /\ n \in Nat /\ Len(b) \in Nat /\ Len(z) = n + Len(b)
        /\ \A i \in 1..(n + Len(b)) : z[i] = IF i <= n THEN a[i] ELSE b[i - n]
    BY ConcatProperties
  <1>. HIDE DEF z
  <1>2. \A i \in 1..n : i \in 1..Len(z) /\ z[i] = a[i]
    BY <1>1
  <1>3. ASSUME Chained(z) PROVE Chained(a)
    <2>1. ASSUME NEW i \in 1..n
          PROVE  IF i > 1 /\ a[i - 1].turn = a[i].turn THEN a[i].from = a[i - 1].to + 1
                 ELSE a[i].from = 1 /\ \A j \in 1..(i - 1) : a[j].turn < a[i].turn
      <3>1. IF i > 1 /\ z[i - 1].turn = z[i].turn THEN z[i].from = z[i - 1].to + 1
            ELSE z[i].from = 1 /\ \A j \in 1..(i - 1) : z[j].turn < z[i].turn
        BY <1>2, <1>3 DEF Chained
      <3>2. z[i] = a[i] /\ (i > 1 => z[i - 1] = a[i - 1]) /\ \A j \in 1..(i - 1) : z[j] = a[j]
        BY <1>1, <1>2
      <3>. QED  BY <3>1, <3>2
    <2>. QED  BY <2>1 DEF Chained
  <1>4. \A nth : Bounded(z, nth) => Bounded(a, nth)
    BY <1>2 DEF Bounded
  <1>5. \A f : NotYet(z, f) => NotYet(a, f)
    BY <1>2, <1>4 DEF NotYet
  <1>. QED  BY <1>3, <1>4, <1>5 DEF z

LEMMA ReadingRest ==
    ASSUME NEW z, NEW box \in Seq(ChunkerFrames), NEW emitted, NEW nth, NEW reply,
           Reading(z, box, emitted, nth, reply),
           NEW n \in 1..Len(box), NEW rest \in Seq(ChunkerFrames), Len(rest) = Len(box) - n,
           \A i \in 1..(Len(box) - n) : rest[i] = box[n + i],
           NEW y, NEW left, box[n] = Latest(nth, reply) => MidOf(y, left, nth, reply)
    PROVE  Reading(y, rest, left, nth, reply)
  <1>1. Len(box) \in Nat /\ n \in Nat /\ Len(rest) \in Nat /\ box /= <<>>
    OBVIOUS
  <1>2. Last(box) = Latest(nth, reply)
    BY <1>1 DEF Reading
  <1>3. CASE rest = <<>>
    <2>1. n = Len(box)
      BY <1>1, <1>3, EmptySeq
    <2>. QED  BY <1>2, <1>3, <2>1 DEF Reading, Last
  <1>4. CASE rest /= <<>>
    <2>1. Len(rest) \in 1..(Len(box) - n) /\ n + Len(rest) = Len(box)
      BY <1>1, <1>4, EmptySeq
    <2>2. Last(rest) = Last(box)
      BY <2>1 DEF Last
    <2>. QED  BY <1>2, <1>4, <2>2 DEF Reading
  <1>. QED  BY <1>3, <1>4

Voice == trace.spoken \o (Said(tts.box) \o chunker.todo)

SpeechInv ==
    /\ Speech(Voice, chunker.box, chunker.emitted, Turn)
    /\ lm.phase = "reading" => Reading(Voice, chunker.box, chunker.emitted, Turn, lm.reply)
    /\ Users(lm.box, Turn, trace.turns)

LEMMA VoiceIs ==
    ASSUME PathOk
    PROVE  /\ Said(tts.box) \in Seq(Sentence) /\ Said(tts.box) \o chunker.todo \in Seq(Sentence)
           /\ Voice \in Seq(Sentence) /\ Turn \in Nat /\ trace.turns \in Nat
           /\ chunker.emitted \in Nat
  <1>1. /\ trace.spoken \in Seq(Sentence) /\ Said(tts.box) \in Seq(Sentence)
        /\ chunker.todo \in Seq(Sentence)
    BY PathFields, SaidType
  <1>2. Said(tts.box) \o chunker.todo \in Seq(Sentence)
    BY <1>1, ConcatProperties
  <1>3. Voice \in Seq(Sentence)
    <2>. DEFINE b == Said(tts.box) \o chunker.todo
    <2>1. trace.spoken \in Seq(Sentence) /\ b \in Seq(Sentence)
      BY <1>1, <1>2
    <2>. HIDE DEF b
    <2>2. trace.spoken \o b \in Seq(Sentence)
      BY <2>1, ConcatProperties
    <2>. QED  BY <2>2 DEF Voice, b
  <1>4. Turn \in Nat
    <2>1. Last(lm.convo) \in Token
      BY PathFields, TurnIs
    <2>2. \A word \in Token : word[1] \in Nat
      BY LlamaAssumption DEF Token
    <2>. QED  BY <2>1, <2>2 DEF Turn
  <1>. QED  BY <1>1, <1>2, <1>3, <1>4, PathFields, LlamaAssumption

\* What the stage of the model sends.
LEMMA LmSends ==
    ASSUME PathOk, SpeechInv, NEW g \in ChunkerFrames, ToChunker(g), UNCHANGED tts,
           trace'.spoken = trace.spoken, Turn <= Turn', Turn' \in Nat,
           IsData(g) => TurnOf(g) = Turn', g.kind = "started" => Turn < Turn',
           chunker.box /= <<>> => Follows(Last(chunker.box), g),
           chunker.box = <<>> => HeadOk(Voice, chunker.emitted, g)
    PROVE  /\ Voice' = Voice /\ chunker'.emitted = chunker.emitted
           /\ chunker'.box = Append(chunker.box, g)
           /\ chunker'.box /= <<>> /\ Last(chunker'.box) = g
           /\ Speech(Voice, chunker'.box, chunker'.emitted, Turn')
  <1>1. /\ chunker'.box = Append(chunker.box, g) /\ chunker'.emitted = chunker.emitted
        /\ chunker'.todo = chunker.todo
    BY Sent
  <1>2. Voice' = Voice
    BY <1>1 DEF Voice
  <1>3. chunker.box \in Seq(ChunkerFrames) /\ chunker.emitted \in Nat /\ Voice \in Seq(Sentence) /\ Turn \in Nat
        /\ Speech(Voice, chunker.box, chunker.emitted, Turn)
    BY PathFields, VoiceIs DEF SpeechInv
  <1>. DEFINE more == Append(chunker.box, g)
              z == Voice
              later == Turn'
              nth == Turn
  <1>4. Speech(z, more, chunker.emitted, later)
    <2>1. /\ z \in Seq(Sentence) /\ nth \in Nat /\ Speech(z, chunker.box, chunker.emitted, nth)
          /\ later \in Nat /\ nth <= later /\ (IsData(g) => TurnOf(g) = later)
          /\ (g.kind = "started" => nth < later)
          /\ (chunker.box = <<>> => HeadOk(z, chunker.emitted, g))
      BY <1>3
    <2>. HIDE DEF z, later, nth
    <2>. QED  BY <1>3, <2>1, SpeechSent
  <1>5. more /= <<>> /\ Last(more) = g
    <2>1. more \in Seq(ChunkerFrames) /\ Len(more) = Len(chunker.box) + 1 /\ more[Len(chunker.box) + 1] = g
          /\ Len(chunker.box) \in Nat
      BY <1>3, AppendProperties
    <2>. HIDE DEF more
    <2>. QED  BY <2>1, EmptySeq DEF Last
  <1>. QED  BY <1>1, <1>2, <1>4, <1>5

LEMMA UpstreamSpeech ==
    ASSUME PathOk, SpeechInv, UserSpeaks \/ BargeIn
    PROVE  SpeechInv'
  <1>1. UNCHANGED <<chunker, tts>>
    BY DEF UserSpeaks, BargeIn
  <1>2. PICK f \in LmFrames : /\ lm' = [lm EXCEPT !.box = Append(@, f)]
                              /\ trace'.spoken = trace.spoken /\ trace'.turns \in Nat
                              /\ trace.turns <= trace'.turns
                              /\ IsData(f) => f.turn = trace'.turns /\ trace.turns < trace'.turns
    <2>1. CASE UserSpeaks
      <3>. DEFINE n == trace.turns
      <3>1. n \in Nat /\ n + 1 \in Turns
        <4>1. n \in 0..MaxTurns /\ MaxTurns \in Nat /\ n < MaxTurns
          BY <2>1, PathFields, LlamaAssumption DEF UserSpeaks
        <4>. QED  BY <4>1 DEF Turns
      <3>2. trace'.turns = n + 1 /\ trace'.spoken = trace.spoken
        BY <2>1 DEF UserSpeaks, PathOk, Traces
      <3>3. lm' = [lm EXCEPT !.box = Append(@, Mark("user", n + 1))]
        BY <2>1 DEF UserSpeaks
      <3>. HIDE DEF n
      <3>4. Mark("user", n + 1) \in LmFrames /\ Mark("user", n + 1).turn = n + 1
        BY <3>1, MakeFrames DEF Mark
      <3>5. n + 1 \in Nat /\ n <= n + 1 /\ n < n + 1
        BY <3>1
      <3>. QED  BY <3>2, <3>3, <3>4, <3>5 DEF n
    <2>2. CASE BargeIn
      <3>1. trace'.turns = trace.turns /\ trace'.spoken = trace.spoken
        BY <2>2 DEF BargeIn, PathOk, Traces
      <3>2. Interrupt \in LmFrames /\ ~IsData(Interrupt)
        BY MakeFrames DEF IsData, Interrupt
      <3>3. trace.turns \in Nat /\ trace.turns <= trace.turns
        BY VoiceIs
      <3>. QED  BY <2>2, <3>1, <3>2, <3>3 DEF BargeIn
    <2>. QED  BY <2>1, <2>2
  <1>3. /\ lm'.box = Append(lm.box, f) /\ lm'.convo = lm.convo /\ lm'.reply = lm.reply
        /\ lm'.phase = lm.phase
    BY <1>2 DEF PathOk, LmOk
  <1>4. Voice' = Voice /\ Turn' = Turn
    BY <1>1, <1>2, <1>3 DEF Voice, Turn
  <1>5. Users(lm'.box, Turn, trace'.turns)
    <2>1. /\ lm.box \in Seq(LmFrames) /\ Turn \in Nat /\ trace.turns \in Nat
          /\ Users(lm.box, Turn, trace.turns)
      BY PathFields, VoiceIs DEF SpeechInv
    <2>. HIDE DEF Turn
    <2>. QED  BY <1>2, <1>3, <2>1, UsersSent
  <1>. QED  BY <1>1, <1>3, <1>4, <1>5 DEF SpeechInv

LEMMA LmTakesSpeech ==
    ASSUME PathOk, SpeechInv, LmTakes
    PROVE  SpeechInv'
  <1>. DEFINE nth == Head(lm.box).turn
              word == <<nth, 0>>
              convo == Append(lm.convo, word)
              g == Mark("started", nth)
  <1>1. /\ lm.box /= <<>> /\ ~Interrupted(lm.box) /\ UNCHANGED <<tts, trace>> /\ ToChunker(g)
        /\ lm' = [lm EXCEPT !.box = Tail(@), !.convo = convo, !.reply = <<>>, !.phase = "reading"]
    BY DEF LmTakes, HasData
  <1>2. lm.box[1] = Head(lm.box) /\ lm.box[1] \in LmFrames /\ IsData(lm.box[1])
    <2>1. 1 \in 1..Len(lm.box) /\ Head(lm.box) = lm.box[1]
      BY <1>1, PathFields, EmptySeq
    <2>2. lm.box[1] \in LmFrames
      BY <1>1, <2>1, PathFields, Boxes
    <2>. QED  BY <1>1, <2>1, <2>2 DEF Interrupted, IsInterrupt, IsData
  <1>3. nth \in Turns
    BY <1>2, UserTurn
  <1>4. lm'.box = Tail(lm.box) /\ lm'.reply = <<>> /\ lm'.convo = convo /\ lm'.phase = "reading"
    BY <1>1 DEF PathOk, LmOk
  <1>5. Turn' = nth
    <2>1. word \in Token
      BY <1>3, LlamaAssumption DEF Token, Turns
    <2>. HIDE DEF word
    <2>2. /\ convo \in Seq(Token) /\ Len(convo) = Len(lm.convo) + 1
          /\ convo[Len(lm.convo) + 1] = word
      BY <2>1, PathFields, AppendProperties
    <2>. HIDE DEF convo
    <2>3. Last(convo) = word
      BY <2>2 DEF Last
    <2>4. word[1] = nth
      BY DEF word
    <2>. QED  BY <1>4, <2>3, <2>4 DEF Turn
  <1>6. Turn < nth /\ nth \in Nat /\ Users(Tail(lm.box), nth, trace.turns)
    <2>1. /\ lm.box \in Seq(LmFrames) /\ Turn \in Nat /\ trace.turns \in Nat
          /\ Users(lm.box, Turn, trace.turns)
      BY PathFields, VoiceIs DEF SpeechInv
    <2>. HIDE DEF Turn
    <2>. QED  BY <1>1, <1>2, <2>1, UsersTaken
  <1>. HIDE DEF nth
  <1>7. /\ g \in ChunkerFrames /\ g.kind = "started" /\ TurnOf(g) = nth
        /\ \A z, emitted : HeadOk(z, emitted, g)
        /\ \A f : Follows(f, g)
    <2>1. g \in ChunkerFrames
      BY <1>3, MakeFrames
    <2>2. g.kind = "started" /\ g.turn = nth
      BY DEF Mark
    <2>. HIDE DEF g
    <2>. QED  BY <2>1, <2>2 DEF TurnOf, HeadOk, Follows
  <1>8. Turn <= nth
    BY <1>6, VoiceIs
  <1>. HIDE DEF g
  <1>9. /\ Voice' = Voice /\ chunker'.emitted = chunker.emitted
        /\ chunker'.box /= <<>> /\ Last(chunker'.box) = g
        /\ Speech(Voice, chunker'.box, chunker'.emitted, Turn')
    <2>. HIDE DEF Turn
    <2>. QED  BY <1>1, <1>5, <1>6, <1>7, <1>8, LmSends
  <1>10. Reading(Voice, chunker'.box, chunker'.emitted, nth, <<>>)
    BY <1>9 DEF Reading, Latest, g
  <1>. QED  BY <1>1, <1>4, <1>5, <1>6, <1>9, <1>10 DEF SpeechInv

LEMMA FrontOfMore ==
    ASSUME NEW S, NEW s \in Seq(S), NEW x \in S
    PROVE  /\ Front(Append(s, x)) = s /\ Append(s, x) /= <<>>
           /\ s = <<>> => Len(Append(s, x)) = 1
  <1>. DEFINE more == Append(s, x)
              n == Len(s)
              p == Front(more)
  <1>1. /\ n \in Nat /\ more \in Seq(S) /\ Len(more) = n + 1
        /\ \A i \in 1..n : more[i] = s[i]
    BY AppendProperties
  <1>. HIDE DEF more
  <1>2. n \in 0..Len(more) /\ Len(more) - 1 = n
    BY <1>1
  <1>3. p \in Seq(S) /\ Len(p) = n /\ \A i \in 1..n : p[i] = more[i]
    BY <1>1, <1>2, FirstOf DEF Front
  <1>. HIDE DEF p
  <1>4. p = s
    BY <1>1, <1>3, SameElements
  <1>5. more /= <<>> /\ (s = <<>> => Len(more) = 1)
    BY <1>1, EmptySeq
  <1>. QED  BY <1>4, <1>5 DEF more, p

LEMMA LmReadsSpeech ==
    ASSUME ModelInv, PathOk, SpeechInv, LmReads
    PROVE  SpeechInv'
  <1>. DEFINE word == Head(stream.items) = "close"
              reply == Append(lm.reply, word)
              text == [turn |-> Turn, words |-> reply]
              g == [kind |-> "partial", text |-> text]
  <1>1. /\ lm.phase = "reading" /\ UNCHANGED <<tts, trace, llama>> /\ ToChunker(g)
        /\ lm' = [lm EXCEPT !.reply = reply]
        /\ stream.items /= <<>> /\ Head(stream.items) /= "error"
        /\ stream' = [stream EXCEPT !.items = Tail(@)]
    BY DEF LmReads
  <1>2. /\ lm'.box = lm.box /\ lm'.reply = reply /\ lm'.convo = lm.convo /\ lm'.phase = lm.phase
    BY <1>1 DEF PathOk, LmOk
  <1>3. word \in BOOLEAN
    OBVIOUS
  <1>. HIDE DEF word
  <1>4. /\ Front(reply) = lm.reply /\ reply /= <<>> /\ (lm.reply = <<>> => Len(reply) = 1)
        /\ reply \in Seq(BOOLEAN) /\ Len(reply) = Len(lm.reply) + 1 /\ Len(lm.reply) \in Nat
    <2>. DEFINE S == BOOLEAN
    <2>1. word \in S /\ lm.reply \in Seq(S)
      BY <1>3, PathFields
    <2>. HIDE DEF S
    <2>2. reply \in Seq(S) /\ Len(reply) = Len(lm.reply) + 1
      BY <2>1, AppendProperties
    <2>3. Front(reply) = lm.reply /\ reply /= <<>> /\ (lm.reply = <<>> => Len(reply) = 1)
      BY <2>1, FrontOfMore
    <2>4. Len(lm.reply) \in Nat
      BY <2>1
    <2>. QED  BY <2>2, <2>3, <2>4 DEF S
  <1>5. Len(lm.reply) + 1 <= MaxWords
    BY <1>1, <1>2, <1>3, ReadKeeps
  <1>. HIDE DEF reply
  <1>6. text \in Text /\ Len(text.words) \in Words /\ text.turn = Turn /\ text.words = reply
    <2>1. Turn \in Turns
      BY <1>1 DEF PathOk, LmOk
    <2>2. Len(reply) \in Words
      BY <1>4, <1>5, LlamaAssumption DEF Words
    <2>. HIDE DEF Turn
    <2>. QED  BY <1>4, <2>1, <2>2 DEF Text
  <1>. HIDE DEF text
  <1>7. g \in ChunkerFrames /\ g.kind = "partial" /\ g.text = text /\ TurnOf(g) = Turn
    <2>1. g \in ChunkerFrames
      BY <1>6, MakeFrames
    <2>2. g.kind = "partial" /\ g.text = text
      OBVIOUS
    <2>. HIDE DEF g
    <2>. QED  BY <1>6, <2>1, <2>2 DEF TurnOf
  <1>. HIDE DEF g
  <1>8. Reading(Voice, chunker.box, chunker.emitted, Turn, lm.reply)
    BY <1>1 DEF SpeechInv
  <1>9. ASSUME chunker.box /= <<>>
        PROVE  Follows(Last(chunker.box), g)
    <2>1. Last(chunker.box) = Latest(Turn, lm.reply)
      BY <1>8, <1>9 DEF Reading
    <2>2. CASE lm.reply = <<>>
      BY <1>4, <1>6, <1>7, <2>1, <2>2 DEF Follows, Latest
    <2>3. CASE lm.reply /= <<>>
      BY <1>4, <1>6, <1>7, <2>1, <2>3 DEF Follows, Latest
    <2>. QED  BY <2>2, <2>3
  <1>10. ASSUME chunker.box = <<>>
         PROVE  HeadOk(Voice, chunker.emitted, g)
    <2>1. MidOf(Voice, chunker.emitted, Turn, lm.reply)
      BY <1>8, <1>10 DEF Reading
    <2>. QED  BY <1>4, <1>6, <1>7, <2>1 DEF HeadOk
  <1>11. Turn' = Turn /\ Turn \in Nat /\ Turn <= Turn
    BY <1>2, VoiceIs DEF Turn
  <1>12. /\ Voice' = Voice /\ chunker'.emitted = chunker.emitted
         /\ chunker'.box /= <<>> /\ Last(chunker'.box) = g
         /\ Speech(Voice, chunker'.box, chunker'.emitted, Turn')
    BY <1>1, <1>7, <1>9, <1>10, <1>11, LmSends
  <1>13. Reading(Voice, chunker'.box, chunker'.emitted, Turn, reply)
    BY <1>4, <1>12 DEF Reading, Latest, g, text
  <1>. QED  BY <1>1, <1>2, <1>11, <1>12, <1>13 DEF SpeechInv

LEMMA LmEndsSpeech ==
    ASSUME ModelInv, PathOk, SpeechInv, LmFinal \/ LmFinishes
    PROVE  SpeechInv'
  <1>1. /\ lm'.box = lm.box /\ lm'.reply = lm.reply /\ lm'.convo = lm.convo
        /\ lm'.phase \in {"final", "finished"}
        /\ lm.phase /= "idle" /\ UNCHANGED tts
    BY DEF LmFinal, LmFinishes, StreamEnded, PathOk, LmOk
  <1>2. trace'.spoken = trace.spoken /\ trace'.turns = trace.turns
    BY DEF LmFinal, LmFinishes, PathOk, Traces
  <1>3. Turn' = Turn /\ Turn \in Nat /\ Turn <= Turn /\ Turn \in Turns
    BY <1>1, VoiceIs DEF Turn, PathOk, LmOk
  <1>4. PICK g \in ChunkerFrames : /\ ToChunker(g) /\ TurnOf(g) = Turn /\ g.kind /= "started"
                                   /\ chunker.box /= <<>> => Follows(Last(chunker.box), g)
                                   /\ chunker.box = <<>> => HeadOk(Voice, chunker.emitted, g)
    <2>1. CASE LmFinishes
      <3>. DEFINE g == Mark("finished", Turn)
      <3>1. g \in ChunkerFrames /\ g.kind = "finished" /\ g.turn = Turn
        BY <1>3, MakeFrames DEF Mark
      <3>2. ToChunker(g)
        BY <2>1 DEF LmFinishes
      <3>. HIDE DEF g
      <3>3. TurnOf(g) = Turn /\ (\A f : Follows(f, g)) /\ \A z, emitted : HeadOk(z, emitted, g)
        BY <3>1 DEF TurnOf, Follows, HeadOk
      <3>. QED  BY <3>1, <3>2, <3>3
    <2>2. CASE LmFinal
      <3>. DEFINE g == [kind |-> "final", text |-> Reply]
      <3>1. /\ lm.phase = "reading" /\ lm.reply /= <<>> /\ ToChunker(g)
        BY <2>2 DEF LmFinal, StreamEnded
      <3>2. Reply \in Text /\ Len(Reply.words) \in Words
        <4>1. /\ lm.reply \in Seq(BOOLEAN) /\ Len(lm.reply) <= MaxWords /\ Len(lm.reply) \in Nat
              /\ MaxWords \in Nat
          BY PathFields, LlamaAssumption DEF ModelInv, StreamOk
        <4>2. Len(lm.reply) /= 0
          BY <3>1, <4>1, EmptySeq
        <4>. HIDE DEF Turn
        <4>. QED  BY <1>3, <4>1, <4>2 DEF Reply, Text, Words
      <3>3. g \in ChunkerFrames
        <4>. HIDE DEF Reply
        <4>. QED  BY <3>2, MakeFrames
      <3>4. g.kind = "final" /\ g.text = Reply /\ Reply.turn = Turn /\ Reply.words = lm.reply
        BY DEF Reply
      <3>. HIDE DEF g
      <3>5. Reading(Voice, chunker.box, chunker.emitted, Turn, lm.reply)
        BY <3>1 DEF SpeechInv
      <3>6. chunker.box /= <<>> => Follows(Last(chunker.box), g)
        <4>1. chunker.box /= <<>> => Last(chunker.box) = [kind |-> "partial", text |-> Reply]
          BY <3>1, <3>5 DEF Reading, Latest, Reply
        <4>. QED  BY <3>4, <4>1 DEF Follows
      <3>7. chunker.box = <<>> => HeadOk(Voice, chunker.emitted, g)
        <4>1. chunker.box = <<>> => MidOf(Voice, chunker.emitted, Turn, lm.reply)
          BY <3>5 DEF Reading
        <4>. QED  BY <3>4, <4>1 DEF HeadOk
      <3>8. TurnOf(g) = Turn
        BY <3>4 DEF TurnOf
      <3>. QED  BY <3>1, <3>3, <3>4, <3>6, <3>7, <3>8
    <2>. QED  BY <2>1, <2>2
  <1>5. Voice' = Voice /\ Speech(Voice, chunker'.box, chunker'.emitted, Turn')
    BY <1>1, <1>2, <1>3, <1>4, LmSends
  <1>. QED  BY <1>1, <1>2, <1>3, <1>5 DEF SpeechInv

LEMMA LmLeavesSpeech ==
    ASSUME ModelInv, PathOk, SpeechInv, LmFails \/ LmCommits
    PROVE  SpeechInv'
  <1>1. lm'.box = lm.box /\ lm'.phase = "idle" /\ UNCHANGED <<chunker, tts>>
    BY DEF LmFails, LmCommits, PathOk, LmOk
  <1>2. trace'.spoken = trace.spoken /\ trace'.turns = trace.turns
    BY DEF LmFails, LmCommits, PathOk, Traces
  <1>3. Turn' = Turn
    <2>1. CASE LmFails
      BY <2>1 DEF LmFails, PathOk, LmOk, Turn
    <2>2. CASE LmCommits
      <3>. DEFINE n == Len(lm.reply)
                  said == [i \in 1..n |-> <<Turn, i>>]
                  convo == lm.convo \o said
                  k == Len(lm.convo)
      <3>1. lm'.convo = convo /\ lm.phase /= "idle"
        BY <2>2 DEF LmCommits, PathOk, LmOk
      <3>2. n \in Nat /\ n <= MaxWords /\ MaxWords \in Nat /\ Turn \in 0..MaxTurns
        BY <3>1, PathFields, LlamaAssumption DEF ModelInv, StreamOk, PathOk, LmOk, Turns
      <3>3. /\ lm.convo \in Seq(Token) /\ lm.convo /= <<>> /\ k \in Nat /\ k >= 1
            /\ Turn = lm.convo[k][1]
        BY PathFields, EmptySeq DEF Turn, Last
      <3>. HIDE DEF n
      <3>4. said \in Seq(Token) /\ Len(said) = n /\ \A i \in 1..n : said[i] = <<Turn, i>>
        <4>1. \A i \in 1..n : <<Turn, i>> \in Token
          BY <3>2 DEF Token
        <4>. QED  BY <3>2, <4>1
      <3>. HIDE DEF said
      <3>5. /\ Len(convo) = k + n
            /\ \A i \in 1..(k + n) : convo[i] = IF i <= k THEN lm.convo[i] ELSE said[i - k]
        <4>1. lm.convo \in Seq(Token) /\ said \in Seq(Token) /\ Len(said) = n /\ k \in Nat
          BY <3>3, <3>4
        <4>. HIDE DEF k
        <4>2. k = Len(lm.convo)
          BY DEF k
        <4>. QED  BY <3>2, <4>1, <4>2, ConcatProperties
      <3>. HIDE DEF convo, k
      <3>6. Last(convo)[1] = Turn
        <4>1. CASE n = 0
          <5>1. Len(convo) = k /\ k \in 1..(k + n) /\ k <= k
            BY <3>2, <3>3, <3>5, <4>1
          <5>2. convo[k] = lm.convo[k]
            BY <3>5, <5>1
          <5>. QED  BY <3>3, <5>1, <5>2 DEF Last
        <4>2. CASE n /= 0
          <5>1. k + n \in 1..(k + n) /\ ~(k + n <= k) /\ (k + n) - k = n /\ n \in 1..n
            BY <3>2, <3>3, <4>2
          <5>2. convo[k + n] = <<Turn, n>>
            BY <3>4, <3>5, <5>1
          <5>3. convo[k + n][1] = Turn
            BY <5>2
          <5>. QED  BY <3>5, <5>3 DEF Last
        <4>. QED  BY <4>1, <4>2
      <3>. QED  BY <3>1, <3>6 DEF Turn
    <2>. QED  BY <2>1, <2>2
  <1>4. Voice' = Voice
    BY <1>1, <1>2 DEF Voice
  <1>. QED  BY <1>1, <1>2, <1>3, <1>4 DEF SpeechInv

LEMMA LmInterruptSpeech ==
    ASSUME PathOk, SpeechInv, LmInterrupt
    PROVE  SpeechInv'
  <1>1. /\ Interrupted(lm.box) /\ lm'.box = AfterInterrupt(lm.box) /\ lm'.phase = "idle"
        /\ lm'.convo = lm.convo /\ ToChunker(Interrupt) /\ UNCHANGED tts
    BY DEF LmInterrupt, PathOk, LmOk
  <1>2. trace'.spoken = trace.spoken /\ trace'.turns = trace.turns
    BY DEF LmInterrupt, PathOk, Traces
  <1>3. Turn' = Turn /\ Turn \in Nat /\ Turn <= Turn
    BY <1>1, VoiceIs DEF Turn
  <1>4. Interrupt \in ChunkerFrames /\ Interrupt.kind = "interrupt"
    BY MakeFrames DEF Interrupt
  <1>5. /\ ~IsData(Interrupt)
        /\ (\A f : Follows(f, Interrupt)) /\ \A z, emitted : HeadOk(z, emitted, Interrupt)
    BY <1>4 DEF IsData, Follows, HeadOk
  <1>6. Voice' = Voice /\ Speech(Voice, chunker'.box, chunker'.emitted, Turn')
    BY <1>1, <1>2, <1>3, <1>4, <1>5, LmSends
  <1>7. Users(lm'.box, Turn, trace.turns)
    <2>. DEFINE n == First(lm.box)
                rest == AfterInterrupt(lm.box)
    <2>1. /\ n \in 1..Len(lm.box) /\ rest \in Seq(LmFrames) /\ Len(rest) = Len(lm.box) - n
          /\ \A i \in 1..(Len(lm.box) - n) : rest[i] = lm.box[n + i]
      BY <1>1, PathFields, NothingDurable, BehindInterrupt
    <2>2. lm.box \in Seq(LmFrames) /\ Users(lm.box, Turn, trace.turns) /\ n \in 0..Len(lm.box)
      BY <2>1, PathFields DEF SpeechInv
    <2>. HIDE DEF n, rest, Turn
    <2>3. Users(rest, Turn, trace.turns)
      BY <2>1, <2>2, UsersLeft
    <2>. QED  BY <1>1, <2>3 DEF rest
  <1>. QED  BY <1>1, <1>2, <1>3, <1>6, <1>7 DEF SpeechInv

LEMMA LmSpeech ==
    ASSUME ModelInv, PathOk, SpeechInv, LmSteps
    PROVE  SpeechInv'
  BY LmTakesSpeech, LmReadsSpeech, LmEndsSpeech, LmLeavesSpeech, LmInterruptSpeech DEF LmSteps

LEMMA FrameOfChunker ==
    ASSUME SpeechInv, PathOk, chunker.box /= <<>>
    PROVE  /\ Head(chunker.box) = chunker.box[1] /\ chunker.box[1] \in ChunkerFrames
           /\ 1 \in 1..Len(chunker.box)
           /\ Tail(chunker.box) \in Seq(ChunkerFrames)
           /\ Len(Tail(chunker.box)) = Len(chunker.box) - 1
           /\ \A i \in 1..(Len(chunker.box) - 1) : Tail(chunker.box)[i] = chunker.box[1 + i]
           /\ HeadOk(Voice, chunker.emitted, chunker.box[1])
  <1>1. /\ Head(chunker.box) = chunker.box[1] /\ chunker.box[1] \in ChunkerFrames
        /\ Tail(chunker.box) \in Seq(ChunkerFrames)
    BY PathFields, Boxes
  <1>2. 1 \in 1..Len(chunker.box)
    BY PathFields, EmptySeq
  <1>3. /\ Len(Tail(chunker.box)) = Len(chunker.box) - 1
        /\ \A i \in 1..(Len(chunker.box) - 1) : Tail(chunker.box)[i] = chunker.box[i + 1]
    BY PathFields, HeadTailProperties
  <1>4. \A i \in 1..(Len(chunker.box) - 1) : i + 1 = 1 + i
    OBVIOUS
  <1>5. HeadOk(Voice, chunker.emitted, chunker.box[1])
    BY DEF SpeechInv, Speech
  <1>. QED  BY <1>1, <1>2, <1>3, <1>4, <1>5

\* A frame behind a transcript finds the offset where the transcript left it.
LEMMA NextHead ==
    ASSUME NEW f, NEW g, Follows(f, g), NEW z, NEW left,
           f.kind \in {"interrupt", "partial", "final", "finished", "started"},
           f.kind = "partial" => MidOf(z, left, f.text.turn, f.text.words),
           f.kind = "started" => \A nth : f = Mark("started", nth) => MidOf(z, left, nth, <<>>),
           g.kind = "partial" => g.text.words \in Seq(BOOLEAN)
    PROVE  HeadOk(z, left, g)
  <1>1. ASSUME g.kind = "partial" PROVE MidOf(z, left, g.text.turn, Front(g.text.words))
    <2>1. CASE f = Mark("started", g.text.turn) /\ Len(g.text.words) = 1
      <3>1. f.kind = "started"
        BY <2>1 DEF Mark
      <3>2. MidOf(z, left, g.text.turn, <<>>)
        BY <2>1, <3>1
      <3>3. Front(g.text.words) = <<>>
        <4>1. Front(g.text.words) = SubSeq(g.text.words, 1, 0)
          BY <2>1 DEF Front
        <4>. QED  BY <1>1, <4>1, SubSeqEmpty
      <3>. QED  BY <3>2, <3>3
    <2>2. CASE f = [kind |-> "partial", text |-> [turn |-> g.text.turn, words |-> Front(g.text.words)]]
      <3>1. f.kind = "partial" /\ f.text.turn = g.text.turn /\ f.text.words = Front(g.text.words)
        BY <2>2
      <3>. QED  BY <3>1
    <2>. QED  BY <1>1, <2>1, <2>2 DEF Follows
  <1>2. ASSUME g.kind = "final" PROVE MidOf(z, left, g.text.turn, g.text.words)
    <2>1. f = [kind |-> "partial", text |-> g.text]
      BY <1>2 DEF Follows
    <2>2. f.kind = "partial" /\ f.text = g.text
      BY <2>1
    <2>. QED  BY <2>2
  <1>. QED  BY <1>1, <1>2 DEF HeadOk

LEMMA ChunkerText ==
    ASSUME NEW f \in ChunkerFrames, f.kind \in {"partial", "final"}
    PROVE  f.text \in Text /\ f.text.words \in Seq(BOOLEAN) /\ Len(f.text.words) \in Words
           /\ f.text.turn \in Turns /\ f.text.turn \in Nat
  <1>1. f \in Frame /\ Len(f.text.words) \in Words
    BY DEF ChunkerFrames
  <1>2. f.text \in Text
    BY <1>1, FrameFields
  <1>. QED  BY <1>1, <1>2 DEF Text, Turns

LEMMA ChunkerReadsSpeech ==
    ASSUME PathOk, SpeechInv, ChunkerReads
    PROVE  SpeechInv'
  <1>. DEFINE box == chunker.box
              f == Head(chunker.box)
              rest == Tail(chunker.box)
              text == f.text
              final == f.kind = "final"
              s == Sentences(text, chunker.emitted, final)
              left == IF final THEN 0 ELSE IF s = <<>> THEN chunker.emitted ELSE Last(s).to
              z == Voice
              y == Voice \o s
              ends == AllEnds(text, final)
              size == Len(text.words)
  <1>1. /\ chunker.box /= <<>> /\ chunker.todo = <<>> /\ UNCHANGED <<lm, tts, trace>>
    BY DEF ChunkerReads, ChunkerIdle, HasData
  <1>2. /\ f \in ChunkerFrames /\ text \in Text /\ size \in Words
        /\ f.kind \in {"partial", "final"}
        /\ Cut(s, text, chunker.emitted, ends, size)
        /\ chunker'.box = rest /\ chunker'.todo = s /\ chunker'.emitted = left
    BY ChunkerReadsIs
  <1>3. /\ f = box[1] /\ 1 \in 1..Len(box) /\ rest \in Seq(ChunkerFrames)
        /\ Len(rest) = Len(box) - 1
        /\ \A i \in 1..(Len(box) - 1) : rest[i] = box[1 + i]
        /\ HeadOk(z, chunker.emitted, f)
    BY <1>1, FrameOfChunker
  <1>4. /\ Speech(z, box, chunker.emitted, Turn) /\ z \in Seq(Sentence) /\ chunker.emitted \in Nat
        /\ Turn \in Nat
        /\ box \in Seq(ChunkerFrames)
    BY PathFields, VoiceIs DEF SpeechInv
  <1>5. text.turn \in Nat /\ text.words \in Seq(BOOLEAN) /\ TurnOf(f) = text.turn /\ IsData(f)
    BY <1>2, ChunkerText DEF TurnOf, IsData
  <1>6. s \in Seq(Sentence)
    BY <1>2 DEF Cut
  <1>7. Voice' = y
    <2>. DEFINE a == trace.spoken
                b == Said(tts.box)
    <2>1. a \in Seq(Sentence) /\ b \in Seq(Sentence)
      BY PathFields, SaidType
    <2>2. Voice = a \o (b \o <<>>) /\ Voice' = a \o (b \o s)
      BY <1>1, <1>2 DEF Voice
    <2>. HIDE DEF a, b, s
    <2>3. b \o <<>> = b
      BY <2>1, ConcatEmptySeq
    <2>4. (a \o b) \o s = a \o (b \o s)
      BY <1>6, <2>1, ConcatAssociative
    <2>. QED  BY <2>2, <2>3, <2>4
  <1>. HIDE DEF text, final, ends, size, rest, f, z, box
  <1>8. Chained(z) /\ Bounded(z, text.turn) /\ NotYet(z, f) /\ text.turn <= Turn
    BY <1>3, <1>4, <1>5 DEF Speech, NotYet
  <1>9. Stands(z, chunker.emitted, text.turn)
    <2>1. \E words : MidOf(z, chunker.emitted, text.turn, words)
      BY <1>2, <1>3 DEF HeadOk, text
    <2>. QED  BY <1>8, <2>1 DEF Stands, MidOf
  <1>. HIDE DEF s
  <1>10. y \in Seq(Sentence) /\ Chained(y) /\ Bounded(y, text.turn)
    BY <1>2, <1>4, <1>9, CutFollows DEF z
  <1>11. \A g \in ChunkerFrames :
           NotYet(z, g) /\ (s /= <<>> => Before([kind |-> "partial", text |-> text], g)) => NotYet(y, g)
    BY <1>2, <1>4, <1>9, CutFollows DEF z
  <1>. HIDE DEF y
  <1>12. Bounded(y, Turn)
    <2>1. \A j \in 1..Len(y) : y[j].turn \in Nat
      <3>1. \A x \in Sentence : x.turn \in Nat
        BY DEF Sentence, Turns
      <3>2. \A j \in 1..Len(y) : y[j] \in Sentence
        BY <1>10
      <3>. QED  BY <3>1, <3>2
    <2>. HIDE DEF Turn
    <2>. QED  BY <1>4, <1>5, <1>8, <1>10, <2>1 DEF Bounded
  <1>13. \A i \in 1..Len(box) : i > 1 /\ IsData(box[i]) => NotYet(y, box[i])
    <2>. SUFFICES ASSUME NEW i \in 1..Len(box), i > 1, IsData(box[i]) PROVE NotYet(y, box[i])
      OBVIOUS
    <2>1. box[i] \in ChunkerFrames
      BY <1>4
    <2>2. NotYet(z, box[i]) /\ Before(f, box[i])
      BY <1>3, <1>4, <1>5 DEF Speech
    <2>3. Before([kind |-> "partial", text |-> text], box[i])
      <3>1. TurnOf([kind |-> "partial", text |-> text]) = TurnOf(f)
        BY <1>5 DEF TurnOf
      <3>. QED  BY <2>2, <3>1 DEF Before
    <2>. QED  BY <1>11, <2>1, <2>2, <2>3
  <1>14. f.kind = "partial" => MidOf(y, left, text.turn, text.words)
    <2>. SUFFICES ASSUME f.kind = "partial" PROVE MidOf(y, left, text.turn, text.words)
      OBVIOUS
    <2>1. ~final /\ MidOf(z, chunker.emitted, text.turn, Front(text.words))
      BY <1>3 DEF final, HeadOk, text
    <2>2. /\ Cut(s, text, chunker.emitted, AllEnds(text, FALSE), Len(text.words))
          /\ Len(text.words) \in Words
      BY <1>2, <2>1 DEF ends, size, AllEnds
    <2>3. MidOf(z \o s, IF s = <<>> THEN chunker.emitted ELSE Last(s).to, text.turn, text.words)
      BY <1>2, <1>4, <1>8, <2>1, <2>2, CutStands
    <2>. QED  BY <2>1, <2>3 DEF y, z
  <1>15. left \in Nat
    BY <1>2, ChunkerReadsIs, LlamaAssumption DEF ChunkerOk
  <1>. HIDE DEF left
  <1>16. rest /= <<>> => (Follows(f, rest[1]) => HeadOk(y, left, rest[1]))
    <2>. SUFFICES ASSUME rest /= <<>>, Follows(f, rest[1]) PROVE HeadOk(y, left, rest[1])
      OBVIOUS
    <2>1. rest[1] \in ChunkerFrames
      BY <1>3, EmptySeq
    <2>2. rest[1].kind = "partial" => rest[1].text.words \in Seq(BOOLEAN)
      BY <2>1, ChunkerText
    <2>3. f.kind = "partial" => MidOf(y, left, f.text.turn, f.text.words)
      BY <1>14 DEF text
    <2>. DEFINE g == rest[1]
    <2>. HIDE DEF g
    <2>4. /\ f.kind /= "started"
          /\ f.kind \in {"interrupt", "partial", "final", "finished", "started"}
      BY <1>2
    <2>5. HeadOk(y, left, g)
      BY <2>2, <2>3, <2>4, NextHead DEF g
    <2>. QED  BY <2>5 DEF g
  <1>17. Speech(y, rest, left, Turn)
    <2>. HIDE DEF Turn
    <2>1. rest /= <<>> => (Follows(box[1], rest[1]) => HeadOk(y, left, rest[1]))
      BY <1>3, <1>16
    <2>. QED  BY <1>3, <1>4, <1>10, <1>12, <1>13, <1>15, <2>1, SpeechRest
  <1>18. lm.phase = "reading" => Reading(y, rest, left, Turn, lm.reply)
    <2>. SUFFICES ASSUME lm.phase = "reading" PROVE Reading(y, rest, left, Turn, lm.reply)
      OBVIOUS
    <2>1. Reading(z, box, chunker.emitted, Turn, lm.reply)
      BY DEF SpeechInv, z, box
    <2>2. f = Latest(Turn, lm.reply) => MidOf(y, left, Turn, lm.reply)
      <3>. SUFFICES ASSUME f = Latest(Turn, lm.reply) PROVE MidOf(y, left, Turn, lm.reply)
        OBVIOUS
      <3>1. CASE lm.reply = <<>>
        <4>1. f.kind = "started"
          BY <3>1 DEF Latest, Mark
        <4>. QED  BY <1>2, <4>1
      <3>2. CASE lm.reply /= <<>>
        <4>1. f = [kind |-> "partial", text |-> [turn |-> Turn, words |-> lm.reply]]
          BY <3>2 DEF Latest
        <4>2. f.kind = "partial" /\ f.text.turn = Turn /\ f.text.words = lm.reply
          BY <4>1
        <4>. QED  BY <1>14, <4>2 DEF text
      <3>. QED  BY <3>1, <3>2
    <2>. HIDE DEF Turn
    <2>. QED  BY <1>3, <1>4, <2>1, <2>2, ReadingRest
  <1>19. Users(lm.box, Turn, trace.turns)
    BY DEF SpeechInv
  <1>20. Turn' = Turn
    BY <1>1 DEF Turn
  <1>. QED  BY <1>1, <1>2, <1>7, <1>17, <1>18, <1>19, <1>20 DEF SpeechInv

LEMMA ChunkerForwardsSpeech ==
    ASSUME PathOk, SpeechInv, ChunkerForwards
    PROVE  SpeechInv'
  <1>. DEFINE box == chunker.box
              f == Head(chunker.box)
              rest == Tail(chunker.box)
              left == IF f.kind = "started" THEN 0 ELSE chunker.emitted
              z == Voice
  <1>1. UNCHANGED <<lm, trace>>
    BY DEF ChunkerForwards
  <1>2. /\ chunker.box /= <<>> /\ f \in ChunkerFrames /\ f \in TtsFrames
        /\ f.kind \in {"started", "finished"}
        /\ chunker'.box = rest /\ chunker'.todo = chunker.todo /\ chunker'.emitted = left
        /\ tts'.box = Append(tts.box, f)
    BY ChunkerForwardsIs
  <1>3. /\ f = box[1] /\ 1 \in 1..Len(box) /\ rest \in Seq(ChunkerFrames)
        /\ Len(rest) = Len(box) - 1
        /\ \A i \in 1..(Len(box) - 1) : rest[i] = box[1 + i]
    BY <1>2, FrameOfChunker
  <1>4. /\ Speech(z, box, chunker.emitted, Turn) /\ z \in Seq(Sentence) /\ chunker.emitted \in Nat
        /\ Turn \in Nat
        /\ box \in Seq(ChunkerFrames)
    BY PathFields, VoiceIs DEF SpeechInv
  <1>5. Voice' = z
    <2>1. Said(Append(tts.box, f)) = Said(tts.box)
      BY <1>2, PathFields, SaidAppend DEF SaidStep
    <2>. QED  BY <1>1, <1>2, <2>1 DEF Voice
  <1>. HIDE DEF f, z, rest, box
  <1>6. /\ Chained(z) /\ Bounded(z, Turn) /\ NotYet(z, f)
        /\ \A i \in 1..Len(box) : i > 1 /\ IsData(box[i]) => NotYet(z, box[i])
    BY <1>2, <1>3, <1>4 DEF Speech, IsData
  <1>7. ASSUME NEW nth, f = Mark("started", nth)
        PROVE  MidOf(z, left, nth, <<>>)
    <2>1. f.kind = "started" /\ TurnOf(f) = nth /\ left = 0
      BY <1>7 DEF Mark, TurnOf
    <2>2. \A i \in 1..Len(z) : z[i].turn <= nth /\ z[i].turn < nth
      BY <1>6, <2>1 DEF NotYet, Bounded
    <2>3. Ends(<<>>) = {}
      BY DEF Ends
    <2>4. LastEnd(0, <<>>)
      BY <2>3 DEF LastEnd
    <2>. HIDE DEF left
    <2>. QED  BY <2>1, <2>2, <2>4 DEF MidOf
  <1>8. left \in Nat
    BY <1>4
  <1>. HIDE DEF left
  <1>9. rest /= <<>> => (Follows(f, rest[1]) => HeadOk(z, left, rest[1]))
    <2>. SUFFICES ASSUME rest /= <<>>, Follows(f, rest[1]) PROVE HeadOk(z, left, rest[1])
      OBVIOUS
    <2>. DEFINE g == rest[1]
    <2>1. g \in ChunkerFrames
      BY <1>3, EmptySeq
    <2>. HIDE DEF g
    <2>2. g.kind = "partial" => g.text.words \in Seq(BOOLEAN)
      BY <2>1, ChunkerText
    <2>3. /\ f.kind /= "partial"
          /\ f.kind \in {"interrupt", "partial", "final", "finished", "started"}
      BY <1>2
    <2>4. HeadOk(z, left, g)
      BY <1>7, <2>2, <2>3, NextHead DEF g
    <2>. QED  BY <2>4 DEF g
  <1>10. Speech(z, rest, left, Turn)
    <2>. HIDE DEF Turn
    <2>1. rest /= <<>> => (Follows(box[1], rest[1]) => HeadOk(z, left, rest[1]))
      BY <1>3, <1>9
    <2>. QED  BY <1>3, <1>4, <1>6, <1>8, <2>1, SpeechRest
  <1>11. lm.phase = "reading" => Reading(z, rest, left, Turn, lm.reply)
    <2>. SUFFICES ASSUME lm.phase = "reading" PROVE Reading(z, rest, left, Turn, lm.reply)
      OBVIOUS
    <2>1. Reading(z, box, chunker.emitted, Turn, lm.reply)
      BY DEF SpeechInv, z, box
    <2>2. f = Latest(Turn, lm.reply) => MidOf(z, left, Turn, lm.reply)
      <3>. SUFFICES ASSUME f = Latest(Turn, lm.reply) PROVE MidOf(z, left, Turn, lm.reply)
        OBVIOUS
      <3>1. CASE lm.reply = <<>>
        BY <1>7, <3>1 DEF Latest
      <3>2. CASE lm.reply /= <<>>
        <4>1. f = [kind |-> "partial", text |-> [turn |-> Turn, words |-> lm.reply]]
          BY <3>2 DEF Latest
        <4>. QED  BY <1>2, <4>1
      <3>. QED  BY <3>1, <3>2
    <2>. HIDE DEF Turn
    <2>. QED  BY <1>3, <1>4, <2>1, <2>2, ReadingRest
  <1>12. Users(lm.box, Turn, trace.turns) /\ Turn' = Turn
    BY <1>1 DEF SpeechInv, Turn
  <1>. QED  BY <1>1, <1>2, <1>5, <1>10, <1>11, <1>12 DEF SpeechInv

\* What waits to be spoken has moved on; the chunker and the stage of the model stand still.
LEMMA SpeechAside ==
    ASSUME SpeechInv, Voice' = Voice, UNCHANGED lm, trace'.turns = trace.turns,
           chunker'.box = chunker.box, chunker'.emitted = chunker.emitted
    PROVE  SpeechInv'
  <1>1. Turn' = Turn
    BY DEF Turn
  <1>. QED  BY <1>1 DEF SpeechInv

LEMMA ChunkerEmitsSpeech ==
    ASSUME PathOk, SpeechInv, ChunkerEmits
    PROVE  SpeechInv'
  <1>. DEFINE x == Head(chunker.todo)
              rest == Tail(chunker.todo)
              frame == [kind |-> "sentence", sentence |-> x]
              a == Said(tts.box)
  <1>1. UNCHANGED <<lm, trace>>
    BY DEF ChunkerEmits
  <1>2. /\ chunker.todo /= <<>> /\ x \in Sentence
        /\ chunker'.box = chunker.box /\ chunker'.todo = rest
        /\ chunker'.emitted = chunker.emitted
        /\ tts'.box = Append(tts.box, frame)
    BY ChunkerEmitsIs
  <1>3. rest \in Seq(Sentence) /\ chunker.todo = <<x>> \o rest
    BY <1>2, PathFields, HeadTailProperties, ConcatProperties
  <1>4. Said(tts'.box) = Append(a, x)
    <2>1. frame \in TtsFrames
      BY <1>2, MakeFrames
    <2>2. SaidStep(frame, a) = Append(a, x)
      BY DEF SaidStep
    <2>. HIDE DEF frame, a
    <2>3. Said(Append(tts.box, frame)) = SaidStep(frame, Said(tts.box))
      BY <2>1, PathFields, SaidAppend
    <2>. QED  BY <1>2, <2>2, <2>3 DEF a
  <1>5. Append(a, x) \o rest = a \o chunker.todo
    <2>. DEFINE one == <<x>>
    <2>1. a \in Seq(Sentence) /\ one \in Seq(Sentence)
      BY <1>2, PathFields, SaidType
    <2>2. Append(a, x) = a \o one
      BY <1>2, <2>1, AppendIsConcat
    <2>. HIDE DEF one, a, x, rest
    <2>3. (a \o one) \o rest = a \o (one \o rest)
      BY <1>3, <2>1, ConcatAssociative
    <2>. QED  BY <1>3, <2>2, <2>3 DEF one
  <1>6. Voice' = Voice
    BY <1>1, <1>2, <1>4, <1>5 DEF Voice
  <1>. QED  BY <1>1, <1>2, <1>6, SpeechAside

LEMMA ChunkerInterruptSpeech ==
    ASSUME PathOk, SpeechInv, ChunkerInterrupt
    PROVE  SpeechInv'
  <1>. DEFINE box == chunker.box
              n == First(chunker.box)
              f == box[n]
              rest == AfterInterrupt(chunker.box)
              z == Voice
              y == trace.spoken
              b == Said(tts.box) \o chunker.todo
  <1>1. UNCHANGED <<lm, trace>>
    BY DEF ChunkerInterrupt
  <1>2. /\ Interrupted(chunker.box) /\ chunker'.box = rest /\ chunker'.todo = <<>>
        /\ chunker'.emitted = 0
        /\ tts'.box = Append(tts.box, Interrupt)
    BY ChunkerInterruptIs
  <1>3. /\ n \in 1..Len(box) /\ f.kind = "interrupt" /\ rest \in Seq(ChunkerFrames)
        /\ Len(rest) = Len(box) - n
        /\ \A i \in 1..(Len(box) - n) : rest[i] = box[n + i]
    BY <1>2, PathFields, NothingDurable, BehindInterrupt
  <1>4. /\ Speech(z, box, chunker.emitted, Turn) /\ z \in Seq(Sentence) /\ chunker.emitted \in Nat
        /\ Turn \in Nat
        /\ box \in Seq(ChunkerFrames) /\ y \in Seq(Sentence) /\ b \in Seq(Sentence) /\ z = y \o b
    BY PathFields, VoiceIs DEF SpeechInv, Voice
  <1>5. Voice' = y
    <2>1. Interrupt \in TtsFrames /\ Interrupt.kind = "interrupt"
      BY MakeFrames DEF Interrupt
    <2>2. Said(tts'.box) = <<>>
      BY <1>2, <2>1, PathFields, SaidAppend DEF SaidStep
    <2>3. <<>> \o <<>> = <<>> /\ trace.spoken \o <<>> = trace.spoken
      BY <1>4, ConcatEmptySeq
    <2>. QED  BY <1>1, <1>2, <2>2, <2>3 DEF Voice
  <1>. HIDE DEF n, f, rest, z, y, b, box
  <1>6. Chained(y) /\ Bounded(y, Turn) /\ \A g : NotYet(z, g) => NotYet(y, g)
    <2>1. Chained(z) /\ Bounded(z, Turn)
      BY <1>4 DEF Speech
    <2>. HIDE DEF Turn
    <2>. QED  BY <1>4, <2>1, SpeechFront
  <1>7. \A i \in 1..Len(box) : i > n /\ IsData(box[i]) => NotYet(y, box[i])
    BY <1>4, <1>6 DEF Speech
  <1>8. rest /= <<>> => (Follows(box[n], rest[1]) => HeadOk(y, 0, rest[1]))
    <2>. SUFFICES ASSUME rest /= <<>>, Follows(box[n], rest[1]) PROVE HeadOk(y, 0, rest[1])
      OBVIOUS
    <2>. DEFINE g == rest[1]
    <2>1. g \in ChunkerFrames
      BY <1>3, EmptySeq
    <2>. HIDE DEF g
    <2>2. g.kind = "partial" => g.text.words \in Seq(BOOLEAN)
      BY <2>1, ChunkerText
    <2>3. /\ f.kind \notin {"partial", "started"}
          /\ f.kind \in {"interrupt", "partial", "final", "finished", "started"}
      BY <1>3
    <2>4. HeadOk(y, 0, g)
      BY <2>2, <2>3, NextHead DEF g, f
    <2>. QED  BY <2>4 DEF g
  <1>9. Speech(y, rest, 0, Turn)
    <2>. HIDE DEF Turn
    <2>1. 0 \in Nat
      OBVIOUS
    <2>. QED  BY <1>3, <1>4, <1>6, <1>7, <1>8, <2>1, SpeechRest
  <1>10. lm.phase = "reading" => Reading(y, rest, 0, Turn, lm.reply)
    <2>. SUFFICES ASSUME lm.phase = "reading" PROVE Reading(y, rest, 0, Turn, lm.reply)
      OBVIOUS
    <2>1. Reading(z, box, chunker.emitted, Turn, lm.reply)
      BY DEF SpeechInv, z, box
    <2>2. f /= Latest(Turn, lm.reply)
      <3>1. Latest(Turn, lm.reply).kind \in {"started", "partial"}
        BY DEF Latest, Mark
      <3>. QED  BY <1>3, <3>1
    <2>3. box[n] /= Latest(Turn, lm.reply)
      BY <2>2 DEF f
    <2>4. /\ box \in Seq(ChunkerFrames) /\ n \in 1..Len(box) /\ rest \in Seq(ChunkerFrames)
          /\ Len(rest) = Len(box) - n /\ \A i \in 1..(Len(box) - n) : rest[i] = box[n + i]
      BY <1>3, <1>4
    <2>. HIDE DEF Turn
    <2>. QED  BY <2>1, <2>3, <2>4, ReadingRest
  <1>11. Users(lm.box, Turn, trace.turns) /\ Turn' = Turn
    BY <1>1 DEF SpeechInv, Turn
  <1>. QED  BY <1>1, <1>2, <1>5, <1>9, <1>10, <1>11 DEF SpeechInv

LEMMA TtsSpeech ==
    ASSUME PathOk, SpeechInv, TtsSteps
    PROVE  SpeechInv'
  <1>. DEFINE a == trace.spoken
              box == tts.box
              t == chunker.todo
  <1>1. UNCHANGED <<lm, chunker>>
    BY DEF TtsSteps, TtsForwards, TtsSpeaks, TtsHears, TtsEnds, TtsInterrupt
  <1>2. a \in Seq(Sentence) /\ box \in Seq(TtsFrames) /\ t \in Seq(Sentence)
    BY PathFields
  <1>3. CASE TtsForwards
    <2>1. /\ box /= <<>> /\ ~Interrupted(box) /\ Head(box).kind /= "sentence"
          /\ tts'.box = Tail(box) /\ UNCHANGED trace
      BY <1>3 DEF TtsForwards, HasData, PathOk, TtsOk
    <2>2. Said(box) = SaidStep(Head(box), <<>>) \o Said(Tail(box)) /\ Tail(box) \in Seq(TtsFrames)
      BY <1>2, <2>1, SaidTail, Boxes
    <2>3. SaidStep(Head(box), <<>>) = <<>>
      BY <2>1 DEF SaidStep
    <2>4. <<>> \o Said(Tail(box)) = Said(Tail(box))
      BY <2>2, SaidType, ConcatEmptySeq
    <2>5. Voice' = Voice
      BY <1>1, <2>1, <2>2, <2>3, <2>4 DEF Voice
    <2>. QED  BY <1>1, <2>1, <2>5, SpeechAside
  <1>4. CASE TtsSpeaks
    <2>. DEFINE x == Head(box).sentence
                u == Said(Tail(box))
                one == <<x>>
    <2>1. /\ box /= <<>> /\ Head(box).kind = "sentence" /\ x \in Sentence
          /\ tts'.box = Tail(box) /\ trace'.spoken = Append(a, x) /\ trace'.turns = trace.turns
      BY <1>4, TtsSpeaksIs
    <2>2. Said(box) = SaidStep(Head(box), <<>>) \o u /\ Tail(box) \in Seq(TtsFrames)
      BY <1>2, <1>4, <2>1, SaidTail, Boxes DEF TtsSpeaks, HasData
    <2>3. SaidStep(Head(box), <<>>) = one
      <3>1. SaidStep(Head(box), <<>>) = Append(<<>>, x)
        BY <2>1 DEF SaidStep
      <3>2. Append(<<>>, x) = <<x>>
        OBVIOUS
      <3>. QED  BY <3>1, <3>2
    <2>4. u \in Seq(Sentence) /\ one \in Seq(Sentence)
      <3>1. x \in Sentence /\ Tail(box) \in Seq(TtsFrames)
        BY <2>1, <2>2
      <3>. HIDE DEF x
      <3>2. <<x>> \in Seq(Sentence)
        BY <3>1
      <3>. QED  BY <3>1, <3>2, SaidType
    <2>5. Append(a, x) = a \o one
      BY <1>2, <2>1, AppendIsConcat
    <2>. DEFINE v == u \o t
    <2>6. v \in Seq(Sentence)
      BY <1>2, <2>4, ConcatProperties
    <2>7. Voice = a \o ((one \o u) \o t) /\ Voice' = (a \o one) \o v
      BY <1>1, <2>1, <2>2, <2>3, <2>5 DEF Voice
    <2>. HIDE DEF a, one, u, t, v
    <2>8. (one \o u) \o t = one \o (u \o t)
      BY <1>2, <2>4, ConcatAssociative
    <2>9. (a \o one) \o v = a \o (one \o v)
      <3>1. a \in Seq(Sentence) /\ one \in Seq(Sentence) /\ v \in Seq(Sentence)
        BY <1>2, <2>4, <2>6
      <3>. QED  BY <3>1, ConcatAssociative
    <2>10. Voice' = Voice
      BY <2>7, <2>8, <2>9 DEF v
    <2>. QED  BY <1>1, <2>1, <2>10, SpeechAside
  <1>5. CASE TtsHears \/ TtsEnds
    <2>1. tts'.box = tts.box /\ UNCHANGED trace
      BY <1>5 DEF TtsHears, TtsEnds, PathOk, TtsOk
    <2>2. Voice' = Voice
      BY <1>1, <2>1 DEF Voice
    <2>. QED  BY <1>1, <2>1, <2>2, SpeechAside
  <1>6. CASE TtsInterrupt
    <2>1. Interrupted(box) /\ tts'.box = AfterInterrupt(box) /\ UNCHANGED trace
      BY <1>6, TtsInterruptIs DEF TtsInterrupt
    <2>2. Said(AfterInterrupt(box)) = Said(box)
      BY <1>2, <2>1, SaidAfter
    <2>3. Voice' = Voice
      BY <1>1, <2>1, <2>2 DEF Voice
    <2>. QED  BY <1>1, <2>1, <2>3, SpeechAside
  <1>. QED  BY <1>3, <1>4, <1>5, <1>6 DEF TtsSteps

LEMMA SpeechInit == Init => SpeechInv
  <1>. SUFFICES ASSUME Init PROVE SpeechInv
    OBVIOUS
  <1>1. /\ chunker.box = <<>> /\ chunker.emitted = 0 /\ chunker.todo = <<>> /\ tts.box = <<>>
        /\ trace.spoken = <<>> /\ trace.turns = 0 /\ lm.box = <<>> /\ lm.phase = "idle"
        /\ lm.convo = << <<0, 0>> >>
    BY DEF Init
  <1>2. Voice = <<>>
    <2>1. <<>> \o <<>> = <<>>
      OBVIOUS
    <2>. QED  BY <1>1, <2>1, SaidNone DEF Voice
  <1>3. Turn = 0
    BY <1>1 DEF Turn, Last
  <1>4. Speech(<<>>, <<>>, 0, 0)
    BY DEF Speech, Chained, Bounded
  <1>5. Users(<<>>, 0, 0)
    BY DEF Users
  <1>. QED  BY <1>1, <1>2, <1>3, <1>4, <1>5 DEF SpeechInv

LEMMA SpeechNext == WorkInv /\ SpeechInv /\ [Next]_vars => SpeechInv'
  <1>. SUFFICES ASSUME WorkInv, SpeechInv, [Next]_vars PROVE SpeechInv'
    OBVIOUS
  <1>1. ModelInv /\ PathOk
    BY DEF WorkInv
  <1>2. CASE UserSpeaks \/ BargeIn
    BY <1>1, <1>2, UpstreamSpeech
  <1>3. CASE LmSteps
    BY <1>1, <1>3, LmSpeech
  <1>4. CASE ChunkerSteps
    BY <1>1, <1>4, ChunkerReadsSpeech, ChunkerForwardsSpeech, ChunkerEmitsSpeech,
       ChunkerInterruptSpeech
       DEF ChunkerSteps
  <1>5. CASE TtsSteps
    BY <1>1, <1>5, TtsSpeech
  <1>6. CASE LlamaSteps \/ SherpaSteps \/ UNCHANGED vars
    <2>1. UNCHANGED <<lm, chunker, tts, trace>>
      BY <1>6 DEF LlamaSteps, SherpaSteps, vars
    <2>2. Voice' = Voice
      BY <2>1 DEF Voice
    <2>. QED  BY <2>1, <2>2, SpeechAside
  <1>. QED  BY <1>2, <1>3, <1>4, <1>5, <1>6 DEF Next, System, Rest

LEMMA EndsInText ==
    ASSUME NEW words \in Seq(BOOLEAN), NEW m, LastEnd(m, words)
    PROVE  m \in Nat /\ m <= Len(words)
  <1>1. Len(words) \in Nat
    OBVIOUS
  <1>. QED  BY <1>1 DEF LastEnd, Ends

\* However generations end, fail and are cut off, and whatever is under way between the three
\* stages then: the chunker's offset lies in the text it reads next, and the sentences of each
\* reply are spoken in order, from its first word on, with none twice and none left out
\* between two others (sentence_chunker.rs, stage.rs of pipecrab-lm and of pipecrab-tts).
THEOREM SentencesFollow == Spec => []SpeechInOrder
  <1>1. WorkInv /\ SpeechInv => SpeechInOrder
    <2>. SUFFICES ASSUME WorkInv, SpeechInv PROVE SpeechInOrder
      OBVIOUS
    <2>1. PathOk
      BY DEF WorkInv
    <2>2. ASSUME HasData(chunker.box), Head(chunker.box).kind \in {"partial", "final"}
          PROVE  OffsetInText(Head(chunker.box).text)
      <3>. DEFINE f == chunker.box[1]
                  words == f.text.words
      <3>1. chunker.box /= <<>>
        BY <2>2 DEF HasData
      <3>2. f \in ChunkerFrames /\ Head(chunker.box) = f /\ HeadOk(Voice, chunker.emitted, f)
        BY <2>1, <3>1, FrameOfChunker
      <3>. HIDE DEF f
      <3>3. words \in Seq(BOOLEAN) /\ Len(words) \in Words
        BY <2>2, <3>2, ChunkerText
      <3>. DEFINE front == Front(words)
      <3>4. /\ front \in Seq(BOOLEAN) /\ Len(front) = Len(words) - 1 /\ Len(words) \in Nat
        <4>1. Len(words) - 1 \in 0..Len(words) /\ Len(words) \in Nat
          BY <3>3 DEF Words
        <4>. QED  BY <3>3, <4>1, FirstOf DEF Front
      <3>5. LastEnd(chunker.emitted, front) \/ LastEnd(chunker.emitted, words)
        BY <2>2, <3>2 DEF HeadOk, MidOf
      <3>. HIDE DEF words, front
      <3>6. chunker.emitted \in Nat /\ (chunker.emitted <= Len(front) \/ chunker.emitted <= Len(words))
        BY <3>3, <3>4, <3>5, EndsInText
      <3>7. chunker.emitted <= Len(words)
        BY <3>4, <3>6
      <3>. QED  BY <3>2, <3>7 DEF OffsetInText, words
    <2>3. Chained(trace.spoken)
      <3>. DEFINE b == Said(tts.box) \o chunker.todo
      <3>1. trace.spoken \in Seq(Sentence) /\ b \in Seq(Sentence) /\ Chained(trace.spoken \o b)
        BY <2>1, PathFields, VoiceIs DEF SpeechInv, Speech, Voice
      <3>. HIDE DEF b
      <3>. QED  BY <3>1, SpeechFront
    <2>. QED  BY <2>2, <2>3 DEF SpeechInOrder, Chained
  <1>2. Init => WorkInv /\ SpeechInv
    BY WorkInit, SpeechInit
  <1>3. WorkInv /\ SpeechInv /\ [Next]_vars => WorkInv' /\ SpeechInv'
    BY WorkNext, SpeechNext
  <1>. QED  BY <1>1, <1>2, <1>3, PTL DEF Spec

-----------------------------------------------------------------------------
(***************************************************************************)
(* The pipeline: the proofs of its parts.                                  *)
(***************************************************************************)

TurnP == INSTANCE RunLoopProofs WITH
    inb <- link0, out <- link1, loop <- turn, OnData <- TurnData, OnSystem <- TurnSystem,
    Failures <- {}, UpData <- InputData, UpSystem <- InputSystem, MaxIn <- MaxInput

AgentP == INSTANCE RunLoopProofs WITH
    inb <- link1, out <- link2, loop <- agent, OnData <- AgentData, OnSystem <- AgentSystem,
    UpData <- {}, UpSystem <- {}, MaxIn <- 0

PumpP == INSTANCE OutputPumpProofs WITH
    output <- link2, SentData <- {}, SentSystem <- {}, MaxSent <- 0

-----------------------------------------------------------------------------
(***************************************************************************)
(* What each part assumes of its constants holds of those it is given.     *)
(***************************************************************************)
LEMMA TurnDecides ==
    /\ Capacity \in Nat \ {0}
    /\ TurnData \in [TurnP!DataKinds -> SUBSET TurnP!Decision]
    /\ TurnSystem \in [TurnP!SysKinds -> SUBSET TurnP!Decision]
    /\ {} \subseteq BOOLEAN /\ InputData \subseteq TurnP!DataKinds
    /\ InputSystem \subseteq TurnP!SysKinds /\ MaxInput \in Nat
  <1>1. Forward \in TurnP!Decision
    BY DEF Forward, TurnP!Decision
  <1>2. [forward |-> FALSE, effects |-> <<"interrupt", "edge">>] \in TurnP!Decision
    <2>1. "interrupt" \in TurnP!EffectKinds /\ "edge" \in TurnP!EffectKinds
      BY DEF TurnP!EffectKinds, TurnP!DataKinds
    <2>2. <<"interrupt", "edge">> \in Seq(TurnP!EffectKinds)
      BY <2>1
    <2>. QED  BY <2>2 DEF TurnP!Decision
  <1>3. DataKinds = TurnP!DataKinds /\ SysKinds = TurnP!SysKinds
    BY DEF DataKinds, SysKinds, TurnP!DataKinds, TurnP!SysKinds
  <1>. QED  BY <1>1, <1>2, <1>3, PipelineAssumption DEF TurnData, TurnSystem

LEMMA AgentDecides ==
    /\ Capacity \in Nat \ {0}
    /\ AgentData \in [AgentP!DataKinds -> SUBSET AgentP!Decision]
    /\ AgentSystem \in [AgentP!SysKinds -> SUBSET AgentP!Decision]
    /\ Failures \subseteq BOOLEAN /\ {} \subseteq AgentP!DataKinds
    /\ {} \subseteq AgentP!SysKinds /\ 0 \in Nat
  BY PipelineAssumption
     DEF DataKinds, SysKinds, AgentP!DataKinds, AgentP!SysKinds,
     AgentP!Decision, AgentP!EffectKinds, Agent!Decision, Agent!EffectKinds,
     Agent!DataKinds, Agent!SysKinds

LEMMA PumpGiven == {} \subseteq PumpP!DataKinds /\ {} \subseteq PumpP!SysKinds /\ 0 \in Nat
  OBVIOUS

-----------------------------------------------------------------------------
(***************************************************************************)
(* The parts of the specification and the instances of their proofs speak  *)
(* of the same things.                                                     *)
(***************************************************************************)
LEMMA SameTurnInv == Barge!IInv <=> TurnP!IInv
  BY DEF
     Barge!SysKinds, Barge!DataKinds, Barge!SysFrame, Barge!DataFrame, Barge!LinkType,
     Barge!EffectKinds, Barge!PCs, Barge!NoFrame, Barge!InHand, Barge!LoopType,
     Barge!SurvivesFlush,
     Barge!Kept, Barge!Frames, Barge!Ascending, Barge!Precede, Barge!TypeOK, Barge!Handling,
     Barge!Locals, Barge!SystemWaiting, Barge!InOrder, Barge!NoStaleBacklog, Barge!Causes,
     Barge!IInv, TurnP!SysKinds, TurnP!DataKinds, TurnP!SysFrame, TurnP!DataFrame,
     TurnP!LinkType, TurnP!EffectKinds, TurnP!PCs, TurnP!NoFrame, TurnP!InHand, TurnP!LoopType,
     TurnP!SurvivesFlush, TurnP!Kept, TurnP!Frames, TurnP!Ascending, TurnP!Precede,
     TurnP!TypeOK, TurnP!Handling, TurnP!Locals, TurnP!SystemWaiting, TurnP!InOrder,
     TurnP!NoStaleBacklog, TurnP!Causes, TurnP!IInv

LEMMA SameTurnNext == Barge!LoopNext <=> TurnP!LoopNext
  BY DEF
     Barge!DataKinds, Barge!NoFrame, Barge!SurvivesFlush, Barge!Kept, Barge!SendData,
     Barge!SendSystem, Barge!Flushed, Barge!PopSys, Barge!PopData, Barge!Drained,
     Barge!DropInbound,
     Barge!DropOutbound, Barge!Later, Barge!Ready, Barge!HandleSystem, Barge!HandleData,
     Barge!PerformNext, Barge!EmitError, Barge!Return, Barge!Judge, Barge!Settled,
     Barge!TakeSystem,
     Barge!TakePending, Barge!TakeData, Barge!Finish, Barge!Forwarded, Barge!Perform,
     Barge!PerformDone, Barge!PerformFails, Barge!ErrorSent, Barge!Preempt, Barge!Stash,
     Barge!SystemPerform, Barge!SystemPerformFails, Barge!SystemHandled, Barge!RetainPending,
     Barge!FlushData, Barge!FlushEnds, Barge!SettleStashed, Barge!SettleInterrupt, Barge!Continue,
     Barge!Break, Barge!Performing, Barge!Looping, Barge!LoopNext, TurnP!DataKinds, TurnP!NoFrame,
     TurnP!SurvivesFlush, TurnP!Kept, TurnP!SendData, TurnP!SendSystem, TurnP!Flushed,
     TurnP!PopSys, TurnP!PopData, TurnP!Drained, TurnP!DropInbound, TurnP!DropOutbound,
     TurnP!Later, TurnP!Ready, TurnP!HandleSystem, TurnP!HandleData, TurnP!PerformNext,
     TurnP!EmitError, TurnP!Return, TurnP!Judge, TurnP!Settled, TurnP!TakeSystem,
     TurnP!TakePending, TurnP!TakeData, TurnP!Finish, TurnP!Forwarded, TurnP!Perform,
     TurnP!PerformDone, TurnP!PerformFails, TurnP!ErrorSent, TurnP!Preempt, TurnP!Stash,
     TurnP!SystemPerform, TurnP!SystemPerformFails, TurnP!SystemHandled, TurnP!RetainPending,
     TurnP!FlushData, TurnP!FlushEnds, TurnP!SettleStashed, TurnP!SettleInterrupt,
     TurnP!Continue, TurnP!Break, TurnP!Performing, TurnP!Looping, TurnP!LoopNext

LEMMA SameAgentInv == Agent!IInv <=> AgentP!IInv
  BY DEF
     Agent!SysKinds, Agent!DataKinds, Agent!SysFrame, Agent!DataFrame, Agent!LinkType,
     Agent!EffectKinds, Agent!PCs, Agent!NoFrame, Agent!InHand, Agent!LoopType,
     Agent!SurvivesFlush, Agent!Kept, Agent!Frames, Agent!Ascending, Agent!Precede,
     Agent!TypeOK, Agent!Handling, Agent!Locals, Agent!SystemWaiting, Agent!InOrder,
     Agent!NoStaleBacklog, Agent!Causes, Agent!IInv, AgentP!SysKinds, AgentP!DataKinds,
     AgentP!SysFrame, AgentP!DataFrame, AgentP!LinkType, AgentP!EffectKinds, AgentP!PCs,
     AgentP!NoFrame, AgentP!InHand, AgentP!LoopType, AgentP!SurvivesFlush, AgentP!Kept,
     AgentP!Frames, AgentP!Ascending, AgentP!Precede, AgentP!TypeOK, AgentP!Handling,
     AgentP!Locals, AgentP!SystemWaiting, AgentP!InOrder, AgentP!NoStaleBacklog, AgentP!Causes,
     AgentP!IInv

LEMMA SameAgentNext == Agent!LoopNext <=> AgentP!LoopNext
  BY DEF
     Agent!DataKinds, Agent!NoFrame, Agent!SurvivesFlush, Agent!Kept, Agent!SendData,
     Agent!SendSystem, Agent!Flushed, Agent!PopSys, Agent!PopData, Agent!Drained,
     Agent!DropInbound, Agent!DropOutbound, Agent!Later, Agent!Ready, Agent!HandleSystem,
     Agent!HandleData, Agent!PerformNext, Agent!EmitError, Agent!Return, Agent!Judge,
     Agent!Settled, Agent!TakeSystem, Agent!TakePending, Agent!TakeData, Agent!Finish,
     Agent!Forwarded, Agent!Perform, Agent!PerformDone, Agent!PerformFails, Agent!ErrorSent,
     Agent!Preempt, Agent!Stash, Agent!SystemPerform, Agent!SystemPerformFails,
     Agent!SystemHandled, Agent!RetainPending, Agent!FlushData, Agent!FlushEnds,
     Agent!SettleStashed, Agent!SettleInterrupt, Agent!Continue, Agent!Break, Agent!Performing,
     Agent!Looping, Agent!LoopNext, AgentP!DataKinds, AgentP!NoFrame, AgentP!SurvivesFlush,
     AgentP!Kept, AgentP!SendData, AgentP!SendSystem, AgentP!Flushed, AgentP!PopSys,
     AgentP!PopData, AgentP!Drained, AgentP!DropInbound, AgentP!DropOutbound, AgentP!Later,
     AgentP!Ready, AgentP!HandleSystem, AgentP!HandleData, AgentP!PerformNext,
     AgentP!EmitError, AgentP!Return, AgentP!Judge, AgentP!Settled, AgentP!TakeSystem,
     AgentP!TakePending, AgentP!TakeData, AgentP!Finish, AgentP!Forwarded, AgentP!Perform,
     AgentP!PerformDone, AgentP!PerformFails, AgentP!ErrorSent, AgentP!Preempt, AgentP!Stash,
     AgentP!SystemPerform, AgentP!SystemPerformFails, AgentP!SystemHandled,
     AgentP!RetainPending, AgentP!FlushData, AgentP!FlushEnds, AgentP!SettleStashed,
     AgentP!SettleInterrupt, AgentP!Continue, AgentP!Break, AgentP!Performing, AgentP!Looping,
     AgentP!LoopNext

LEMMA SamePumpInv == Pump!PumpInv <=> PumpP!PumpInv
  BY DEF
     Pump!SysKinds, Pump!DataKinds, Pump!SysFrame, Pump!DataFrame, Pump!LinkType, Pump!NoChunk,
     Pump!PumpType, Pump!SurvivesFlush, Pump!Kept, Pump!Frames, Pump!Ascending, Pump!Precede,
     Pump!TypeOK, Pump!Ordered, Pump!NothingStaleAudible, Pump!NothingStaleHeld,
     Pump!Interrupts, Pump!CausesInOrder, Pump!PumpInv, PumpP!SysKinds, PumpP!DataKinds,
     PumpP!SysFrame, PumpP!DataFrame, PumpP!LinkType, PumpP!NoChunk, PumpP!PumpType,
     PumpP!SurvivesFlush, PumpP!Kept, PumpP!Frames, PumpP!Ascending, PumpP!Precede,
     PumpP!TypeOK, PumpP!Ordered, PumpP!NothingStaleAudible, PumpP!NothingStaleHeld,
     PumpP!Interrupts, PumpP!CausesInOrder, PumpP!PumpInv

LEMMA SamePumpNext == Pump!PumpNext <=> PumpP!PumpNext
  BY DEF
     Pump!SurvivesFlush, Pump!Kept, Pump!Retain, Pump!Frames, Pump!FlushedData, Pump!Durables,
     Pump!PopSys, Pump!PopData, Pump!Drained, Pump!DropInbound, Pump!NoChunk, Pump!ApplySystem,
     Pump!Begin, Pump!TakePending, Pump!TakeSystem, Pump!TakeData, Pump!RaceTakesSystem,
     Pump!RaceSeesClose, Pump!Pushing, Pump!Push, Pump!PlayDone, Pump!Leave, Pump!PlayFails,
     Pump!Finish, Pump!DeviceDiscards, Pump!DevicePlays, Pump!Pumping, Pump!Device,
     Pump!PumpNext, PumpP!SurvivesFlush, PumpP!Kept, PumpP!Retain, PumpP!Frames,
     PumpP!FlushedData, PumpP!Durables, PumpP!PopSys, PumpP!PopData, PumpP!Drained,
     PumpP!DropInbound, PumpP!NoChunk, PumpP!ApplySystem, PumpP!Begin, PumpP!TakePending,
     PumpP!TakeSystem, PumpP!TakeData, PumpP!RaceTakesSystem, PumpP!RaceSeesClose,
     PumpP!Pushing, PumpP!Push, PumpP!PlayDone, PumpP!Leave, PumpP!PlayFails, PumpP!Finish,
     PumpP!DeviceDiscards, PumpP!DevicePlays, PumpP!Pumping, PumpP!Device, PumpP!PumpNext

LEMMA SameInput ==
    /\ Barge!UpstreamSendsData <=> TurnP!UpstreamSendsData
    /\ Barge!UpstreamSendsSystem <=> TurnP!UpstreamSendsSystem
    /\ Barge!UpstreamCloses <=> TurnP!UpstreamCloses
  BY DEF
     Barge!SysKinds, Barge!DataKinds, Barge!SendData, Barge!SendSystem, Barge!DropOutbound,
     Barge!UpstreamSendsData, Barge!UpstreamSendsSystem, Barge!UpstreamCloses, TurnP!SysKinds,
     TurnP!DataKinds, TurnP!SendData, TurnP!SendSystem, TurnP!DropOutbound,
     TurnP!UpstreamSendsData, TurnP!UpstreamSendsSystem, TurnP!UpstreamCloses

LEMMA SameLinks ==
    /\ TurnP!LinkType = AgentP!LinkType /\ AgentP!LinkType = PumpP!LinkType
    /\ \A l, m : TurnP!Sent(l, m) => AgentP!Sent(l, m)
    /\ \A l, m : AgentP!Sent(l, m) => PumpP!Sent(l, m)
    /\ \A l, m : AgentP!Drawn(l, m) => TurnP!Drawn(l, m)
    /\ \A l, m : PumpP!Drawn(l, m) => AgentP!Drawn(l, m)
  <1>1. /\ TurnP!SysFrame = AgentP!SysFrame /\ AgentP!SysFrame = PumpP!SysFrame
        /\ TurnP!DataFrame = AgentP!DataFrame /\ AgentP!DataFrame = PumpP!DataFrame
    BY DEF TurnP!SysFrame, AgentP!SysFrame, PumpP!SysFrame,
       TurnP!DataFrame, AgentP!DataFrame, PumpP!DataFrame, TurnP!SysKinds, AgentP!SysKinds,
       PumpP!SysKinds, TurnP!DataKinds, AgentP!DataKinds, PumpP!DataKinds
  <1>2. TurnP!LinkType = AgentP!LinkType /\ AgentP!LinkType = PumpP!LinkType
    BY <1>1 DEF TurnP!LinkType, AgentP!LinkType, PumpP!LinkType
  <1>3. ASSUME NEW l, NEW m
        PROVE  /\ TurnP!Sent(l, m) => AgentP!Sent(l, m)
               /\ AgentP!Sent(l, m) => PumpP!Sent(l, m)
    BY <1>1 DEF TurnP!Sent, AgentP!Sent, PumpP!Sent
  <1>4. ASSUME NEW l, NEW m
        PROVE  /\ AgentP!Drawn(l, m) => TurnP!Drawn(l, m)
               /\ PumpP!Drawn(l, m) => AgentP!Drawn(l, m)
    BY DEF TurnP!Drawn, AgentP!Drawn, PumpP!Drawn
  <1>. QED  BY <1>2, <1>3, <1>4

-----------------------------------------------------------------------------
(***************************************************************************)
(* The invariant.                                                          *)
(***************************************************************************)
Parts == TurnP!IInv /\ AgentP!IInv /\ PumpP!PumpInv

LEMMA PartsType ==
    ASSUME Parts
    PROVE  TurnP!TypeOK /\ AgentP!TypeOK /\ PumpP!TypeOK
  BY DEF Parts, TurnP!IInv, AgentP!IInv, PumpP!PumpInv

\* turn's own steps, its input's and those that leave it alone keep its invariant; likewise
\* the agent's.
LEMMA TurnKeeps ==
    ASSUME TurnP!IInv,
           \/ TurnP!LoopNext \/ TurnP!UpstreamSendsData \/ TurnP!UpstreamSendsSystem
           \/ TurnP!UpstreamCloses \/ UNCHANGED <<link0, link1, turn>>
    PROVE  TurnP!IInv'
  <1>1. [TurnP!Next]_(TurnP!vars)
    BY DEF TurnP!Next, TurnP!Neighbours, TurnP!vars
  <1>. QED  BY <1>1, TurnDecides, TurnP!IInvStep

LEMMA AgentKeeps ==
    ASSUME AgentP!IInv, AgentP!LoopNext \/ UNCHANGED <<link1, link2, agent>>
    PROVE  AgentP!IInv'
  <1>1. [AgentP!Next]_(AgentP!vars)
    BY DEF AgentP!Next, AgentP!vars
  <1>. QED  BY <1>1, AgentDecides, AgentP!IInvStep

LEMMA PartsInit ==
    ASSUME PipelineInit
    PROVE  Parts
  <1>1. TurnP!Init /\ AgentP!Init
    BY DEF PipelineInit, NewLink, Barge!Init, Barge!NewLink, Barge!NewLoop, Barge!NoFrame,
       TurnP!Init, TurnP!NewLink, TurnP!NewLoop, TurnP!NoFrame,
       AgentP!Init, AgentP!NewLink, AgentP!NewLoop, AgentP!NoFrame
  <1>2. PumpP!Init
    BY DEF PipelineInit, NewLink, Pump!NewPump, Pump!NoChunk, PumpP!Init, PumpP!NewLink,
       PumpP!NewPump, PumpP!NoChunk
  <1>. QED
    BY <1>1, <1>2, TurnDecides, AgentDecides, PumpGiven, TurnP!IInvInit, AgentP!IInvInit,
       PumpP!PumpInit DEF Parts

LEMMA TurnStep ==
    ASSUME Parts, TurnSteps
    PROVE  Parts'
  <1>1. TurnP!LoopNext /\ link2' = link2 /\ agent' = agent /\ pump' = pump
    BY SameTurnNext DEF TurnSteps
  <1>2. TurnP!IInv'
    BY <1>1, TurnKeeps DEF Parts
  <1>3. AgentP!Sent(link1, link1')
    BY <1>1, <1>2, TurnDecides, TurnP!LoopSent, SameLinks DEF Parts
  <1>4. AgentP!TypeOK'
    BY <1>1, <1>2, PartsType, SameLinks DEF TurnP!IInv, TurnP!TypeOK, AgentP!TypeOK
  <1>5. AgentP!IInv'
    BY <1>1, <1>3, <1>4, AgentDecides, AgentP!ArrivalKeeps DEF Parts, AgentP!Arrival
  <1>6. PumpP!PumpInv'
    BY <1>1, PumpGiven, PumpP!PumpRests DEF Parts, PumpP!vars
  <1>. QED  BY <1>2, <1>5, <1>6 DEF Parts

LEMMA AgentStep ==
    ASSUME Parts, AgentSteps
    PROVE  Parts'
  <1>1. AgentP!LoopNext /\ link0' = link0 /\ turn' = turn /\ pump' = pump
    BY SameAgentNext DEF AgentSteps
  <1>2. AgentP!IInv'
    BY <1>1, AgentKeeps DEF Parts
  <1>3. TurnP!Drawn(link1, link1')
    BY <1>1, PartsType, AgentDecides, AgentP!LoopDraws, SameLinks
  <1>4. PumpP!Sent(link2, link2')
    BY <1>1, <1>2, AgentDecides, AgentP!LoopSent, SameLinks DEF Parts
  <1>5. TurnP!TypeOK' /\ PumpP!TypeOK'
    BY <1>1, <1>2, PartsType, SameLinks
       DEF AgentP!IInv, TurnP!TypeOK, AgentP!TypeOK, PumpP!TypeOK
  <1>6. TurnP!IInv'
    BY <1>1, <1>3, <1>5, TurnDecides, TurnP!DrawnKeeps DEF Parts
  <1>7. PumpP!PumpInv'
    BY <1>1, <1>4, <1>5, PumpGiven, PumpP!TailArrivalKeeps DEF Parts, PumpP!TailArrival
  <1>. QED  BY <1>2, <1>6, <1>7 DEF Parts

LEMMA PumpsStep ==
    ASSUME Parts, PumpSteps
    PROVE  Parts'
  <1>1. PumpP!PumpNext /\ UNCHANGED <<link0, link1, turn, agent>>
    BY SamePumpNext DEF PumpSteps
  <1>2. PumpP!PumpInv'
    BY <1>1, PumpGiven, PumpP!PumpStep DEF Parts
  <1>3. AgentP!Drawn(link2, link2')
    BY <1>1, PartsType, PumpGiven, PumpP!PumpDraws, SameLinks
  <1>4. AgentP!TypeOK'
    BY <1>1, <1>2, PartsType, SameLinks DEF PumpP!PumpInv, PumpP!TypeOK, AgentP!TypeOK
  <1>5. AgentP!IInv'
    BY <1>1, <1>3, <1>4, AgentDecides, AgentP!DrawnKeeps DEF Parts
  <1>6. TurnP!IInv'
    BY <1>1, TurnKeeps DEF Parts
  <1>. QED  BY <1>2, <1>5, <1>6 DEF Parts

LEMMA InputStep ==
    ASSUME Parts, InputSends \/ InputCloses \/ UNCHANGED pipelineVars
    PROVE  Parts'
  <1>1. /\ \/ TurnP!UpstreamSendsData \/ TurnP!UpstreamSendsSystem \/ TurnP!UpstreamCloses
           \/ UNCHANGED <<link0, link1, turn>>
        /\ link2' = link2 /\ agent' = agent /\ pump' = pump
    BY SameInput DEF InputSends, InputCloses, pipelineVars
  <1>2. link1' = link1
    BY <1>1 DEF TurnP!UpstreamSendsData, TurnP!UpstreamSendsSystem, TurnP!UpstreamCloses
  <1>3. TurnP!IInv'
    BY <1>1, TurnKeeps DEF Parts
  <1>4. AgentP!IInv'
    BY <1>1, <1>2, AgentKeeps DEF Parts
  <1>5. PumpP!PumpInv'
    BY <1>1, PumpGiven, PumpP!PumpRests DEF Parts, PumpP!vars
  <1>. QED  BY <1>3, <1>4, <1>5 DEF Parts

\* Barge-in, end to end: whatever the agent decides, wherever its sends wait and however
\* long a chunk plays, nothing is heard that was decided before the Interrupt the pump
\* has applied, and every part keeps its own invariant.
THEOREM BargeInHolds == PipelineSpec => []BargeInComposes
  <1>1. PipelineInit => Parts
    BY PartsInit
  <1>2. Parts /\ [PipelineNext]_pipelineVars => Parts'
    BY TurnStep, AgentStep, PumpsStep, InputStep DEF PipelineNext, Ended
  <1>3. Parts => BargeInComposes
    <2>. SUFFICES ASSUME Parts PROVE BargeInComposes
      OBVIOUS
    <2>1. PartsInvariant
      BY SameTurnInv, SameAgentInv, SamePumpInv DEF Parts, PartsInvariant
    <2>2. /\ pump.pc = "playing" => pump.heard <= pump.chunk.ep
          /\ ~pump.discard => \A chunk \in pump.ring : pump.heard <= chunk.ep
      BY DEF Parts, PumpP!PumpInv, PumpP!CausesInOrder
    <2>3. /\ pump.heard \in Nat /\ pump.chunk.ep \in Nat
          /\ \A chunk \in pump.ring : chunk.ep \in Nat
      BY PartsType DEF PumpP!TypeOK, PumpP!PumpType, PumpP!DataFrame, PumpP!NoChunk
    <2>4. NothingStaleHeard
      BY <2>2, <2>3 DEF NothingStaleHeard
    <2>. QED  BY <2>1, <2>4 DEF BargeInComposes
  <1>. QED  BY <1>1, <1>2, <1>3, PTL DEF PipelineSpec

-----------------------------------------------------------------------------
(***************************************************************************)
(* An utterance outlives the barge-in it causes.                           *)
(***************************************************************************)
\* No frame queued at the agent comes after more Interrupts than turn has handled or sent,
\* and one that comes after every Interrupt sent down the link is behind all of them there,
\* and behind the one the agent flushes by.
UtteranceInv ==
    /\ Parts
    /\ TurnP!Abreast
    /\ \A f \in AgentP!Backlog : f.ep <= turn.epoch
    /\ \A f \in AgentP!Backlog :
         f.ep >= link1.ep => /\ agent.cut < f.seq
                             /\ \A g \in AgentP!Barging : g.seq < f.seq

LEMMA TurnForwards == \A kind \in TurnP!SysKinds : \A d \in TurnSystem[kind] : d.effects = <<>>
  BY DEF TurnSystem, Forward, SysKinds, TurnP!SysKinds

LEMMA UtteranceTypes ==
    ASSUME Parts
    PROVE  /\ link1 \in TurnP!LinkType /\ link1 \in AgentP!LinkType
           /\ link1.data \in Seq(AgentP!DataFrame) /\ link1.sys \in Seq(AgentP!SysFrame)
           /\ link1.next \in Nat /\ link1.ep \in Nat /\ turn.epoch \in Nat /\ agent.cut \in Nat
           /\ link1.rx \in BOOLEAN
           /\ \A f \in AgentP!Backlog : f.ep \in Nat /\ f.seq \in Nat /\ f.seq < link1.next
           /\ \A g \in AgentP!Barging : g.seq \in Nat /\ g.seq < link1.next
           /\ agent.cut < link1.next
  <1>1. TurnP!TypeOK /\ AgentP!TypeOK /\ AgentP!IInv
    BY PartsType DEF Parts
  <1>2. /\ link1 \in TurnP!LinkType /\ link1 \in AgentP!LinkType
        /\ link1.data \in Seq(AgentP!DataFrame) /\ link1.sys \in Seq(AgentP!SysFrame)
        /\ link1.next \in Nat /\ link1.ep \in Nat /\ link1.rx \in BOOLEAN
    BY <1>1 DEF TurnP!TypeOK, AgentP!TypeOK, AgentP!LinkType
  <1>3. turn.epoch \in Nat /\ agent.cut \in Nat
    BY <1>1 DEF TurnP!TypeOK, AgentP!TypeOK, TurnP!LoopType, AgentP!LoopType
  <1>4. \A f \in AgentP!Backlog : f.ep \in Nat /\ f.seq \in Nat /\ f.seq < link1.next
    BY <1>1, AgentDecides, AgentP!WaitingType DEF AgentP!DataFrame
  <1>5. \A g \in AgentP!Barging : g.seq \in Nat
    BY <1>1, AgentDecides, AgentP!BargingType
  <1>6. agent.cut < link1.next /\ \A g \in AgentP!Barging : g.seq < link1.next
    BY <1>1 DEF AgentP!IInv, AgentP!InOrder, AgentP!Barging
  <1>. QED  BY <1>2, <1>3, <1>4, <1>5, <1>6

LEMMA TurnUtters ==
    ASSUME UtteranceInv, TurnSteps
    PROVE  UtteranceInv'
  <1>1. TurnP!LoopNext /\ agent' = agent
    BY SameTurnNext DEF TurnSteps
  <1>2. Parts /\ Parts'
    BY TurnStep DEF UtteranceInv
  <1>3. TurnP!Abreast' /\ TurnP!SendsAbreast /\ turn'.epoch >= turn.epoch
    BY <1>1, <1>2, TurnDecides, TurnForwards, TurnP!AbreastLoop DEF Parts, UtteranceInv
  <1>4. /\ link1 \in TurnP!LinkType /\ link1.data \in Seq(AgentP!DataFrame)
        /\ link1.sys \in Seq(AgentP!SysFrame) /\ link1.rx \in BOOLEAN
        /\ link1.next \in Nat /\ link1.ep \in Nat /\ turn.epoch \in Nat /\ turn'.epoch \in Nat
        /\ agent.cut \in Nat
        /\ \A f \in AgentP!Backlog : f.ep \in Nat /\ f.seq \in Nat /\ f.seq < link1.next
        /\ \A g \in AgentP!Barging : g.seq \in Nat /\ g.seq < link1.next
        /\ agent.cut < link1.next
    <2>1. turn'.epoch \in Nat
      BY <1>2 DEF Parts, TurnP!IInv, TurnP!TypeOK, TurnP!LoopType
    <2>. QED  BY <1>2, <2>1, UtteranceTypes
  <1>5. \A f \in AgentP!Backlog : f.ep <= turn'.epoch
    BY <1>3, <1>4 DEF UtteranceInv
  <1>6. CASE TurnP!SendsNothing
    <2>1. link1'.data = link1.data /\ link1'.sys = link1.sys /\ link1'.ep = link1.ep
      BY <1>6 DEF TurnP!SendsNothing
    <2>2. AgentP!Backlog' = AgentP!Backlog /\ AgentP!Barging' = AgentP!Barging
      BY <1>1, <2>1 DEF AgentP!Backlog, AgentP!Barging
    <2>. QED  BY <1>1, <1>2, <1>3, <1>5, <2>1, <2>2 DEF UtteranceInv
  <1>7. ASSUME NEW kind \in TurnP!SysKinds, NEW ep \in Nat,
               link1' = TurnP!SendSystem(link1, kind, ep),
               kind = "interrupt" => ep > turn.epoch
        PROVE  UtteranceInv'
    <2>. DEFINE frame == [seq |-> link1.next, kind |-> kind, ep |-> ep]
    <2>1. /\ link1'.data = link1.data /\ link1'.ep = (IF kind = "interrupt" THEN ep ELSE link1.ep)
          /\ link1'.sys = IF link1.rx THEN Append(link1.sys, frame) ELSE link1.sys
      BY <1>4, <1>7, TurnDecides, TurnP!SendSystemEffect
    <2>2. frame \in AgentP!SysFrame /\ frame.kind = kind
      BY <1>4, <1>7 DEF AgentP!SysFrame, AgentP!SysKinds, TurnP!SysKinds
    <2>. HIDE DEF frame
    <2>3. AgentP!Frames(Append(link1.sys, frame)) = AgentP!Frames(link1.sys) \cup {frame}
      BY <1>4, <2>2, AgentDecides, AgentP!FramesOfAppend
    <2>4. AgentP!Backlog' = AgentP!Backlog
      BY <1>1, <2>1 DEF AgentP!Backlog
    <2>5. CASE kind = "interrupt"
      <3>1. \A f \in AgentP!Backlog' : ~(f.ep >= link1'.ep)
        BY <1>4, <1>7, <2>1, <2>4, <2>5 DEF UtteranceInv
      <3>. QED  BY <1>2, <1>3, <1>5, <2>4, <3>1 DEF UtteranceInv
    <2>6. CASE kind /= "interrupt"
      <3>1. AgentP!Barging' = AgentP!Barging /\ link1'.ep = link1.ep
        BY <1>1, <1>4, <2>1, <2>2, <2>3, <2>6 DEF AgentP!Barging
      <3>. QED  BY <1>1, <1>2, <1>3, <1>5, <2>4, <3>1 DEF UtteranceInv
    <2>. QED  BY <2>5, <2>6
  <1>8. ASSUME NEW kind \in TurnP!DataKinds, NEW ep \in Nat,
               link1' = TurnP!SendData(link1, kind, ep), ep <= turn'.epoch
        PROVE  UtteranceInv'
    <2>. DEFINE frame == [seq |-> link1.next, kind |-> kind, ep |-> ep]
    <2>1. /\ link1'.sys = link1.sys /\ link1'.ep = link1.ep
          /\ link1'.data = IF link1.rx THEN Append(link1.data, frame) ELSE link1.data
      BY <1>4, <1>8, TurnDecides, TurnP!SendDataEffect
    <2>2. frame \in AgentP!DataFrame /\ frame.seq = link1.next /\ frame.ep = ep
      BY <1>4, <1>8 DEF AgentP!DataFrame, AgentP!DataKinds, TurnP!DataKinds
    <2>. HIDE DEF frame
    <2>3. AgentP!Frames(Append(link1.data, frame)) = AgentP!Frames(link1.data) \cup {frame}
      BY <1>4, <2>2, AgentDecides, AgentP!FramesOfAppend
    <2>4. \A f \in AgentP!Backlog' : f \in AgentP!Backlog \/ f = frame
      BY <1>1, <1>4, <2>1, <2>3 DEF AgentP!Backlog
    <2>5. AgentP!Barging' = AgentP!Barging
      BY <1>1, <2>1 DEF AgentP!Barging
    <2>6. \A f \in AgentP!Backlog' : f.ep <= turn'.epoch
      BY <1>5, <1>8, <2>2, <2>4
    <2>7. \A f \in AgentP!Backlog' :
            f.ep >= link1'.ep => /\ agent'.cut < f.seq
                                 /\ \A g \in AgentP!Barging' : g.seq < f.seq
      BY <1>1, <1>4, <2>1, <2>2, <2>4, <2>5 DEF UtteranceInv
    <2>. QED  BY <1>2, <1>3, <2>6, <2>7 DEF UtteranceInv
  <1>. QED  BY <1>3, <1>6, <1>7, <1>8 DEF TurnP!SendsAbreast

LEMMA AgentUtters ==
    ASSUME UtteranceInv, AgentSteps
    PROVE  UtteranceInv'
  <1>1. AgentP!LoopNext /\ link0' = link0 /\ turn' = turn
    BY SameAgentNext DEF AgentSteps
  <1>2. Parts /\ Parts'
    BY AgentStep DEF UtteranceInv
  <1>3. /\ AgentP!Backlog' \subseteq AgentP!Backlog /\ AgentP!Barging' \subseteq AgentP!Barging
        /\ agent'.cut = agent.cut \/ \E g \in AgentP!Barging : agent'.cut = g.seq
    BY <1>1, <1>2, AgentDecides, AgentP!BacklogStep, AgentP!BargingStep DEF Parts
  <1>4. link1'.ep = link1.ep
    BY <1>1, <1>2, PartsType, AgentDecides, AgentP!LoopDraws DEF AgentP!Drawn
  <1>5. TurnP!Abreast'
    BY <1>1, <1>4 DEF UtteranceInv, TurnP!Abreast, TurnP!Backlog, TurnP!Barging
  <1>. QED  BY <1>1, <1>2, <1>3, <1>4, <1>5 DEF UtteranceInv

LEMMA OthersUtter ==
    ASSUME UtteranceInv, PumpSteps \/ InputSends \/ InputCloses \/ UNCHANGED pipelineVars
    PROVE  UtteranceInv' /\ AgentP!Backlog' = AgentP!Backlog
  <1>1. Parts'
    BY PumpsStep, InputStep DEF UtteranceInv
  <1>2. /\ link1' = link1 /\ agent' = agent /\ turn' = turn
        /\ \/ link0' = link0
           \/ TurnP!UpstreamSendsData \/ TurnP!UpstreamSendsSystem \/ TurnP!UpstreamCloses
    BY SameInput DEF PumpSteps, InputSends, InputCloses, pipelineVars,
       Barge!UpstreamSendsData, Barge!UpstreamSendsSystem, Barge!UpstreamCloses
  <1>3. TurnP!Abreast'
    <2>1. CASE link0' = link0
      BY <1>2, <2>1 DEF UtteranceInv, TurnP!Abreast, TurnP!Backlog, TurnP!Barging
    <2>2. CASE link0' /= link0
      BY <1>2, <2>2, TurnDecides, TurnP!AbreastArrival DEF UtteranceInv, Parts
    <2>. QED  BY <2>1, <2>2
  <1>4. AgentP!Backlog' = AgentP!Backlog /\ AgentP!Barging' = AgentP!Barging
    BY <1>2 DEF AgentP!Backlog, AgentP!Barging
  <1>. QED  BY <1>1, <1>2, <1>3, <1>4 DEF UtteranceInv

LEMMA UtteranceInit ==
    ASSUME PipelineInit
    PROVE  UtteranceInv
  <1>1. /\ link1.data = <<>> /\ link0.data = <<>> /\ link0.ep = 0
        /\ agent.kept = <<>> /\ agent.pending = <<>> /\ turn.kept = <<>> /\ turn.pending = <<>>
        /\ turn.pc = "recv" /\ turn.epoch = 0
    BY DEF PipelineInit, NewLink, Barge!Init, Barge!NewLink, Barge!NewLoop
  <1>2. AgentP!Backlog = {} /\ TurnP!Backlog = {}
    BY <1>1 DEF AgentP!Backlog, AgentP!Frames, TurnP!Backlog, TurnP!Frames
  <1>3. TurnP!Abreast
    BY <1>1, <1>2 DEF TurnP!Abreast
  <1>. QED  BY <1>2, <1>3, PartsInit DEF UtteranceInv

LEMMA UtteranceStep == UtteranceInv /\ [PipelineNext]_pipelineVars => UtteranceInv'
  BY TurnUtters, AgentUtters, OthersUtter DEF PipelineNext, Ended

\* What a step may take from the agent's queue.
LEMMA Uttered ==
    ASSUME UtteranceInv, [PipelineNext]_pipelineVars
    PROVE  \A f \in AgentBacklog :
             f.ep >= link1.ep /\ f \notin AgentBacklog' =>
               agent'.cur.seq = f.seq \/ agent'.pc = "done"
  <1>1. AgentBacklog = AgentP!Backlog /\ AgentBacklog' = AgentP!Backlog'
    BY DEF AgentBacklog, AgentP!Backlog, Frames, AgentP!Frames
  <1>2. CASE TurnSteps
    <2>1. agent' = agent /\ TurnP!LoopNext /\ Parts /\ Parts'
      BY <1>2, SameTurnNext, TurnStep DEF TurnSteps, UtteranceInv
    <2>2. AgentP!Sent(link1, link1')
      BY <2>1, TurnDecides, TurnP!LoopSent, SameLinks DEF Parts
    <2>3. link1.data \in Seq(AgentP!DataFrame)
      BY <2>1, UtteranceTypes
    <2>4. \A frame \in AgentP!DataFrame :
            AgentP!Frames(Append(link1.data, frame)) = AgentP!Frames(link1.data) \cup {frame}
      BY <2>3, AgentDecides, AgentP!FramesOfAppend
    <2>5. AgentP!Frames(link1.data) \subseteq AgentP!Frames(link1'.data)
      BY <2>2, <2>4 DEF AgentP!Sent
    <2>. QED  BY <1>1, <2>1, <2>5 DEF AgentP!Backlog
  <1>3. CASE AgentSteps
    <2>1. AgentP!LoopNext /\ AgentP!IInv /\ Parts
      BY <1>3, SameAgentNext DEF AgentSteps, UtteranceInv, Parts
    <2>2. \A f \in AgentP!Backlog :
            \/ f \in AgentP!Backlog' \/ agent'.cur.seq = f.seq \/ agent'.pc = "done"
            \/ f.seq < agent.cut
      BY <2>1, AgentDecides, AgentP!BacklogStep
    <2>3. \A f \in AgentP!Backlog : f.ep >= link1.ep => ~(f.seq < agent.cut)
      BY <2>1, UtteranceTypes DEF UtteranceInv
    <2>. QED  BY <1>1, <2>2, <2>3
  <1>4. CASE PumpSteps \/ InputSends \/ InputCloses \/ UNCHANGED pipelineVars
    BY <1>1, <1>4, OthersUtter
  <1>. QED  BY <1>2, <1>3, <1>4 DEF PipelineNext, Ended

\* The utterance outlives the barge-in it causes: whatever Interrupts are on their way to the
\* agent, from the stage that raises them or from the application, none takes from its queue
\* a frame that came after the last of them (BargeInStage's re-emitted edge, stage.rs).
THEOREM UtteranceIsKept == PipelineSpec => UtteranceSurvives
  <1>1. UtteranceInv /\ [PipelineNext]_pipelineVars =>
          [\A f \in AgentBacklog :
             f.ep >= link1.ep /\ f \notin AgentBacklog' =>
               agent'.cur.seq = f.seq \/ agent'.pc = "done"]_pipelineVars
    BY Uttered
  <1>2. PipelineInit => UtteranceInv
    BY UtteranceInit
  <1>. QED  BY <1>1, <1>2, UtteranceStep, PTL DEF PipelineSpec, UtteranceSurvives
=============================================================================
