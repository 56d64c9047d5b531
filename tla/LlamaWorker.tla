----------------------------- MODULE LlamaWorker -----------------------------
(***************************************************************************)
(* The inference thread of pipecrab-lm-llamacpp (worker.rs).               *)
(*                                                                         *)
(* generate and cancel only advance an epoch and queue a command; the      *)
(* thread serves the commands one after the other and abandons the one     *)
(* whose epoch is passed, at the next of its checks.  From one command to  *)
(* the next it keeps what llama.cpp has decoded in the KV cache, and a     *)
(* record of it, processed, to decode only what a prompt adds.             *)
(*                                                                         *)
(* A token stands for a message of the conversation or a word of a reply:  *)
(* <<t, 0>> is the user's message of turn t, <<t, i>> word i of the reply  *)
(* to it.                                                                  *)
(***************************************************************************)
EXTENDS Naturals, Sequences, SequencesExt

CONSTANTS
  MaxTurns,   \* bound: how many messages the user sends
  MaxWords,   \* LlamaCppConfig::default_max_tokens
  BatchSize   \* LlamaCppConfig::batch_size

ASSUME LlamaAssumption ==
    /\ MaxTurns \in Nat
    /\ MaxWords \in Nat \ {0}
    /\ BatchSize \in Nat \ {0}

VARIABLES
  llama,    \* the handle's epoch and queue, and the thread's locals
  stream    \* the receiver generate returned last, while its generation is read

Token == (0..MaxTurns) \X (0..MaxWords)

\* A word, a word that closes a sentence, or the engine's failure.
Item == {"word", "close", "error"}

NoJob == [epoch |-> 0]
Job == [epoch : Nat \ {0}, prompt : Seq(Token), made : 0..MaxWords, late : Nat,
        pc : {"prefill", "decoding", "sample", "feeding"}]

NoStream == [epoch |-> 0, items |-> <<>>, open |-> FALSE, cut |-> FALSE]

LlamaType ==
    /\ llama \in [epoch : Nat, queue : Seq([epoch : Nat, prompt : Seq(Token)]),
                  job : {NoJob} \cup Job, kv : Seq(Token), processed : Seq(Token)]
    /\ stream \in [epoch : Nat, items : Seq(Item), open : BOOLEAN, cut : BOOLEAN]

LlamaInit ==
    /\ llama = [epoch |-> 0, queue |-> <<>>, job |-> NoJob, kv |-> <<>>, processed |-> <<>>]
    /\ stream = NoStream

(***************************************************************************)
(* The handle, called by the stage.                                        *)
(***************************************************************************)
\* Mutant: the command carries the epoch from before the increment.
GenerateBehind(prompt) ==
    /\ llama' = [llama EXCEPT !.epoch = @ + 1,
                              !.queue = Append(@, [epoch |-> llama.epoch, prompt |-> prompt])]
    /\ stream' = [NoStream EXCEPT !.epoch = llama.epoch, !.open = TRUE]

\* LanguageModel::generate
Generate(prompt) ==
    /\ llama' = [llama EXCEPT !.epoch = @ + 1,
                              !.queue = Append(@, [epoch |-> llama.epoch + 1, prompt |-> prompt])]
    /\ stream' = [NoStream EXCEPT !.epoch = llama.epoch + 1, !.open = TRUE]

\* LanguageModel::cancel, once the run loop has dropped the perform that read the stream.
CancelGenerate ==
    /\ llama' = [llama EXCEPT !.epoch = @ + 1]
    /\ stream' = NoStream

(***************************************************************************)
(* The thread.                                                             *)
(***************************************************************************)
Working == llama.job /= NoJob
Stale == llama.epoch /= llama.job.epoch
Heard == stream.epoch = llama.job.epoch

\* The command's sender is dropped: its receiver, if there is one, ends behind items.  cut
\* tells, for the properties, that the generation did not come to its own end.
Closes(epoch, items, cut) ==
    stream' = IF stream.epoch /= epoch THEN stream
              ELSE [stream EXCEPT !.items = @ \o items, !.open = FALSE, !.cut = cut]

EndJob(items, cut) == Closes(llama.job.epoch, items, cut)

\* What of the prompt is in the cache; its last token is always decoded again.
Reusable(prompt) ==
    LET shared == Len(LongestCommonPrefix({llama.processed, prompt}))
    IN  IF shared < Len(prompt) THEN shared ELSE Len(prompt) - 1

\* Mutant: the record is not truncated with the cache.
TrimmedCacheOnly(shared) == [llama EXCEPT !.kv = SubSeq(@, 1, shared)]

\* The cache and its record are cut back to their first tokens.
Trimmed(shared) == [llama EXCEPT !.kv = SubSeq(@, 1, shared),
                                 !.processed = SubSeq(@, 1, shared)]

\* A command begins: the cache is cut back to what the prompt shares with it, or cleared
\* where llama.cpp cannot remove a part.  The epoch is not looked at yet.
TakeCommand ==
    /\ ~Working /\ llama.queue /= <<>>
    /\ LET command == Head(llama.queue)
       IN  \E shared \in {0, Reusable(command.prompt)} :
               llama' = [Trimmed(shared) EXCEPT
                           !.queue = Tail(@),
                           !.job = [epoch |-> command.epoch, prompt |-> command.prompt,
                                    made |-> 0, late |-> 0, pc |-> "prefill"]]
    /\ UNCHANGED stream

\* The dialect, the template, the tokenizer or the context size refuses the prompt.
RefuseCommand ==
    /\ ~Working /\ llama.queue /= <<>>
    /\ llama' = [llama EXCEPT !.queue = Tail(@)]
    /\ Closes(Head(llama.queue).epoch, <<"error">>, FALSE)

\* Before each batch of the prompt.
Prefill ==
    /\ Working /\ llama.job.pc = "prefill"
    /\ IF Stale
       THEN llama' = [llama EXCEPT !.job = NoJob] /\ EndJob(<<>>, TRUE)
       ELSE llama' = [llama EXCEPT !.job.pc = "decoding"] /\ UNCHANGED stream

\* What the decode under way adds to the cache: a batch of the prompt, or the word sampled.
Batch ==
    LET base == Len(llama.processed)
        upTo == base + BatchSize
        size == Len(llama.job.prompt)
    IN  IF llama.job.pc = "feeding"
        THEN << <<Last(llama.job.prompt)[1], llama.job.made>> >>
        ELSE SubSeq(llama.job.prompt, base + 1, IF upTo < size THEN upTo ELSE size)

\* context.decode returns, and what it decoded is recorded.
Decode ==
    /\ Working /\ llama.job.pc \in {"decoding", "feeding"}
    /\ LET processed == llama.processed \o Batch
       IN  llama' = [llama EXCEPT
                       !.kv = @ \o Batch, !.processed = processed,
                       !.job.pc = IF Len(processed) < Len(llama.job.prompt)
                                  THEN "prefill" ELSE "sample",
                       !.job.late = IF Stale THEN @ + 1 ELSE @]
    /\ UNCHANGED stream

\* context.decode fails, with or without the batch in the cache: the error ends the stream.
\* So does one of the sampler, which finds the cache as a decode that failed without its batch.
DecodeFails ==
    /\ Working /\ llama.job.pc \in {"decoding", "feeding"}
    /\ \E left \in {<<>>, Batch} :
           llama' = [llama EXCEPT !.kv = @ \o left, !.job = NoJob]
    /\ EndJob(<<"error">>, FALSE)

\* A word is sampled and emitted; a barge-in seen around it, or a dropped receiver, stops.
Sample ==
    /\ Working /\ llama.job.pc = "sample" /\ llama.job.made < MaxWords
    /\ IF Stale \/ ~Heard
       THEN llama' = [llama EXCEPT !.job = NoJob] /\ EndJob(<<>>, TRUE)
       ELSE /\ \E word \in {"word", "close"} : stream' = [stream EXCEPT !.items = Append(@, word)]
            /\ llama' = [llama EXCEPT !.job.made = @ + 1, !.job.pc = "feeding"]

\* The barge-in came with the word: it is not decoded.
StopUnfed ==
    /\ Working /\ llama.job.pc = "feeding" /\ Stale
    /\ llama' = [llama EXCEPT !.job = NoJob]
    /\ EndJob(<<>>, TRUE)

\* The end-of-generation token, sampled behind a check, or max_tokens, which needs none.
Complete ==
    /\ Working /\ llama.job.pc = "sample"
    /\ ~Stale \/ llama.job.made = MaxWords
    /\ llama' = [llama EXCEPT !.job = NoJob]
    /\ EndJob(<<>>, FALSE)

LlamaThread == TakeCommand \/ RefuseCommand \/ Prefill \/ Decode \/ DecodeFails
                 \/ Sample \/ StopUnfed \/ Complete

(***************************************************************************)
(* Properties.                                                             *)
(***************************************************************************)
\* What the record of the cache says is in the cache, and a reply is sampled from exactly
\* the conversation it answers and the words it has so far, whatever was interrupted or
\* failed in the commands before (worker.rs 466-485, 512-514).
CacheIsPrompt ==
    /\ IsPrefix(llama.processed, llama.kv)
    /\ Working =>
          LET turn == Last(llama.job.prompt)[1]
              whole == llama.job.prompt \o [i \in 1..llama.job.made |-> <<turn, i>>]
          IN  /\ llama.kv = llama.processed
              /\ IsPrefix(llama.kv, whole)
              /\ llama.job.pc = "sample" => llama.kv = whole

\* After a barge-in the thread finishes the decode it is in, and begins no other for the
\* generation that was cancelled (worker.rs 490-494, 584-587).
OneLateDecode == Working => llama.job.late <= 1
=============================================================================
