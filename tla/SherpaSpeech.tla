---------------------------- MODULE SherpaSpeech ----------------------------
(***************************************************************************)
(* The synthesis thread of pipecrab-tts-sherpa (worker.rs).                *)
(*                                                                         *)
(* synthesize and cancel advance an epoch, as those of the llama.cpp       *)
(* worker do; the thread looks at it before a command and at every segment *)
(* of the waveform that the engine has ready.                              *)
(***************************************************************************)
EXTENDS Naturals, Sequences

CONSTANTS MaxSegments   \* bound: the segments the engine makes of a sentence

ASSUME SpeechAssumption == MaxSegments \in Nat \ {0}

VARIABLES
  sherpa,   \* the handle's epoch and queue, and the synthesis under way
  audio     \* the receiver synthesize returned last, while its speech is read

NoSynthesis == [epoch |-> 0, made |-> 0]
NoAudio == [epoch |-> 0, items |-> <<>>, open |-> FALSE, cut |-> FALSE]

SherpaType ==
    /\ sherpa \in [epoch : Nat, queue : Seq(Nat), job : [epoch : Nat, made : 0..MaxSegments]]
    /\ audio \in [epoch : Nat, items : Seq({"segment", "error"}), open : BOOLEAN, cut : BOOLEAN]

SherpaInit ==
    /\ sherpa = [epoch |-> 0, queue |-> <<>>, job |-> NoSynthesis]
    /\ audio = NoAudio

(***************************************************************************)
(* The handle, called by the stage.                                        *)
(***************************************************************************)
\* Synthesizer::synthesize
Synthesize ==
    /\ sherpa' = [sherpa EXCEPT !.epoch = @ + 1, !.queue = Append(@, sherpa.epoch + 1)]
    /\ audio' = [NoAudio EXCEPT !.epoch = sherpa.epoch + 1, !.open = TRUE]

\* Synthesizer::cancel, once the run loop has dropped the perform that read the stream.
CancelSpeech ==
    /\ sherpa' = [sherpa EXCEPT !.epoch = @ + 1]
    /\ audio' = NoAudio

(***************************************************************************)
(* The thread.                                                             *)
(***************************************************************************)
Synthesizing == sherpa.job /= NoSynthesis
Passed == sherpa.epoch /= sherpa.job.epoch

EndSpeech(epoch, items, cut) ==
    audio' = IF audio.epoch /= epoch THEN audio
             ELSE [audio EXCEPT !.items = @ \o items, !.open = FALSE, !.cut = cut]

\* A command that was cancelled while it waited is skipped: its stream just ends.
TakeSentence ==
    /\ ~Synthesizing /\ sherpa.queue /= <<>>
    /\ LET epoch == Head(sherpa.queue)
       IN  IF epoch = sherpa.epoch
           THEN /\ sherpa' = [sherpa EXCEPT !.queue = Tail(@), !.job.epoch = epoch]
                /\ UNCHANGED audio
           ELSE /\ sherpa' = [sherpa EXCEPT !.queue = Tail(@)]
                /\ EndSpeech(epoch, <<>>, TRUE)

\* The engine has a segment: it is sent, or the engine is told to stop.
Emit ==
    /\ Synthesizing /\ sherpa.job.made < MaxSegments
    /\ IF Passed \/ audio.epoch /= sherpa.job.epoch
       THEN /\ sherpa' = [sherpa EXCEPT !.job = NoSynthesis]
            /\ EndSpeech(sherpa.job.epoch, <<>>, TRUE)
       ELSE /\ sherpa' = [sherpa EXCEPT !.job.made = @ + 1]
            /\ audio' = [audio EXCEPT !.items = Append(@, "segment")]

\* The engine returns; its failure is reported to a stream that is still wanted.
EngineReturns ==
    /\ Synthesizing
    /\ \E failure \in {<<>>, <<"error">>} :
           EndSpeech(sherpa.job.epoch, IF Passed THEN <<>> ELSE failure, FALSE)
    /\ sherpa' = [sherpa EXCEPT !.job = NoSynthesis]

SherpaThread == TakeSentence \/ Emit \/ EngineReturns
=============================================================================
