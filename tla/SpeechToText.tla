---------------------------- MODULE SpeechToText ----------------------------
(***************************************************************************)
(* SttStage over one of the engines of EngineWorkers.  The stage keeps no  *)
(* state of its own: it trusts the gate to bracket speech with edges, and  *)
(* turns edge, audio, edge into begin, feed, end.  The run loop shows it   *)
(* the order of Mailbox: an Interrupt first, and then none of the frames   *)
(* sent before it (all of them droppable), nor the perform under way.      *)
(***************************************************************************)
EXTENDS EngineWorkers

CONSTANTS
    MaxCalls,     \* bound on the calls "anyone" makes
    MaxCancels,   \* bound on how often "anyone" cancels
    MaxFrames     \* bound on the frames the gate sends

VARIABLES
    caller,      \* who calls the engine: this stage, or "anyone"; it never changes
    lane,        \* frames on their way to the stage, in the order they were stamped
    sent,        \* how many the gate sent
    speaking,    \* the gate is open
    performing,  \* the effect in hand
    forwarded,   \* the transcripts sent downstream
    utterance    \* ghost: the audio the stage was given since it last began

stageVars == <<lane, sent, speaking, performing, forwarded, utterance>>
sttVars   == <<engineVars, caller, stageVars>>

SttInit ==
    /\ EngineInit
    /\ caller \in {"anyone", "stage"}
    /\ caller = "stage" => engine # "vad"
    /\ lane = <<>>
    /\ sent = 0
    /\ speaking = FALSE
    /\ performing = "none"
    /\ forwarded = <<>>
    /\ utterance = <<>>

-----------------------------------------------------------------------------
(* The gate, and the barge-in stage between it and this one                *)

GateSends(frames) ==
    /\ sent < MaxFrames
    /\ sent' = sent + 1
    /\ lane' = lane \o frames
    /\ UNCHANGED <<engineVars, performing, forwarded, utterance>>

\* An onset is a barge-in: its Interrupt goes ahead of it.
SpeechStarts == ~speaking /\ GateSends(<<"interrupt", "started">>) /\ speaking' = TRUE
SpeechGoesOn == speaking /\ (\E c \in Session!Chunks : GateSends(<<c>>)) /\ UNCHANGED speaking
SpeechStops  == speaking /\ GateSends(<<"stopped">>) /\ speaking' = FALSE

\* An Interrupt from further up has closed the gate on its way.
UpstreamInterrupts == GateSends(<<"interrupt">>) /\ speaking' = FALSE

Gate == SpeechStarts \/ SpeechGoesOn \/ SpeechStops \/ UpstreamInterrupts

-----------------------------------------------------------------------------
(* The stage                                                               *)

Interrupts == {i \in DOMAIN lane : lane[i] = "interrupt"}

\* decide_system, also at an await of perform: cancel, with the future dropped.
TakeInterrupt ==
    /\ Interrupts # {}
    /\ LET first == CHOOSE i \in Interrupts : \A j \in Interrupts : i <= j
       IN  lane' = SubSeq(lane, first + 1, Len(lane))
    /\ generation' = generation + 1
    /\ pending' = NoPending
    /\ commands' = Unwanted(commands)
    /\ worker' = [worker EXCEPT !.command.awaited = FALSE,
                                !.stream = IF engine = "buffered" THEN NoStream ELSE @]
    /\ performing' = "none"
    /\ utterance' = <<>>
    /\ UNCHANGED <<engine, got, calls, handle, sent, speaking, forwarded>>

Effect(frame) ==
    CASE frame = "started" -> [op |-> "begin", chunk |-> "none"]
      [] frame = "stopped" -> [op |-> "end", chunk |-> "none"]
      [] OTHER             -> [op |-> "feed", chunk |-> frame]

\* decide_data, and perform as far as its first await.
TakeFrame ==
    /\ performing = "none"
    /\ Interrupts = {}
    /\ lane # <<>>
    /\ LET op == Effect(Head(lane)) IN
         /\ Ask(op) \/ BufferNow(op) \/ (op.op = "end" /\ BufferEnd)
         /\ performing' = op.op
         /\ utterance' = CASE op.op = "begin" -> <<>>
                           [] op.op = "feed"  -> Append(utterance, op.chunk)
                           [] op.op = "end"   -> utterance
    /\ lane' = Tail(lane)
    /\ UNCHANGED <<sent, speaking, forwarded>>

\* The answer: forward_events, or the error that ends perform.
Resume ==
    /\ performing # "none"
    /\ pending = NoPending
    /\ performing' = "none"
    /\ forwarded' = forwarded \o got.events
    /\ UNCHANGED <<engineVars, lane, sent, speaking, utterance>>

EngineSteps == (Worker \/ Die \/ Return \/ BufferFails) /\ UNCHANGED stageVars
StageSteps == TakeInterrupt \/ TakeFrame \/ Resume

SttNext ==
    /\ \/ /\ caller = "anyone"
          /\ EngineNext
          /\ calls' <= MaxCalls /\ generation' <= MaxCancels
          /\ UNCHANGED stageVars
       \/ caller = "stage" /\ (Gate \/ EngineSteps \/ StageSteps)
    /\ UNCHANGED caller

SttSpec == SttInit /\ [][SttNext]_sttVars /\ WF_sttVars(Worker /\ UNCHANGED <<caller, stageVars>>)
                   /\ WF_sttVars((Return \/ Joined) /\ UNCHANGED <<caller, stageVars>>)

-----------------------------------------------------------------------------
(* Properties                                                              *)

\* The stage trusts the gate's edges instead of tracking utterances itself (stage.rs): a
\* gate that brackets speech never has it meet a protocol error, however its Interrupts
\* fall between the calls, and an utterance that is handled to its closing edge becomes one
\* final, about exactly the audio between its edges.
FinalIsUtterance ==
    [][/\ caller = "stage" => got'.is # "protocol"
       /\ performing = "end" /\ performing' = "none" /\ generation' = generation
            => \/ forwarded' = Append(forwarded, Session!Final(utterance))
               \/ got = Session!EngineFailed /\ forwarded' = forwarded]_sttVars
=============================================================================
