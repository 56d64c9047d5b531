------------------------------ MODULE Pipeline ------------------------------
(***************************************************************************)
(* A pipeline from end to end: Pipeline::run with two stages, wired by     *)
(* link() one behind the other, between the application's input and its    *)
(* output pump.                                                            *)
(*                                                                         *)
(*   input -- link0 --> turn -- link1 --> agent -- link2 --> pump          *)
(*                                                                         *)
(* turn is BargeInStage, the originator of Interrupts; agent is any stage  *)
(* that forwards the speech edge and answers what it is given with audio.  *)
(* Both run the loop of RunLoop, the pump is that of OutputPump.           *)
(***************************************************************************)
EXTENDS Link

CONSTANTS
  Capacity,    \* buffer depth of every lane
  AgentData,   \* Processor::decide_data of the agent
  AgentSystem, \* Processor::decide_system of the agent
  Failures,    \* what the agent's perform may fail with
  InputData,   \* the kinds of data frames the application sends
  InputSystem, \* the kinds of system frames it sends
  MaxInput     \* bound: how many frames it sends

VARIABLES link0, link1, link2, turn, agent, pump
pipelineVars == <<link0, link1, link2, turn, agent, pump>>

Forward == [forward |-> TRUE, effects |-> <<>>]

\* BargeInStage::decide_data: it consumes each SpeechStarted, sends an Interrupt and
\* re-emits the edge behind it; everything else passes.
TurnData ==
    [kind \in DataKinds |->
       IF kind = "edge" THEN {[forward |-> FALSE, effects |-> <<"interrupt", "edge">>]}
       ELSE {Forward}]

\* BargeInStage leaves decide_system at its default.
TurnSystem == [kind \in SysKinds |-> {Forward}]

Barge == INSTANCE RunLoop WITH
    inb <- link0, out <- link1, loop <- turn, OnData <- TurnData, OnSystem <- TurnSystem,
    Failures <- {}, UpData <- InputData, UpSystem <- InputSystem, MaxIn <- MaxInput

Agent == INSTANCE RunLoop WITH
    inb <- link1, out <- link2, loop <- agent, OnData <- AgentData, OnSystem <- AgentSystem,
    UpData <- {}, UpSystem <- {}, MaxIn <- 0

Pump == INSTANCE OutputPump WITH
    output <- link2, SentData <- {}, SentSystem <- {}, MaxSent <- 0

\* A stage may decide anything that its kind of frame allows.
ASSUME PipelineAssumption ==
    /\ Capacity \in Nat \ {0}
    /\ AgentData \in [DataKinds -> SUBSET Agent!Decision]
    /\ AgentSystem \in [SysKinds -> SUBSET Agent!Decision]
    /\ Failures \subseteq BOOLEAN
    /\ InputData \subseteq DataKinds /\ InputSystem \subseteq SysKinds /\ MaxInput \in Nat

\* Pipeline::run links adjacent stages, Pipeline::start the two ends.
PipelineInit == Barge!Init /\ link2 = NewLink /\ agent = Barge!NewLoop /\ pump = Pump!NewPump

TurnSteps == Barge!LoopNext /\ UNCHANGED <<link2, agent, pump>>
AgentSteps == Agent!LoopNext /\ UNCHANGED <<link0, turn, pump>>
PumpSteps == Pump!PumpNext /\ UNCHANGED <<link0, link1, turn, agent>>

InputSends ==
    /\ Barge!UpstreamSendsData \/ Barge!UpstreamSendsSystem
    /\ UNCHANGED <<link2, agent, pump>>

\* The application drops PipelineEnds.input.
InputCloses == Barge!UpstreamCloses /\ UNCHANGED <<link2, agent, pump>>

\* The driver and both pumps have returned.
Ended ==
    /\ turn.pc = "done" /\ agent.pc = "done" /\ pump.pc = "done" /\ pump.ring = {}
    /\ ~link0.tx
    /\ UNCHANGED pipelineVars

PipelineNext == TurnSteps \/ AgentSteps \/ PumpSteps \/ InputSends \/ InputCloses \/ Ended

PipelineSpec == PipelineInit /\ [][PipelineNext]_pipelineVars

(***************************************************************************)
(* The stages' futures are driven by one FuturesUnordered, which polls     *)
(* every one that is woken; the pumps are joined with it.  A push may take *)
(* as long as the chunk; FairDevice, where a property needs it, says that  *)
(* it ends, as the device makes room.                                      *)
(***************************************************************************)
FairStages == WF_pipelineVars(TurnSteps) /\ WF_pipelineVars(AgentSteps)
FairPump == WF_pipelineVars(Pump!Pumping /\ UNCHANGED <<link0, link1, turn, agent>>)
FairDevice == WF_pipelineVars(Pump!PlayDone /\ UNCHANGED <<link0, link1, turn, agent>>)

SpecLongChunk == PipelineSpec /\ FairStages /\ FairPump

-----------------------------------------------------------------------------
(***************************************************************************)
(* Properties.                                                             *)
(***************************************************************************)

\* The wiring keeps every part's inductive invariant: what each assumes of its
\* neighbours, the neighbour it is given does.
PartsInvariant == Barge!IInv /\ Agent!IInv /\ Pump!PumpInv

\* Barge-in, end to end: once the pump has applied an Interrupt, nothing is played
\* that the agent decided before it had handled that Interrupt, though the two act
\* at different times, by the stamps of different links, and with sends in flight.
NothingStaleHeard ==
    /\ pump.pc = "playing" => pump.chunk.ep >= pump.heard
    /\ ~pump.discard => \A chunk \in pump.ring : chunk.ep >= pump.heard

\* A barge-in composes: the parts' own invariants, of stamps local to one link each, add up to
\* what is heard at the far end.
BargeInComposes == PartsInvariant /\ NothingStaleHeard

\* The utterance outlives the barge-in it causes: a frame queued at the agent that
\* was caused by the last onset of speech turn has passed on leaves the agent's
\* queue only into the agent's hand, whatever Interrupts are still queued before it.
AgentBacklog ==
    Frames(agent.kept) \cup Frames(agent.pending) \cup Frames(link1.data)

UtteranceSurvives ==
    [][\A f \in AgentBacklog :
         f.ep >= link1.ep /\ f \notin AgentBacklog' =>
           agent'.cur.seq = f.seq \/ agent'.pc = "done"]_pipelineVars

\* When the application drops its input, or sends a Stop, everything ends, the pump
\* included, though a stage may be waiting on a full lane, or a Stop be set aside.
ShutdownEndsAll ==
    FairDevice =>
      ((~link0.tx \/ \E i \in 1..Len(link0.sys) : link0.sys[i].kind = "stop")
         ~> (turn.pc = "done" /\ agent.pc = "done" /\ pump.pc = "done"))

\* An onset of speech is on its way to the pump: queued at turn, behind the last Interrupt
\* turn has handled, or passed on as an Interrupt that the pump has yet to apply.
OnsetUnderWay ==
    \/ \E i \in 1..Len(link0.data) :
          link0.data[i].kind = "edge" /\ link0.data[i].ep >= turn.epoch
    \/ pump.heard < turn.epoch

Silenced == ~OnsetUnderWay \/ turn.pc = "done" \/ pump.pc = "done"

\* What may come between an onset and the pump: the agent forwarding one frame more than the
\* tail lane holds, which the pump, playing, does not read.
TailLaneFull == agent.pc = "forward" /\ ~Agent!Ready /\ pump.pc = "playing"

\* ARCHITECTURE.md, of the pump's race: barge-in latency is then independent of chunk
\* size.  The pump catches up with every onset of speech, or turn or the pump has ended, even
\* while the chunk it is playing goes on and on, unless the tail lane fills up in front of
\* it (stage.rs 195); and always, if chunks end.
SpeechSilences ==
    /\ OnsetUnderWay ~> (Silenced \/ TailLaneFull)
    /\ FairDevice => (OnsetUnderWay ~> Silenced)
=============================================================================
