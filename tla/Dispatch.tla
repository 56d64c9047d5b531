------------------------------ MODULE Dispatch ------------------------------
(***************************************************************************)
(* The round trip of a dispatched task (pipecrab-dispatch around           *)
(* pipecrab-lm):                                                           *)
(*                                                                         *)
(*   upstream --> ingress --> lm --> egress --> downstream                 *)
(*                   ^                 |                                   *)
(*                   +--- transport <--+                                   *)
(*                                                                         *)
(* lm turns what it is told into generations, whose tool calls egress      *)
(* publishes; the transport's events come back through ingress as inputs   *)
(* to the model.  lm and egress run the loop of RunLoop; ingress has a     *)
(* loop of its own.                                                        *)
(*                                                                         *)
(* What a run loop does to its stage is taken from Mailbox, as Inbox says. *)
(* A send that is awaited may take any time: its frame is in the inbox,    *)
(* its sender goes on in a later step, or is dropped.                      *)
(***************************************************************************)
EXTENDS Inbox, FiniteSets

CONSTANTS
  WellFormed,     \* the calls whose arguments parse as a dispatch command
  MaxUtterances,  \* bounds: how many final user transcripts upstream sends,
  MaxInterrupts,  \* how many Interrupts,
  MaxCalls        \* how many tool calls the model makes

CallIds == 1..MaxCalls

ASSUME DispatchAssumption ==
    /\ MaxUtterances \in Nat /\ MaxInterrupts \in Nat /\ MaxCalls \in Nat
    /\ WellFormed \subseteq CallIds

VARIABLES upstream, ingress, lm, egress, transport, trace
vars == <<upstream, ingress, lm, egress, transport, trace>>

\* Events, as far as project tells them apart: accepted becomes a tool result,
\* for context only, and completion stands for the events that ask for a reply.
DispatchEvent == [kind : {"accepted", "completion"}, id : CallIds]

\* user is a final user transcript, text an agent partial, event and command the two
\* Dispatch frames, input Model(Input), call Model(ToolCall).
Frame == [kind : {"interrupt", "user", "started", "text", "final", "finished"}]
           \cup [kind : {"call", "command"}, id : CallIds]
           \cup [kind : {"event", "input"}, event : DispatchEvent]

Message == [kind : {"system", "user"}]
             \cup [kind : {"assistant"}, calls : Seq(CallIds)]
             \cup [kind : {"result", "event"}, event : DispatchEvent]

Plain(kind) == [kind |-> kind]
Call(id) == [kind |-> "call", id |-> id]
Command(id) == [kind |-> "command", id |-> id]
Raw(event) == [kind |-> "event", event |-> event]
Input(event) == [kind |-> "input", event |-> event]

(***************************************************************************)
(* ingress: pc is "flush" between the forward of an Interrupt and          *)
(* flush_data, plan the frames it still has to send, open is source_open.  *)
(* lm: convo is the Conversation, reply says that the generation has       *)
(* produced text, calls are its tool_calls, next the id of the next call   *)
(* the model makes.  egress: call is the one perform publishes, out what   *)
(* it has sent of calls and commands.  transport: what the backend knows   *)
(* of each call, and the event channel.  trace is history: the events      *)
(* taken from the source, the calls of generations that were not           *)
(* committed, the calls whose publishing was cut off or failed, and how    *)
(* many Interrupts egress has handled.                                     *)
(***************************************************************************)
Init ==
    /\ upstream = [utterances |-> 0, interrupts |-> 0]
    /\ ingress = [pc |-> "recv", inbox |-> <<>>, plan |-> <<>>, open |-> TRUE]
    /\ lm = [pc |-> "recv", inbox |-> <<>>, convo |-> <<Plain("system")>>,
             reply |-> FALSE, calls |-> <<>>, next |-> 1]
    /\ egress = [pc |-> "recv", inbox |-> <<>>, call |-> 0, out |-> <<>>]
    /\ transport = [tasks |-> [id \in CallIds |-> {}], events |-> <<>>]
    /\ trace = [taken |-> <<>>, uncommitted |-> {}, lost |-> {}, refused |-> {}, cuts |-> 0]

ToLm(frame) == lm' = [lm EXCEPT !.inbox = Append(@, frame)]
ToEgress(frame) == egress' = [egress EXCEPT !.inbox = Append(@, frame)]

-----------------------------------------------------------------------------
(***************************************************************************)
(* Upstream.                                                               *)
(***************************************************************************)
UserSpeaks ==
    /\ upstream.utterances < MaxUtterances
    /\ ingress.pc /= "done"
    /\ upstream' = [upstream EXCEPT !.utterances = @ + 1]
    /\ ingress' = [ingress EXCEPT !.inbox = Append(@, Plain("user"))]
    /\ UNCHANGED <<lm, egress, transport, trace>>

BargeIn ==
    /\ upstream.interrupts < MaxInterrupts
    /\ ingress.pc /= "done"
    /\ upstream' = [upstream EXCEPT !.interrupts = @ + 1]
    /\ ingress' = [ingress EXCEPT !.inbox = Append(@, Interrupt)]
    /\ UNCHANGED <<lm, egress, transport, trace>>

-----------------------------------------------------------------------------
(***************************************************************************)
(* DispatchIngress::run.  Its sends are awaited outright.                  *)
(***************************************************************************)
IngressReady == ingress.pc = "recv" /\ ingress.plan = <<>>

IngressForwards ==
    /\ IngressReady
    /\ HasData(ingress.inbox)
    /\ ingress' = [ingress EXCEPT !.inbox = Tail(@)]
    /\ ToLm(Head(ingress.inbox))
    /\ UNCHANGED <<upstream, egress, transport, trace>>

IngressInterrupt ==
    /\ IngressReady
    /\ Interrupted(ingress.inbox)
    /\ ingress' = [ingress EXCEPT !.pc = "flush", !.inbox = AfterInterrupt(@)]
    /\ ToLm(Interrupt)
    /\ UNCHANGED <<upstream, egress, transport, trace>>

\* flush_data: what it keeps is taken off the lane, to be sent on.
IngressFlush ==
    /\ ingress.pc = "flush"
    /\ ingress' = [ingress EXCEPT !.pc = "recv",
                                  !.plan = Only(ingress.inbox, IsData),
                                  !.inbox = Only(@, IsInterrupt)]
    /\ UNCHANGED <<upstream, lm, egress, transport, trace>>

IngressSends ==
    /\ ingress.pc = "recv"
    /\ ingress.plan /= <<>>
    /\ ingress' = [ingress EXCEPT !.plan = Tail(@)]
    /\ ToLm(Head(ingress.plan))
    /\ UNCHANGED <<upstream, egress, transport, trace>>

\* inject: the raw event, then its projection.  The lanes are polled before the source.
IngressInjects ==
    /\ IngressReady
    /\ ingress.inbox = <<>>
    /\ ingress.open
    /\ transport.events /= <<>>
    /\ LET event == Head(transport.events)
       IN  /\ transport' = [transport EXCEPT !.events = Tail(@)]
           /\ ToLm(Raw(event))
           /\ ingress' = [ingress EXCEPT !.plan = <<Input(event)>>]
           /\ trace' = [trace EXCEPT !.taken = Append(@, event)]
    /\ UNCHANGED <<upstream, egress>>

\* Mutant: a fatal error ends ingress between a raw event and its projection.
SourceEndsEarly ==
    /\ ingress.pc = "recv"
    /\ ingress.inbox = <<>>
    /\ ingress.open
    /\ \E fatal \in BOOLEAN :
         ingress' = [ingress EXCEPT !.open = FALSE, !.pc = IF fatal THEN "done" ELSE @]
    /\ UNCHANGED <<upstream, lm, egress, transport, trace>>

\* The source has closed, or failed for good: then ingress returns.  (An error that is
\* not fatal is reported, and nothing else.)
SourceEnds ==
    /\ IngressReady
    /\ ingress.inbox = <<>>
    /\ ingress.open
    /\ \E fatal \in BOOLEAN :
         ingress' = [ingress EXCEPT !.open = FALSE, !.pc = IF fatal THEN "done" ELSE @]
    /\ UNCHANGED <<upstream, lm, egress, transport, trace>>

IngressNext ==
    \/ IngressForwards \/ IngressInterrupt \/ IngressFlush \/ IngressSends
    \/ IngressInjects \/ SourceEnds

-----------------------------------------------------------------------------
(***************************************************************************)
(* LmStage.                                                                *)
(***************************************************************************)
\* project, then LmStage::append: what an event becomes in the conversation.
Noted(event) ==
    [kind |-> IF event.kind = "accepted" THEN "result" ELSE "event", event |-> event]

Recorded(l, message, pc) ==
    [l EXCEPT !.inbox = Tail(@), !.convo = Append(@, message), !.pc = pc]

\* Mutant: context goes into the conversation at once, a generation or not.
LmTakesEarly ==
    /\ HasData(lm.inbox)
    /\ LET frame == Head(lm.inbox)
       IN  \/ /\ lm.pc = "recv"
              /\ frame.kind = "user"
              /\ lm' = Recorded(lm, Plain("user"), "generate")
              /\ UNCHANGED egress
           \/ /\ frame.kind = "input"
              /\ \/ frame.event.kind = "completion" /\ lm.pc = "recv"
                    /\ lm' = Recorded(lm, Noted(frame.event), "generate")
                 \/ frame.event.kind /= "completion"
                    /\ lm' = Recorded(lm, Noted(frame.event), lm.pc)
              /\ UNCHANGED egress
           \/ /\ frame.kind = "event"
              /\ lm' = [lm EXCEPT !.inbox = Tail(@)]
              /\ ToEgress(frame)
    /\ UNCHANGED <<upstream, ingress, transport, trace>>

\* decide_data: a user's turn or an input that asks for it starts a generation; a raw
\* event is forwarded.
LmTakes ==
    /\ lm.pc = "recv"
    /\ HasData(lm.inbox)
    /\ LET frame == Head(lm.inbox)
       IN  \/ /\ frame.kind = "user"
              /\ lm' = Recorded(lm, Plain("user"), "generate")
              /\ UNCHANGED egress
           \/ /\ frame.kind = "input"
              /\ lm' = Recorded(lm, Noted(frame.event),
                                IF frame.event.kind = "completion" THEN "generate" ELSE "recv")
              /\ UNCHANGED egress
           \/ /\ frame.kind = "event"
              /\ lm' = [lm EXCEPT !.inbox = Tail(@)]
              /\ ToEgress(frame)
    /\ UNCHANGED <<upstream, ingress, transport, trace>>

\* perform goes away, with nothing of it in the conversation.
Abandon(l) ==
    /\ lm' = [l EXCEPT !.pc = "recv", !.reply = FALSE, !.calls = <<>>]
    /\ trace' = [trace EXCEPT !.uncommitted = @ \cup Lanes!Frames(lm.calls)]

LmInterrupt ==
    /\ Interrupted(lm.inbox)
    /\ Abandon([lm EXCEPT !.inbox = AfterInterrupt(@)])
    /\ ToEgress(Interrupt)
    /\ UNCHANGED <<upstream, ingress, transport>>

\* perform goes on, where the system lane is empty.
Performing(pc) == lm.pc = pc /\ ~Interrupted(lm.inbox)

LmStarts ==
    /\ Performing("generate")
    /\ lm' = [lm EXCEPT !.pc = "stream"]
    /\ ToEgress(Plain("started"))
    /\ UNCHANGED <<upstream, ingress, transport, trace>>

\* generate fails, or an item of its stream is an error.
LmFails ==
    /\ Performing("generate") \/ Performing("stream")
    /\ Abandon(lm)
    /\ UNCHANGED <<upstream, ingress, egress, transport>>

\* A text delta; one stands for all.
LmText ==
    /\ Performing("stream")
    /\ ~lm.reply
    /\ lm' = [lm EXCEPT !.reply = TRUE]
    /\ ToEgress(Plain("text"))
    /\ UNCHANGED <<upstream, ingress, transport, trace>>

LmCalls ==
    /\ Performing("stream")
    /\ lm.next <= MaxCalls
    /\ lm' = [lm EXCEPT !.calls = Append(@, lm.next), !.next = @ + 1]
    /\ ToEgress(Call(lm.next))
    /\ UNCHANGED <<upstream, ingress, transport, trace>>

\* The stream is through: the final transcript, unless there is no text, and then
\* GenerationFinished.
LmFinal ==
    /\ Performing("stream")
    /\ lm.reply
    /\ lm' = [lm EXCEPT !.pc = "final"]
    /\ ToEgress(Plain("final"))
    /\ UNCHANGED <<upstream, ingress, transport, trace>>

LmFinishes ==
    /\ (Performing("stream") /\ ~lm.reply) \/ Performing("final")
    /\ lm' = [lm EXCEPT !.pc = "finished"]
    /\ ToEgress(Plain("finished"))
    /\ UNCHANGED <<upstream, ingress, transport, trace>>

LmCommits ==
    /\ Performing("finished")
    /\ lm' = [lm EXCEPT !.pc = "recv", !.reply = FALSE, !.calls = <<>>,
                        !.convo = Append(@, [kind |-> "assistant", calls |-> lm.calls])]
    /\ UNCHANGED <<upstream, ingress, egress, transport, trace>>

LmLoop == LmTakes \/ LmInterrupt \/ LmCommits
Model == LmStarts \/ LmFails \/ LmText \/ LmCalls \/ LmFinal \/ LmFinishes

-----------------------------------------------------------------------------
(***************************************************************************)
(* DispatchEgress.                                                         *)
(***************************************************************************)
\* decide_data: a call that parses is consumed, one that does not is forwarded and
\* reported, everything else passes on.
EgressTakes ==
    /\ egress.pc = "recv"
    /\ HasData(egress.inbox)
    /\ LET frame == Head(egress.inbox)
           took == [egress EXCEPT !.inbox = Tail(@)]
       IN  \/ /\ frame.kind = "call" /\ frame.id \in WellFormed
              /\ egress' = [took EXCEPT !.pc = "publish", !.call = frame.id]
           \/ /\ frame.kind = "call" /\ frame.id \notin WellFormed
              /\ egress' = [took EXCEPT !.out = Append(@, frame)]
           \/ /\ frame.kind /= "call"
              /\ egress' = took
    /\ UNCHANGED <<upstream, ingress, lm, transport, trace>>

EgressInterrupt ==
    /\ Interrupted(egress.inbox)
    /\ egress' = [egress EXCEPT !.pc = "recv", !.call = 0, !.inbox = AfterInterrupt(@)]
    /\ trace' = [trace EXCEPT !.cuts = @ + 1,
                              !.lost = IF egress.pc = "publish" THEN @ \cup {egress.call} ELSE @]
    /\ UNCHANGED <<upstream, ingress, lm, transport>>

Publishing(pc) == egress.pc = pc /\ ~Interrupted(egress.inbox)

\* send_command has returned: the call is sent on, then the command.
EgressClaims ==
    /\ Publishing("publish")
    /\ "delivered" \in transport.tasks[egress.call]
    /\ egress' = [egress EXCEPT !.pc = "claim", !.out = Append(@, Call(egress.call))]
    /\ UNCHANGED <<upstream, ingress, lm, transport, trace>>

EgressCommands ==
    /\ Publishing("claim")
    /\ egress' = [egress EXCEPT !.pc = "command", !.out = Append(@, Command(egress.call))]
    /\ UNCHANGED <<upstream, ingress, lm, transport, trace>>

EgressDone ==
    /\ Publishing("command")
    /\ egress' = [egress EXCEPT !.pc = "recv", !.call = 0]
    /\ UNCHANGED <<upstream, ingress, lm, transport, trace>>

\* send_command has failed, whether the backend got the command or not.
SinkFails ==
    /\ Publishing("publish")
    /\ egress' = [egress EXCEPT !.pc = "recv", !.call = 0]
    /\ trace' = [trace EXCEPT !.refused = @ \cup {egress.call}]
    /\ UNCHANGED <<upstream, ingress, lm, transport>>

EgressLoop == EgressTakes \/ EgressInterrupt \/ EgressCommands \/ EgressDone

-----------------------------------------------------------------------------
(***************************************************************************)
(* The transport, as DispatchSink and DispatchSource promise it.           *)
(***************************************************************************)
SinkDelivers ==
    /\ egress.pc = "publish"
    /\ transport.tasks[egress.call] = {}
    /\ transport' = [transport EXCEPT !.tasks[egress.call] = {"delivered"}]
    /\ UNCHANGED <<upstream, ingress, lm, egress, trace>>

\* Each kind of event once, in any order.
BackendReports ==
    /\ \E event \in DispatchEvent :
         /\ transport.tasks[event.id] /= {}
         /\ event.kind \notin transport.tasks[event.id]
         /\ transport' = [transport EXCEPT !.tasks[event.id] = @ \cup {event.kind},
                                           !.events = Append(@, event)]
    /\ UNCHANGED <<upstream, ingress, lm, egress, trace>>

SinkReturns == EgressClaims \/ SinkFails

Next ==
    \/ UserSpeaks \/ BargeIn \/ IngressNext
    \/ LmLoop \/ Model
    \/ EgressLoop \/ SinkReturns \/ SinkDelivers \/ BackendReports

(***************************************************************************)
(* The executor polls whatever can go on.                                  *)
(***************************************************************************)
FairStages == WF_vars(IngressNext) /\ WF_vars(LmLoop) /\ WF_vars(EgressLoop)
FairModel == WF_vars(Model)
FairSink == WF_vars(SinkReturns)

Spec == Init /\ [][Next]_vars /\ FairStages

-----------------------------------------------------------------------------
(***************************************************************************)
(* Properties.                                                             *)
(***************************************************************************)

IngressStates == {"recv", "flush", "done"}
IngressRecord ==
    [pc : IngressStates, inbox : Seq(Frame), plan : Seq(Frame), open : BOOLEAN]
LmStates == {"recv", "generate", "stream", "final", "finished"}
LmRecord ==
    [pc : LmStates, inbox : Seq(Frame),
     convo : Seq(Message), reply : BOOLEAN, calls : Seq(CallIds), next : 1..MaxCalls + 1]
EgressStates == {"recv", "publish", "claim", "command"}
EgressRecord ==
    [pc : EgressStates, inbox : Seq(Frame), call : 0..MaxCalls,
     out : Seq(Frame)]
TransportRecord ==
    [tasks : [CallIds -> SUBSET {"delivered", "accepted", "completion"}],
     events : Seq(DispatchEvent)]
TraceRecord ==
    [taken : Seq(DispatchEvent), uncommitted : SUBSET CallIds, lost : SUBSET CallIds,
     refused : SUBSET CallIds, cuts : Nat]

\* The stages' and the transport's state have their types.
TypeOK ==
    /\ ingress \in IngressRecord /\ lm \in LmRecord /\ egress \in EgressRecord
    /\ transport \in TransportRecord /\ trace \in TraceRecord

EventsOf(frames) == [i \in 1..Len(frames) |-> frames[i].event]
EventsIn(frames, kinds) == EventsOf(Only(frames, LAMBDA x : x.kind \in kinds))
Inputs(frames) == EventsIn(frames, {"input"})
ToldModel == EventsIn(lm.convo, {"result", "event"})

\* Barge-in never deafens the pipeline to external tasks: every event that ingress has
\* taken from the source is in the conversation, once and in order, or on its way
\* there, whatever Interrupts cut through ingress, the lanes or a generation.
EventsReachModel == ToldModel \o Inputs(lm.inbox) \o Inputs(ingress.plan) = trace.taken

Answers(id, i) ==
    \E j \in 1..i - 1 : lm.convo[j].kind = "assistant" /\ id \in Lanes!Frames(lm.convo[j].calls)

\* A tool result in the conversation follows the turn that made the call, although the
\* call is out, and may be answered, before that turn is committed.  The exception is
\* a turn that never is.
ResultsFollowCalls ==
    \A i \in 1..Len(lm.convo) : lm.convo[i].kind = "result" =>
      Answers(lm.convo[i].event.id, i) \/ lm.convo[i].event.id \in trace.uncommitted

\* DispatchEgress: no claim downstream of a dispatch that never happened, and none
\* made twice; a command follows the call it was made from.
ClaimsArePublished ==
    \A i \in 1..Len(egress.out) :
      LET claim == egress.out[i]
      IN  /\ claim.id \in WellFormed => "delivered" \in transport.tasks[claim.id]
          /\ claim.kind = "command" => i > 1 /\ egress.out[i - 1] = Call(claim.id)
          /\ \A j \in 1..i - 1 : egress.out[j] /= claim

\* Every call the model has made is waiting, being published, claimed or refused by
\* the sink, but for at most one for each Interrupt, which found it half-way.
BargeInLosesOneCall ==
    /\ \A id \in 1..lm.next - 1 :
         \/ Call(id) \in Lanes!Frames(egress.inbox) \cup Lanes!Frames(egress.out)
         \/ egress.call = id
         \/ id \in trace.lost \cup trace.refused
    /\ Cardinality(trace.lost) <= trace.cuts

\* Upstream's frames alone cross a flush of ingress, which has sent what it kept before.
FlushKeepsNoInput ==
    /\ \A frame \in Lanes!Frames(ingress.inbox) : frame.kind \in {"interrupt", "user"}
    /\ ingress.pc = "flush" => ingress.plan = <<>>

\* A call is made once, and is in one place from then on.
Distinct(frames) ==
    \A i, j \in 1..Len(frames) :
        i # j /\ frames[i].kind = "call" /\ frames[j].kind = "call" => frames[i].id # frames[j].id
Claimed(id) == \E claim \in Lanes!Frames(egress.out) : claim \in {Call(id), Command(id)}
CallsInOnePlace ==
    /\ Distinct(egress.inbox)
    /\ \A frame \in Lanes!Frames(egress.inbox) :
         frame.kind = "call" => frame.id < lm.next /\ frame.id # egress.call /\ ~Claimed(frame.id)
    /\ \A claim \in Lanes!Frames(egress.out) :
         claim.kind \in {"call", "command"} /\ claim.id < lm.next
    /\ egress.pc = "recv" => egress.call = 0
    /\ egress.pc # "recv" => egress.call \in WellFormed /\ egress.call < lm.next
    /\ egress.pc = "publish" => ~Claimed(egress.call)
    /\ egress.pc \in {"claim", "command"} =>
         /\ "delivered" \in transport.tasks[egress.call]
         /\ Call(egress.call) \in Lanes!Frames(egress.out)
    /\ egress.pc = "claim" =>
         /\ egress.out[Len(egress.out)] = Call(egress.call)
         /\ Command(egress.call) \notin Lanes!Frames(egress.out)

\* Of a task that is reported the call was made; of a call that was made the conversation
\* tells, or it is in the turn under way, or that turn was abandoned.
Reported(event) == transport.tasks[event.id] # {}
ReportsFollowCalls ==
    /\ \A id \in CallIds : transport.tasks[id] # {} => id < lm.next
    /\ \A event \in Lanes!Frames(transport.events) : Reported(event)
    /\ \A frame \in Lanes!Frames(ingress.plan) \cup Lanes!Frames(lm.inbox) :
         frame.kind = "input" => Reported(frame.event)
    /\ lm.pc \in {"recv", "generate"} => lm.calls = <<>>
    /\ \A id \in 1..lm.next - 1 :
         \/ id \in trace.uncommitted \cup Lanes!Frames(lm.calls)
         \/ Answers(id, Len(lm.convo) + 1)

\* What the conversation and the stages downstream may conclude from a claim, a command or a
\* result: that what it follows from has happened; for a call is in one place from the moment
\* it is made, and nothing reports of a call that was not made.
ConclusionsFollow ==
    TypeOK /\ CallsInOnePlace /\ ReportsFollowCalls /\ ResultsFollowCalls /\ ClaimsArePublished

\* What an Interrupt costs of either direction of the dispatch: no event that was taken, for
\* ingress has sent on what it took when it flushes, and of the calls at most the one it
\* finds half-way.
BargeInLosesOneCallOnly == FlushKeepsNoInput /\ EventsReachModel /\ BargeInLosesOneCall

\* Inductive.  The second half rests on the first, which says where a call is.
DispatchInv == ConclusionsFollow /\ BargeInLosesOneCallOnly
=============================================================================
