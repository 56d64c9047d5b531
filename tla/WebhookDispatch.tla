-------------------------- MODULE WebhookDispatch ---------------------------
(***************************************************************************)
(* The ZeroClaw dispatch transport: a webhook answers only when the turn   *)
(* it starts has ended, so each accepted command gets a detached worker    *)
(* (deliver) that posts, records the exchange and emits the outcome.  The  *)
(* gateway is external: every request ends, answered or failed.  A task's  *)
(* event ring is written and never read by the transport; it is left out.  *)
(***************************************************************************)
EXTENDS EventChannel, FiniteSets

CONSTANTS
    MaxCommands,   \* bound on the calls of send_command
    MaxTasks,      \* bound on the tasks minted
    TranscriptCapacity,  \* TRANSCRIPT_CAPACITY, 16 in the code
    MaxTurns       \* bound on the turns

VARIABLES
    registry,   \* TaskId -> TaskEntry: in_flight, and the turns of its transcript
    minted,     \* how many task ids exist
    commands,   \* how many commands were sent
    workers,    \* turn -> the deliver task that runs it
    line,       \* the event channel, with the senders that wait
    cancelled,
    sink,       \* the sink's future: [pc, task, event]
    received,   \* ghost: the terminal events the source returned
    closed      \* the source returned None

webhook == <<registry, minted, commands, workers, line, cancelled, sink, received, closed>>

Tasks    == 1..MaxTasks
Turns    == 1..MaxTurns
NoEvent  == Event("none", 0, 0)
IdleSink == [pc |-> "idle", task |-> 0, event |-> NoEvent]
NoWorker == [pc |-> "none", task |-> 0, replay |-> <<>>, outcome |-> "none"]

WebhookInit ==
    /\ registry = [t \in Tasks |-> [known |-> FALSE, in_flight |-> FALSE, transcript |-> <<>>]]
    /\ minted = 0
    /\ commands = 0
    /\ workers = [w \in Turns |-> NoWorker]
    /\ line = <<>>
    /\ cancelled = FALSE
    /\ sink = IdleSink
    /\ received = {}
    /\ closed = FALSE

Send(from, event) == line' = IF cancelled THEN line ELSE Enqueued(line, from, event)

-----------------------------------------------------------------------------
(* The sink                                                                *)

Called == sink.pc = "idle" /\ ~cancelled /\ commands < MaxCommands /\ commands' = commands + 1

Unstarted == {w \in Turns : workers[w].pc = "none"}

\* tokio::spawn(deliver(..)): turns are numbered in the order they are spawned.
Spawn(task, replay) ==
    \E w \in Unstarted :
        /\ \A v \in Unstarted : w <= v
        /\ workers' = [workers EXCEPT ![w] = [NoWorker EXCEPT !.pc = "posting", !.task = task, !.replay = replay]]

\* The entry is in the registry, in flight, before Accepted is on its way.
Create ==
    /\ Called /\ minted < MaxTasks
    /\ minted' = minted + 1
    /\ registry' = [registry EXCEPT ![minted + 1] = [known |-> TRUE, in_flight |-> TRUE, transcript |-> <<>>]]
    /\ Send(0, Event("accepted", minted + 1, 0))
    /\ sink' = [pc |-> "accepting", task |-> minted + 1, event |-> NoEvent]
    /\ UNCHANGED <<workers, cancelled, received, closed>>

Accepted ==
    /\ sink.pc = "accepting" /\ ~Waits(line, 0)
    /\ Spawn(sink.task, <<>>)
    /\ sink' = IdleSink
    /\ UNCHANGED <<registry, minted, commands, line, cancelled, received, closed>>

Idle(t) == registry[t].known /\ ~registry[t].in_flight

\* Mutant: the slot is not claimed with the readiness test.
ChainUnclaimed(t) ==
    /\ Called /\ t <= minted /\ Idle(t)
    /\ Spawn(t, registry[t].transcript)
    /\ UNCHANGED <<registry, minted, line, cancelled, sink, received, closed>>

\* Readiness, the claim of the slot and the transcript are one critical section.
Chain(t) ==
    /\ Called /\ t <= minted /\ Idle(t)
    /\ registry' = [registry EXCEPT ![t].in_flight = TRUE]
    /\ Spawn(t, registry[t].transcript)
    /\ UNCHANGED <<minted, line, cancelled, sink, received, closed>>

Refuse(t) ==
    /\ Called /\ t <= minted /\ ~Idle(t)
    /\ Send(0, Event("rejected", 0, 0))
    /\ sink' = [IdleSink EXCEPT !.pc = "sending"]
    /\ UNCHANGED <<registry, minted, workers, cancelled, received, closed>>

SinkSent ==
    /\ sink.pc = "sending" /\ ~Waits(line, 0)
    /\ sink' = IdleSink
    /\ UNCHANGED <<registry, minted, commands, workers, line, cancelled, received, closed>>

\* A barge-in, at the sink's only await: a task whose Accepted waits never gets a worker.
SinkDropped ==
    /\ sink.pc \in {"accepting", "sending"}
    /\ sink' = IdleSink
    /\ line' = Withdrawn(line, 0)
    /\ UNCHANGED <<registry, minted, commands, workers, cancelled, received, closed>>

Sink == Accepted \/ SinkSent

-----------------------------------------------------------------------------
(* deliver                                                                 *)

\* How a request ends, and classify: any 2xx reply completes, except to a request the
\* gateway had seen before, and everything else fails.  retryable is left out.
PostResults == {"2xx", "2xx duplicate", "4xx", "429", "5xx", "needs_quickstart", "transport"}
Classify(result) == IF result = "2xx" THEN "completion" ELSE "failure"

Resolves(w) ==
    /\ workers[w].pc = "posting"
    /\ \E result \in PostResults :
         workers' = [workers EXCEPT ![w].pc = "resolved", ![w].outcome = Classify(result)]
    /\ UNCHANGED <<registry, minted, commands, line, cancelled, sink, received, closed>>

\* cancelled_wait registers before it looks, so a cancel is seen whenever it comes.
Abandons(w) ==
    /\ workers[w].pc = "posting" /\ cancelled
    /\ workers' = [workers EXCEPT ![w].pc = "resolved", ![w].outcome = "none"]
    /\ UNCHANGED <<registry, minted, commands, line, cancelled, sink, received, closed>>

\* Mutant: the exchange is recorded only once its event is on its way.
FinishAndTell(w) ==
    /\ workers[w].pc = "resolved"
    /\ registry' = [registry EXCEPT ![workers[w].task].in_flight = FALSE]
    /\ workers' = [workers EXCEPT ![w].pc = IF workers[w].outcome = "none" THEN "done" ELSE "emit"]
    /\ UNCHANGED <<minted, commands, line, cancelled, sink, received, closed>>

\* finish: from here on an update can chain the next turn.
Finish(w) ==
    /\ workers[w].pc = "resolved"
    /\ registry' = [registry EXCEPT ![workers[w].task].in_flight = FALSE]
    /\ workers' = [workers EXCEPT ![w].pc = CASE workers[w].outcome = "none" -> "done"
                                              [] workers[w].outcome = "completion" -> "record"
                                              [] workers[w].outcome = "failure" -> "emit"]
    /\ UNCHANGED <<minted, commands, line, cancelled, sink, received, closed>>

\* The oldest exchange makes room.
Push(transcript, turn) ==
    Append(IF Len(transcript) = TranscriptCapacity THEN Tail(transcript) ELSE transcript, turn)

\* record_turn, under a lock of its own: only an answered turn joins the transcript.
Record(w) ==
    /\ workers[w].pc = "record"
    /\ registry' = [registry EXCEPT ![workers[w].task].transcript = Push(@, w)]
    /\ workers' = [workers EXCEPT ![w].pc = "emit"]
    /\ UNCHANGED <<minted, commands, line, cancelled, sink, received, closed>>

\* Mutant: a worker that finds the channel full gives its event up.
EmitsIfRoom(w) ==
    /\ workers[w].pc = "emit"
    /\ IF Len(line) >= Cap THEN line' = line ELSE Send(w, Event(workers[w].outcome, workers[w].task, w))
    /\ workers' = [workers EXCEPT ![w].pc = IF cancelled THEN "done" ELSE "sending"]
    /\ UNCHANGED <<registry, minted, commands, cancelled, sink, received, closed>>

Emits(w) ==
    /\ workers[w].pc = "emit"
    /\ Send(w, Event(workers[w].outcome, workers[w].task, w))
    /\ workers' = [workers EXCEPT ![w].pc = IF cancelled THEN "done" ELSE "sending"]
    /\ UNCHANGED <<registry, minted, commands, cancelled, sink, received, closed>>

Sent(w) ==
    /\ workers[w].pc = "sending" /\ ~Waits(line, w)
    /\ workers' = [workers EXCEPT ![w].pc = "done"]
    /\ UNCHANGED <<registry, minted, commands, line, cancelled, sink, received, closed>>

Deliver(w) == Resolves(w) \/ Abandons(w) \/ Finish(w) \/ Record(w) \/ Emits(w) \/ Sent(w)

-----------------------------------------------------------------------------
(* The source                                                              *)

NextEvent ==
    /\ line # <<>> /\ ~closed
    /\ received' = received \cup {e \in {line[1].event} : Terminal(e)}
    /\ line' = Tail(line)
    /\ UNCHANGED <<registry, minted, commands, workers, cancelled, sink, closed>>

\* recv returns None: nothing is buffered and nobody holds a sender.
SourceCloses ==
    /\ line = <<>> /\ cancelled /\ ~closed
    /\ sink.pc = "idle"
    /\ \A w \in Turns : workers[w].pc # "sending"
    /\ closed' = TRUE
    /\ UNCHANGED <<registry, minted, commands, workers, line, cancelled, sink, received>>

Cancel ==
    /\ ~cancelled
    /\ cancelled' = TRUE
    /\ UNCHANGED <<registry, minted, commands, workers, line, sink, received, closed>>

WebhookNext ==
    \/ Create \/ (\E t \in Tasks : Chain(t) \/ Refuse(t)) \/ Sink \/ SinkDropped
    \/ (\E w \in Turns : Deliver(w))
    \/ NextEvent \/ SourceCloses \/ Cancel

-----------------------------------------------------------------------------
(* Properties; those of a step are boxed in DispatchTransports             *)

Starts(w) == workers[w].pc = "none" /\ workers'[w].pc = "posting"

\* Two turns of one task never run at the gateway at once, whatever updates, refusals and
\* dropped sends come between: the claim of update (inner.rs).
OneTurnAtATime ==
    \A w, v \in Turns :
        workers[w].pc = "posting" /\ workers[v].pc = "posting" /\ workers[w].task = workers[v].task => w = v

EventRecord == [type : {"accepted", "rejected", "completion", "failure", "none"}, task : 0..MaxTasks,
                run : 0..MaxTurns]

EntryRecord  == [known : BOOLEAN, in_flight : BOOLEAN, transcript : Seq(Turns)]
WorkerRecord == [pc : {"none", "posting", "resolved", "record", "emit", "sending", "done"},
                 task : 0..MaxTasks, replay : Seq(Turns), outcome : {"none", "completion", "failure"}]
SinkRecord   == [pc : {"idle", "accepting", "sending"}, task : 0..MaxTasks, event : EventRecord]
LineEntry    == [from : 0..MaxTurns, event : EventRecord]

WebhookType ==
    /\ registry \in [Tasks -> EntryRecord] /\ minted \in 0..MaxTasks
    /\ workers \in [Turns -> WorkerRecord]
    /\ line \in Seq(LineEntry) /\ received \subseteq EventRecord
    /\ cancelled \in BOOLEAN /\ sink \in SinkRecord

\* A turn at the gateway, or not yet finished, has its task's slot, alone; so has a task
\* whose first turn waits for its Accepted, and no turn was ever started for it.
AtGateway(w) == workers[w].pc \in {"posting", "resolved"}
SlotsAreHeld ==
    /\ \A w \in Turns : workers[w].pc # "none" => workers[w].task \in 1..minted
    /\ \A w \in Turns : AtGateway(w) => registry[workers[w].task].in_flight
    /\ \A w, v \in Turns : AtGateway(w) /\ AtGateway(v) /\ workers[w].task = workers[v].task => w = v
    /\ sink.pc = "accepting" =>
         /\ sink.task \in 1..minted /\ registry[sink.task].in_flight
         /\ \A w \in Turns : workers[w].pc # "none" => workers[w].task # sink.task

\* What a completion that the source was told of, or that is on its way to it, answers is in
\* its task's transcript, or the transcript is full.
Remembered(transcript, w) == w \in ToSet(transcript) \/ Len(transcript) = TranscriptCapacity
AnswersAreRemembered ==
    /\ \A t \in Tasks : Len(registry[t].transcript) <= TranscriptCapacity
    /\ \A w \in Turns : workers[w].pc \in {"emit", "sending", "done"} /\ workers[w].outcome = "completion" =>
         Remembered(registry[workers[w].task].transcript, w)
    /\ \A e \in EventRecord : (e \in received \/ InLine(line, e)) /\ e.type = "completion" =>
         /\ e.run \in Turns /\ workers[e.run].pc \in {"sending", "done"}
         /\ workers[e.run].task = e.task /\ workers[e.run].outcome = "completion"

SlotsInv == WebhookType /\ SlotsAreHeld /\ OneTurnAtATime /\ AnswersAreRemembered

\* A follow-up replays every answer the pipeline has been told of, unless others fill the
\* transcript: what the user heard, the agent remembers (record_turn before the terminal
\* event, inner.rs).
ReplaysWhatWasReported ==
    \A w \in Turns : Starts(w) =>
        \A e \in received : e.type = "completion" /\ e.task = workers'[w].task =>
            Remembered(workers'[w].replay, e.run)

\* Every turn that was started is reported to the pipeline, unless the transport is
\* cancelled, also when the channel is full of other turns' events.
TurnIsReported ==
    \A w \in Turns :
        workers[w].pc = "posting" ~> cancelled \/ \E e \in received : e.run = w /\ Terminal(e)
=============================================================================
