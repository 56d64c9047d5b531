--------------------------- MODULE HermesDispatch ---------------------------
(***************************************************************************)
(* The Hermes dispatch transport: a sink that posts runs, a detached       *)
(* poller that sweeps the active ones, and the registry both lock.  The    *)
(* sink is called by one egress stage at a time, and a barge-in drops its  *)
(* future at whichever await it stands.  The HTTP server is external: it   *)
(* may lose an answer, end a run well or badly ("failed" stands for        *)
(* cancelled too, "running" for every status before the end) and forget an *)
(* ended one.  What is said in a run stands for itself: a turn of a task's *)
(* history is a role and the run it was said in.                           *)
(***************************************************************************)
EXTENDS EventChannel, FiniteSets

CONSTANTS
    RingCapacity,  \* EVENT_RING_CAPACITY, 32 in the code
    MaxCommands,   \* bound on the calls of send_command
    MaxTasks,   \* bound on the tasks minted
    MaxRuns     \* bound on the runs the server starts

ASSUME HermesAssumption ==
    /\ RingCapacity \in Nat \ {0}
    /\ MaxCommands \in Nat /\ MaxTasks \in Nat /\ MaxRuns \in Nat

VARIABLES
    registry,   \* TaskId -> TaskEntry: active run (0: none), last status, history
    trail,      \* TaskId -> the entry's event ring
    minted,     \* how many task ids exist
    commands,   \* how many commands were sent
    runs,       \* the server: run -> [task, status]
    line,       \* the event channel, with the senders that wait
    cancelled,
    sink,       \* the sink's future: [pc, kind, task, run, history, event]
    poller,     \* the poller task: [pc, todo, task, run, status, event]
    received,   \* ghost: the terminal events the source returned
    closed      \* the source returned None

hermes == <<registry, trail, minted, commands, runs, line, cancelled, sink, poller, received, closed>>

Tasks    == 1..MaxTasks
NoEntry  == [known |-> FALSE, active |-> 0, last |-> "none", history |-> <<>>]
NoEvent  == Event("none", 0, 0)
IdleSink == [pc |-> "idle", kind |-> "none", task |-> 0, run |-> 0, history |-> <<>>, event |-> NoEvent]
Resting  == [pc |-> "idle", todo |-> {}, task |-> 0, run |-> 0, status |-> "none", event |-> NoEvent]

InFlight == {"running"}
Finished == {"completed", "failed"}
Statuses == InFlight \cup Finished \cup {"gone"}
EventTypes == {"none", "accepted", "rejected", "progress", "completion", "failure"}

\* A turn of a task's conversation.
HistoryTurn(role, run) == [role |-> role, run |-> run]

HermesInit ==
    /\ registry = [t \in Tasks |-> NoEntry]
    /\ trail = [t \in Tasks |-> <<>>]
    /\ minted = 0
    /\ commands = 0
    /\ runs = <<>>
    /\ line = <<>>
    /\ cancelled = FALSE
    /\ sink = IdleSink
    /\ poller = Resting
    /\ received = {}
    /\ closed = FALSE

-----------------------------------------------------------------------------
(* emit, shared by the sink and the poller                                 *)

\* The oldest event makes room.
Push(ring, event) == Append(IF Len(ring) = RingCapacity THEN Tail(ring) ELSE ring, event)

\* A rejection is of no task.
HasTask(event) == event.type # "rejected" /\ registry[event.task].known

\* The ring first, then the channel; a sender taken by cancel ends the caller.
Emit(from, event) ==
    /\ trail' = IF HasTask(event) THEN [trail EXCEPT ![event.task] = Push(@, event)] ELSE trail
    /\ line' = IF cancelled THEN line ELSE Enqueued(line, from, event)

-----------------------------------------------------------------------------
(* The sink                                                                *)

Called == sink.pc = "idle" /\ ~cancelled /\ commands < MaxCommands /\ commands' = commands + 1

\* send_command: refused once cancelled.
Create ==
    /\ Called /\ minted < MaxTasks
    /\ minted' = minted + 1
    /\ sink' = [IdleSink EXCEPT !.pc = "posting", !.kind = "create", !.task = minted + 1]
    /\ UNCHANGED <<registry, trail, runs, line, cancelled, poller, received, closed>>

\* Mutant: an update posts whatever the task is doing.
UpdateAnyway(t) ==
    /\ Called /\ t <= minted
    /\ sink' = IF registry[t].known
                 THEN [IdleSink EXCEPT !.pc = "posting", !.kind = "update", !.task = t]
                 ELSE [IdleSink EXCEPT !.pc = "emit", !.event = Event("rejected", 0, 0)]
    /\ UNCHANGED <<registry, trail, minted, runs, line, cancelled, poller, received, closed>>

Readiness(t) == IF ~registry[t].known THEN "unknown"
                ELSE IF registry[t].active # 0 THEN "running" ELSE "idle"

\* A task that is unknown or running is refused; the history of an idle one is taken along.
Update(t) ==
    /\ Called /\ t <= minted
    /\ sink' = IF Readiness(t) = "idle"
                 THEN [IdleSink EXCEPT !.pc = "posting", !.kind = "update", !.task = t,
                                       !.history = registry[t].history]
                 ELSE [IdleSink EXCEPT !.pc = "emit", !.event = Event("rejected", 0, 0)]
    /\ UNCHANGED <<registry, trail, minted, runs, line, cancelled, poller, received, closed>>

\* create_run reaches the server, which starts the run.
RunStarts ==
    /\ sink.pc = "posting" /\ Len(runs) < MaxRuns
    /\ runs' = Append(runs, [task |-> sink.task, status |-> "running"])
    /\ sink' = [sink EXCEPT !.pc = "posted", !.run = Len(runs) + 1]
    /\ UNCHANGED <<registry, trail, minted, commands, line, cancelled, poller, received, closed>>

\* An error status, or no answer in time, whether or not the run was started.
PostFails ==
    /\ sink.pc \in {"posting", "posted"}
    /\ sink' = [IdleSink EXCEPT !.pc = "emit", !.event = Event("rejected", 0, 0)]
    /\ UNCHANGED <<registry, trail, minted, commands, runs, line, cancelled, poller, received, closed>>

\* The run's id is back: a new entry, announced next, or the re-armed one; what the run was
\* given joins the history.
Posted ==
    /\ sink.pc = "posted"
    /\ IF sink.kind = "create"
         THEN /\ registry' = [registry EXCEPT ![sink.task] =
                     [known |-> TRUE, active |-> sink.run, last |-> "none",
                      history |-> <<HistoryTurn("user", sink.run)>>]]
              /\ sink' = [IdleSink EXCEPT !.pc = "emit", !.event = Event("accepted", sink.task, sink.run)]
         ELSE /\ registry' = [registry EXCEPT
                     ![sink.task].active = sink.run, ![sink.task].last = "none",
                     ![sink.task].history = Append(@, HistoryTurn("user", sink.run))]
              /\ sink' = IdleSink
    /\ UNCHANGED <<trail, minted, commands, runs, line, cancelled, poller, received, closed>>

\* The registry is unlocked before emit: the poller may come between.
SinkEmits ==
    /\ sink.pc = "emit"
    /\ Emit("sink", sink.event)
    /\ sink' = IF cancelled THEN IdleSink ELSE [IdleSink EXCEPT !.pc = "sending"]
    /\ UNCHANGED <<registry, minted, commands, runs, cancelled, poller, received, closed>>

SinkSent ==
    /\ sink.pc = "sending" /\ ~Waits(line, "sink")
    /\ sink' = IdleSink
    /\ UNCHANGED <<registry, trail, minted, commands, runs, line, cancelled, poller, received, closed>>

\* A barge-in, at an await.
SinkDropped ==
    /\ sink.pc \in {"posting", "posted", "sending"}
    /\ sink' = IdleSink
    /\ line' = Withdrawn(line, "sink")
    /\ UNCHANGED <<registry, trail, minted, commands, runs, cancelled, poller, received, closed>>

Sink == RunStarts \/ PostFails \/ Posted \/ SinkEmits \/ SinkSent

-----------------------------------------------------------------------------
(* The poller                                                              *)

Says(type) == poller' = [Resting EXCEPT !.pc = "emit", !.todo = poller.todo,
                                         !.event = Event(type, poller.task, poller.run)]
Moves(pc)  == poller' = [Resting EXCEPT !.pc = pc, !.todo = poller.todo]

\* A tick or a wake; both only decide when.
Sweep ==
    /\ poller.pc = "idle"
    /\ poller' = IF cancelled THEN [Resting EXCEPT !.pc = "stopped"]
                 ELSE [Resting EXCEPT !.pc = "next",
                        !.todo = {<<t, registry[t].active>> : t \in {u \in Tasks : registry[u].active # 0}}]
    /\ UNCHANGED <<registry, trail, minted, commands, runs, line, cancelled, sink, received, closed>>

AskNext ==
    /\ poller.pc = "next"
    /\ IF poller.todo = {} THEN poller' = Resting
       ELSE \E p \in poller.todo :
              poller' = [poller EXCEPT !.pc = "asking", !.todo = @ \ {p}, !.task = p[1], !.run = p[2]]
    /\ UNCHANGED <<registry, trail, minted, commands, runs, line, cancelled, sink, received, closed>>

\* get_run: the status as the server sees it at one moment of the exchange.
ServerAnswers ==
    /\ poller.pc = "asking"
    /\ poller' = [poller EXCEPT !.pc = "answered", !.status = runs[poller.run].status]
    /\ UNCHANGED <<registry, trail, minted, commands, runs, line, cancelled, sink, received, closed>>

PollFails ==
    /\ poller.pc = "asking"
    /\ Moves("next")
    /\ UNCHANGED <<registry, trail, minted, commands, runs, line, cancelled, sink, received, closed>>

\* Mutant: a run the server has forgotten is dropped without a word.
ApplyForgettingGone ==
    /\ poller.pc = "answered"
    /\ LET entry == registry[poller.task] IN
       IF \/ entry.active # poller.run
          \/ poller.status \in InFlight /\ entry.last = poller.status
         THEN registry' = registry /\ Moves("next")
         ELSE IF poller.status \in InFlight
         THEN registry' = [registry EXCEPT ![poller.task].last = poller.status] /\ Says("progress")
         ELSE /\ registry' = [registry EXCEPT ![poller.task].active = 0]
              /\ IF poller.status = "gone" THEN Moves("next") ELSE Says("failure")
    /\ UNCHANGED <<trail, minted, commands, runs, line, cancelled, sink, received, closed>>

\* The task is between runs; an answer becomes context for the next.
Cleared(entry, status, run) ==
    [entry EXCEPT !.active = 0,
                  !.history = IF status = "completed"
                                THEN Append(@, HistoryTurn("assistant", run)) ELSE @]

\* apply and clear_run, under the lock.
Apply ==
    /\ poller.pc = "answered"
    /\ LET entry == registry[poller.task] IN
       IF \/ entry.active # poller.run
          \/ poller.status \in InFlight /\ entry.last = poller.status
         THEN registry' = registry /\ Moves("next")
         ELSE IF poller.status \in InFlight
         THEN registry' = [registry EXCEPT ![poller.task].last = poller.status] /\ Says("progress")
         ELSE /\ registry' = [registry EXCEPT ![poller.task] = Cleared(@, poller.status, poller.run)]
              /\ Says(IF poller.status = "completed" THEN "completion" ELSE "failure")
    /\ UNCHANGED <<trail, minted, commands, runs, line, cancelled, sink, received, closed>>

PollerEmits ==
    /\ poller.pc = "emit"
    /\ Emit("poller", poller.event)
    /\ poller' = IF cancelled THEN [Resting EXCEPT !.pc = "stopped"] ELSE [Resting EXCEPT !.pc = "sending", !.todo = poller.todo]
    /\ UNCHANGED <<registry, minted, commands, runs, cancelled, sink, received, closed>>

\* Mutant: a poller cancelled while it sends stops there, and keeps its sender.
PollerSentOrStuck ==
    /\ poller.pc = "sending" /\ ~Waits(line, "poller") /\ ~cancelled
    /\ Moves("next")
    /\ UNCHANGED <<registry, trail, minted, commands, runs, line, cancelled, sink, received, closed>>

PollerSent ==
    /\ poller.pc = "sending" /\ ~Waits(line, "poller")
    /\ Moves("next")
    /\ UNCHANGED <<registry, trail, minted, commands, runs, line, cancelled, sink, received, closed>>

Poller == Sweep \/ AskNext \/ Apply \/ PollerEmits \/ PollerSent

-----------------------------------------------------------------------------
(* The server and the source                                               *)

RunMoves(r) ==
    /\ runs[r].status # "gone"
    /\ \E s \in IF runs[r].status \in InFlight THEN Finished ELSE {"gone"} :
         runs' = [runs EXCEPT ![r].status = s]
    /\ UNCHANGED <<registry, trail, minted, commands, line, cancelled, sink, poller, received, closed>>

NextEvent ==
    /\ line # <<>> /\ ~closed
    /\ received' = received \cup {e \in {line[1].event} : Terminal(e)}
    /\ line' = Tail(line)
    /\ UNCHANGED <<registry, trail, minted, commands, runs, cancelled, sink, poller, closed>>

\* recv returns None: nothing is buffered and nobody holds a sender.
SourceCloses ==
    /\ line = <<>> /\ cancelled /\ ~closed
    /\ sink.pc # "sending" /\ poller.pc # "sending"
    /\ closed' = TRUE
    /\ UNCHANGED <<registry, trail, minted, commands, runs, line, cancelled, sink, poller, received>>

Cancel ==
    /\ ~cancelled
    /\ cancelled' = TRUE
    /\ UNCHANGED <<registry, trail, minted, commands, runs, line, sink, poller, received, closed>>

HermesNext ==
    \/ Create \/ (\E t \in Tasks : Update(t)) \/ Sink \/ SinkDropped
    \/ Poller \/ ServerAnswers \/ PollFails
    \/ (\E r \in DOMAIN runs : RunMoves(r))
    \/ NextEvent \/ SourceCloses \/ Cancel

-----------------------------------------------------------------------------
(* Properties                                                              *)

\* A poll in flight is always about the run its task still has: since one poller clears
\* runs and an update waits for that, no answer comes late (apply's test, inner.rs).
PollsCurrentRun ==
    poller.pc \in {"asking", "answered"} => registry[poller.task].active = poller.run

\* What the poller tells of a run ends with its one terminal event, and only then does it
\* tell of the task's next run, however polls, updates and dropped sends interleave.  (Only
\* Accepted, which the sink sends, may come after what the poller tells.)
Ordered(ring) ==
    \A i, j \in DOMAIN ring :
        i < j /\ ring[i].type # "accepted" /\ ring[j].type # "accepted" =>
            /\ ring[i].run <= ring[j].run
            /\ Terminal(ring[i]) => ring[i].run # ring[j].run
OneReportPerRun == \A t \in Tasks : Ordered(trail[t])

\* Each answer of a history comes right after its question.
Paired(history) ==
    \A i \in DOMAIN history : history[i].role = "assistant" =>
        i > 1 /\ history[i - 1] = HistoryTurn("user", history[i].run)

\* A run that chains is told every answer the pipeline was told of before, and each question
\* ahead of its answer.
FollowUpKnowsAnswers ==
    sink.pc = "idle" /\ sink'.pc = "posting" /\ sink'.kind = "update" =>
        /\ \A e \in received : e.task = sink'.task /\ e.type = "completion" =>
               HistoryTurn("assistant", e.run) \in Range(sink'.history)
        /\ Paired(sink'.history)

\* The poller and the command side agree on which run a task is at.
RunsAreKeptApart == PollsCurrentRun /\ OneReportPerRun

\* What a ring holds of runs is of runs before this one, or up to it.
Before(ring, run) == \A i \in DOMAIN ring : ring[i].type # "accepted" => ring[i].run < run
UpTo(ring, run) ==
    \A i \in DOMAIN ring : ring[i].type # "accepted" =>
        ring[i].run <= run /\ (Terminal(ring[i]) => ring[i].run # run)

EventRecord == [type : EventTypes, task : 0..MaxTasks, run : 0..MaxRuns]
TurnsOfHistory == Seq([role : {"user", "assistant"}, run : 1..MaxRuns])

EntryRecord  == [known : BOOLEAN, active : 0..MaxRuns, last : Statuses \cup {"none"},
                 history : TurnsOfHistory]
SinkRecord   == [pc : {"idle", "posting", "posted", "emit", "sending"},
                 kind : {"none", "create", "update"}, task : 0..MaxTasks, run : 0..MaxRuns,
                 history : TurnsOfHistory, event : EventRecord]
PollerRecord == [pc : {"idle", "next", "asking", "answered", "emit", "sending", "stopped"},
                 todo : SUBSET (Tasks \X (1..MaxRuns)), task : 0..MaxTasks, run : 0..MaxRuns,
                 status : Statuses \cup {"none"}, event : EventRecord]

HermesType ==
    /\ registry \in [Tasks -> EntryRecord] /\ trail \in [Tasks -> Seq(EventRecord)]
    /\ minted \in 0..MaxTasks /\ cancelled \in BOOLEAN
    /\ runs \in Seq([task : 0..MaxTasks, status : Statuses]) /\ Len(runs) <= MaxRuns
    /\ sink \in SinkRecord /\ poller \in PollerRecord
    /\ line \in Seq([from : {"sink", "poller"}, event : EventRecord]) /\ received \subseteq EventRecord

\* The sink posts for a task that has no run, and the run it is given is news: nothing told
\* of the task, or about to be, is of a later one.
SinkHoldsTask ==
    /\ sink.pc \in {"posting", "posted"} =>
         /\ sink.kind \in {"create", "update"}
         /\ sink.task \in Tasks /\ sink.task <= minted /\ registry[sink.task].active = 0
    /\ sink.pc = "posted" =>
         /\ sink.run \in 1..Len(runs) /\ Before(trail[sink.task], sink.run)
         /\ poller.pc = "emit" /\ poller.event.task = sink.task => poller.event.run < sink.run
    /\ sink.pc = "emit" => sink.event.type \in {"accepted", "rejected"}

\* What the sweep found active still is; what is about to be told is of the run the task
\* is at, or ends the run it was at.
PollerFollows ==
    /\ \A p \in poller.todo : registry[p[1]].active = p[2]
    /\ poller.pc \in {"asking", "answered"} =>
         /\ poller.task \in Tasks /\ poller.run \in 1..Len(runs)
         /\ \A p \in poller.todo : p[1] # poller.task
    /\ poller.pc = "emit" =>
         LET e == poller.event IN
         /\ e.type \in {"progress", "completion", "failure"} /\ e.task \in Tasks
         /\ e.run \in 1..Len(runs) /\ UpTo(trail[e.task], e.run)
         /\ IF Terminal(e) THEN registry[e.task].active = 0 \/ registry[e.task].active > e.run
                           ELSE registry[e.task].active = e.run

\* A task's run is the last it is told of.
RunsAreLast ==
    \A t \in Tasks :
        /\ registry[t].active # 0 => registry[t].active <= Len(runs) /\ UpTo(trail[t], registry[t].active)
        /\ t > minted => registry[t].active = 0
        /\ \A i \in DOMAIN trail[t] : trail[t][i].type # "accepted" => trail[t][i].run <= Len(runs)

\* What a task was asked and what it answered, in the order of its history; a run that is
\* told as completed is in it with its answer.
Told(e) == e \in received \/ InLine(line, e) \/ (poller.pc = "emit" /\ poller.event = e)
HistoriesAreWhole ==
    /\ \A t \in Tasks :
         LET history == registry[t].history IN
         /\ Paired(history)
         /\ registry[t].active # 0 =>
              /\ registry[t].known /\ history # <<>>
              /\ history[Len(history)] = HistoryTurn("user", registry[t].active)
         /\ registry[t].known => t <= minted
    /\ sink.pc \in {"posting", "posted"} => (registry[sink.task].known <=> sink.kind = "update")
    /\ \A e \in EventRecord : Told(e) /\ e.type = "completion" =>
         /\ e.task \in Tasks /\ registry[e.task].known
         /\ HistoryTurn("assistant", e.run) \in Range(registry[e.task].history)

RunsInv ==
    /\ HermesType /\ SinkHoldsTask /\ PollerFollows /\ RunsAreLast
    /\ RunsAreKeptApart /\ HistoriesAreWhole

\* Every run the registry tracks is reported to the pipeline, unless the transport is
\* cancelled: also one the server forgot, one whose polls failed, one that finished while
\* the channel was full.
TrackedRunIsReported ==
    \A t \in Tasks : \A r \in 1..MaxRuns :
        r \in DOMAIN runs /\ registry[t].active = r ~>
            cancelled \/ Event("completion", t, r) \in received \/ Event("failure", t, r) \in received

\* After cancel the source sees the end, with whatever sends were under way.
CloseIsSeen == cancelled ~> closed
=============================================================================
