--------------------------- MODULE ZeroclawActor ----------------------------
(***************************************************************************)
(* ZeroclawLm: the handle an LmStage calls, and the actor thread that      *)
(* drives one session/prompt turn after another over a socket.  A cancel   *)
(* raises epoch and then tells the actor through a watch channel; a turn   *)
(* remembers the epoch it was asked for under.                             *)
(*                                                                         *)
(* The daemon is external.  It answers on an ordered socket, ends every    *)
(* turn (turn_complete, then the response to the prompt; or the response   *)
(* alone), and the socket may drop; what was under way on a dropped        *)
(* connection never shows on the next one.  What a turn says, and the      *)
(* blanks and tool calls put between, are left out: an item of a stream is *)
(* the generation whose text it is, or Error.  So are the identity that    *)
(* the daemon assigns and the session id: an update is of the session the  *)
(* actor is attached to, of another one, or names none.                    *)
(***************************************************************************)
EXTENDS Naturals, Sequences

CONSTANTS
    MaxGens,      \* bound on the generations
    MaxCancels,   \* bound on the epoch
    MaxChunks,    \* bound on the updates in a turn before its last
    MaxDrops      \* bound on lost connections

ASSUME LmAssumption == MaxGens \in Nat

VARIABLES
    epoch,     \* Shared::epoch
    watch,     \* the watch channel: [value, changed]
    handle,    \* the stage's side: [pc, stream (0: none), gens]
    cmds,      \* commands to the actor: a generation, or 0 for Shutdown
    streams,   \* generation -> [epoch, alive (receiver), ended (sender dropped), items]
    actor,     \* the actor: [pc, gen, queued, suppressed, cancelled, spoke, fallback]
    requests,  \* on the wire to the daemon: a generation, or 0 for session/cancel
    incoming,  \* what the daemon has sent: [type, session, gen]
    daemon,    \* the daemon: [gen (0: no turn), chunks, cancelled]
    drops,
    overlap    \* ghost: a prompt reached the daemon during a turn of this connection

lm == <<epoch, watch, handle, cmds, streams, actor, requests, incoming, daemon, drops, overlap>>

Gens == 1..MaxGens
Error == 0
NoStream == [epoch |-> 0, alive |-> FALSE, ended |-> FALSE, items |-> <<>>]
AtRest == [pc |-> "idle", gen |-> 0, queued |-> 0, suppressed |-> FALSE, cancelled |-> FALSE,
           spoke |-> FALSE, fallback |-> FALSE]
NoTurn == [gen |-> 0, chunks |-> 0, cancelled |-> FALSE]

LmInit ==
    /\ epoch = 0
    /\ watch = [value |-> 0, changed |-> FALSE]
    /\ handle = [pc |-> "connect", stream |-> 0, gens |-> 0]
    /\ cmds = <<>>
    /\ streams = [g \in Gens |-> NoStream]
    /\ actor = [AtRest EXCEPT !.pc = "dial"]
    /\ requests = <<>>
    /\ incoming = <<>>
    /\ daemon = NoTurn
    /\ drops = 0
    /\ overlap = FALSE

Wire == <<requests, incoming, daemon, drops, overlap>>

-----------------------------------------------------------------------------
(* The handle                                                              *)

\* connect's future is dropped before the worker is ready.
ConnectVanishes ==
    /\ handle.pc = "connect"
    /\ handle' = [handle EXCEPT !.pc = "vanished"]
    /\ UNCHANGED <<epoch, watch, cmds, streams, actor, Wire>>

\* render_last: what the last message of the conversation makes of a turn.
Tails == {"user", "event", "tool result", "blank", "system", "assistant", "none"}
Rendered(tail) ==
    CASE tail \in {"user", "event", "tool result"} -> "prompt"
      [] tail = "blank"                            -> "empty"
      [] OTHER                                     -> "error"

\* A blank prompt gets a stream that is empty and over, and an error none: nothing changes.
Generate ==
    /\ handle.pc = "idle" /\ handle.stream = 0 /\ handle.gens < MaxGens
    /\ \E tail \in Tails : Rendered(tail) = "prompt"
    /\ LET g == handle.gens + 1 IN
         /\ handle' = [handle EXCEPT !.stream = g, !.gens = g]
         /\ streams' = [streams EXCEPT ![g] = [NoStream EXCEPT !.epoch = epoch, !.alive = TRUE]]
         /\ cmds' = Append(cmds, g)
    /\ UNCHANGED <<epoch, watch, actor, Wire>>

StreamEnds ==
    /\ handle.stream # 0 /\ streams[handle.stream].ended
    /\ handle' = [handle EXCEPT !.stream = 0]
    /\ UNCHANGED <<epoch, watch, cmds, streams, actor, Wire>>

\* A barge-in: the stage drops the stream and calls cancel, which raises the epoch ...
CancelRaises ==
    /\ handle.pc = "idle" /\ epoch < MaxCancels
    /\ epoch' = epoch + 1
    /\ handle' = [handle EXCEPT !.pc = "cancel", !.stream = 0]
    /\ streams' = IF handle.stream = 0 THEN streams ELSE [streams EXCEPT ![handle.stream].alive = FALSE]
    /\ UNCHANGED <<watch, cmds, actor, Wire>>

\* ... and only then sends it on the watch channel.
CancelTells ==
    /\ handle.pc = "cancel"
    /\ watch' = [value |-> epoch, changed |-> TRUE]
    /\ handle' = [handle EXCEPT !.pc = "idle"]
    /\ UNCHANGED <<epoch, cmds, streams, actor, Wire>>

\* Shared::drop: a cancel, and Shutdown; then it joins the thread.
Drop ==
    /\ handle.pc = "idle" /\ handle.stream = 0
    /\ epoch' = epoch + 1
    /\ watch' = [value |-> epoch + 1, changed |-> TRUE]
    /\ cmds' = Append(cmds, 0)
    /\ handle' = [handle EXCEPT !.pc = "dropped"]
    /\ UNCHANGED <<streams, actor, Wire>>

Handle == ConnectVanishes \/ Generate \/ StreamEnds \/ CancelRaises \/ CancelTells \/ Drop

-----------------------------------------------------------------------------
(* The actor                                                               *)

\* unbounded_send on a stream, which fails silently when the receiver is gone.
Sent(ss, g, item) == IF ss[g].alive THEN [ss EXCEPT ![g].items = Append(@, item)] ELSE ss
Closed(ss, g)     == [ss EXCEPT ![g].ended = TRUE]
Failed(ss, g)     == Closed(Sent(ss, g, Error), g)
NoteUnless(suppressed, g, item) == IF suppressed THEN streams ELSE Sent(streams, g, item)

ConnUp == \A i \in DOMAIN incoming : incoming[i].type # "closed"

\* establish: dial, initialize, session/new, one after the other and with nothing else
\* looked at; updates that come meanwhile are discarded.  While the actor is down, commands
\* are looked at first.
Dials ==
    /\ actor.pc = "dial" \/ (actor.pc = "down" /\ cmds = <<>>)
    /\ actor' = [AtRest EXCEPT !.pc = "initialize"]
    /\ UNCHANGED <<epoch, watch, handle, cmds, streams, Wire>>

Initializes ==
    /\ actor.pc = "initialize"
    /\ actor' = [actor EXCEPT !.pc = "attach"]
    /\ UNCHANGED <<epoch, watch, handle, cmds, streams, Wire>>

\* The session is attached to; the first time, connect is told.
Attaches ==
    /\ actor.pc = "attach"
    /\ actor' = IF handle.pc = "vanished" THEN [AtRest EXCEPT !.pc = "exit"] ELSE AtRest
    /\ handle' = IF handle.pc = "connect" THEN [handle EXCEPT !.pc = "idle"] ELSE handle
    /\ UNCHANGED <<epoch, watch, cmds, streams, Wire>>

\* A request of the handshake is refused, is not answered in HANDSHAKE_TIMEOUT, or meets
\* the end of the connection.  The first time, connect fails; later there is a backoff.
EstablishFails ==
    /\ actor.pc \in {"dial", "initialize", "attach"}
    /\ IF handle.pc \in {"connect", "vanished"}
         THEN /\ actor' = [AtRest EXCEPT !.pc = "exit"]
              /\ handle' = [handle EXCEPT !.pc = "vanished"]
         ELSE /\ actor' = [AtRest EXCEPT !.pc = "down"]
              /\ UNCHANGED handle
    /\ UNCHANGED <<epoch, watch, cmds, streams, Wire>>

Establishing == Dials \/ Initializes \/ Attaches \/ EstablishFails

\* tick_connected takes a command first, then looks at the socket, then at the watch.
TakeCommand ==
    /\ actor.pc \in {"idle", "down"} /\ cmds # <<>>
    /\ cmds' = Tail(cmds)
    /\ IF Head(cmds) = 0 THEN actor' = [AtRest EXCEPT !.pc = "exit"] /\ streams' = streams
       ELSE IF actor.pc = "down" THEN actor' = actor /\ streams' = Failed(streams, Head(cmds))
       ELSE actor' = [AtRest EXCEPT !.pc = "check", !.gen = Head(cmds)] /\ streams' = streams
    /\ UNCHANGED <<epoch, watch, handle, Wire>>

\* mark_down: the connection is dropped with whatever it still holds.
Disconnected == requests' = <<>> /\ incoming' = <<>> /\ daemon' = NoTurn /\ UNCHANGED <<drops, overlap>>

IdleIncoming ==
    /\ actor.pc = "idle" /\ cmds = <<>> /\ incoming # <<>>
    /\ IF Head(incoming).type = "closed"
         THEN actor' = [AtRest EXCEPT !.pc = "down"] /\ Disconnected
         ELSE incoming' = Tail(incoming) /\ UNCHANGED <<actor, requests, daemon, drops, overlap>>
    /\ UNCHANGED <<epoch, watch, handle, cmds, streams>>

IdleCancel ==
    /\ actor.pc = "idle" /\ cmds = <<>> /\ incoming = <<>> /\ watch.changed
    /\ watch' = [watch EXCEPT !.changed = FALSE]
    /\ UNCHANGED <<epoch, handle, cmds, streams, actor, Wire>>

\* turn: a generation of an older epoch ends empty ...
TurnChecks ==
    /\ actor.pc = "check"
    /\ actor' = [actor EXCEPT !.pc = IF epoch = streams[actor.gen].epoch THEN "mark" ELSE "done"]
    /\ UNCHANGED <<epoch, watch, handle, cmds, streams, Wire>>

\* ... and whatever the watch holds now is marked seen.
TurnMarks ==
    /\ actor.pc = "mark"
    /\ watch' = [watch EXCEPT !.changed = FALSE]
    /\ actor' = [actor EXCEPT !.pc = "prompt"]
    /\ UNCHANGED <<epoch, handle, cmds, streams, Wire>>

TurnPrompts ==
    /\ actor.pc = "prompt"
    /\ IF ConnUp THEN /\ requests' = Append(requests, actor.gen)
                      /\ actor' = [actor EXCEPT !.pc = "loop"]
                      /\ streams' = streams
       ELSE /\ streams' = Sent(streams, actor.gen, Error)
            /\ actor' = [actor EXCEPT !.pc = "lost"]
            /\ requests' = requests
    /\ UNCHANGED <<epoch, watch, handle, cmds, incoming, daemon, drops, overlap>>

\* At most one generation is queued behind the turn under way.
LoopCommand ==
    /\ actor.pc = "loop" /\ cmds # <<>>
    /\ cmds' = Tail(cmds)
    /\ IF Head(cmds) = 0
         THEN /\ actor' = [AtRest EXCEPT !.pc = "exit"]
              /\ streams' = [g \in Gens |-> IF g \in {actor.gen, actor.queued}
                                              THEN [streams[g] EXCEPT !.ended = TRUE] ELSE streams[g]]
       ELSE IF actor.queued = 0
         THEN actor' = [actor EXCEPT !.queued = Head(cmds)] /\ streams' = streams
         ELSE actor' = actor /\ streams' = Failed(streams, Head(cmds))
    /\ UNCHANGED <<epoch, watch, handle, Wire>>

\* Mutant: a turn told to cancel does not wait for its terminal.
LoopCancelLeaves ==
    /\ actor.pc = "loop" /\ cmds = <<>> /\ watch.changed
    /\ watch' = [watch EXCEPT !.changed = FALSE]
    /\ IF watch.value = streams[actor.gen].epoch \/ actor.cancelled
         THEN UNCHANGED <<actor, requests>>
         ELSE /\ actor' = [actor EXCEPT !.pc = IF ConnUp THEN "done" ELSE "lost"]
              /\ requests' = IF ConnUp THEN Append(requests, 0) ELSE requests
    /\ UNCHANGED <<epoch, handle, cmds, streams, incoming, daemon, drops, overlap>>

LoopCancel ==
    /\ actor.pc = "loop" /\ cmds = <<>> /\ watch.changed
    /\ watch' = [watch EXCEPT !.changed = FALSE]
    /\ IF watch.value = streams[actor.gen].epoch \/ actor.cancelled
         THEN UNCHANGED <<actor, requests>>
         ELSE /\ actor' = [actor EXCEPT !.suppressed = TRUE, !.cancelled = TRUE,
                                        !.pc = IF ConnUp THEN "loop" ELSE "lost"]
              /\ requests' = IF ConnUp THEN Append(requests, 0) ELSE requests
    /\ UNCHANGED <<epoch, handle, cmds, streams, incoming, daemon, drops, overlap>>

\* SessionUpdate::from_params, and the actor's look at the session: what an update of each
\* type is, any other being Unknown.  An outcome the adapter does not know is a failure.
Kinds ==
    [agent_message_chunk |-> "chunk", completed |-> "complete", cancelled |-> "silence",
     failed |-> "failure", some_future_outcome |-> "failure", tool_call |-> "noise",
     tool_result |-> "noise", agent_thought_chunk |-> "noise", approval_request |-> "noise",
     context_usage |-> "noise", plan |-> "noise", history_trimmed |-> "noise"]
Classified(m) ==
    IF m.type \in {"response", "error", "closed"} THEN m.type
    ELSE IF m.session = "own" /\ m.type \in DOMAIN Kinds THEN Kinds[m.type] ELSE "noise"

LoopIncoming ==
    /\ actor.pc = "loop" /\ cmds = <<>> /\ ~watch.changed /\ incoming # <<>>
    /\ incoming' = Tail(incoming)
    /\ LET m  == Head(incoming)
           is == Classified(m)
       IN
       CASE is = "chunk" ->
              /\ streams' = NoteUnless(actor.suppressed, actor.gen, m.gen)
              /\ actor' = [actor EXCEPT !.spoke = TRUE, !.suppressed = @ \/ ~streams[actor.gen].alive]
         [] is \in {"complete", "silence", "failure"} ->
              /\ streams' = CASE is = "complete" ->
                                   NoteUnless(actor.suppressed \/ actor.spoke, actor.gen, m.gen)
                              [] is = "failure"  -> NoteUnless(actor.suppressed, actor.gen, Error)
                              [] is = "silence"  -> streams
              /\ actor' = [actor EXCEPT !.pc = "done"]
         [] is = "response" ->
              /\ actor' = IF m.gen = actor.gen THEN [actor EXCEPT !.fallback = TRUE] ELSE actor
              /\ streams' = streams
         [] is = "error" ->
              /\ actor' = IF m.gen = actor.gen THEN [actor EXCEPT !.pc = "done"] ELSE actor
              /\ streams' = NoteUnless(actor.suppressed \/ m.gen # actor.gen, actor.gen, Error)
         [] is = "closed" ->
              /\ streams' = NoteUnless(actor.suppressed, actor.gen, Error)
              /\ actor' = [actor EXCEPT !.pc = "lost"]
         [] is = "noise" -> UNCHANGED <<streams, actor>>
    /\ UNCHANGED <<epoch, watch, handle, cmds, requests, daemon, drops, overlap>>

\* RESPONSE_GRACE passed without a message.
LoopGrace ==
    /\ actor.pc = "loop" /\ cmds = <<>> /\ ~watch.changed /\ incoming = <<>> /\ actor.fallback
    /\ streams' = NoteUnless(actor.suppressed \/ actor.spoke, actor.gen, actor.gen)
    /\ actor' = [actor EXCEPT !.pc = "done"]
    /\ UNCHANGED <<epoch, watch, handle, cmds, Wire>>

\* Mutant: the queued generation is forgotten with the turn.
TurnDoneForgets ==
    /\ actor.pc = "done"
    /\ streams' = Closed(streams, actor.gen)
    /\ actor' = AtRest
    /\ UNCHANGED <<epoch, watch, handle, cmds, Wire>>

\* The turn's stream ends, the poller is notified, and the queued turn is next.
TurnDone ==
    /\ actor.pc = "done"
    /\ streams' = Closed(streams, actor.gen)
    /\ actor' = IF actor.queued = 0 THEN AtRest
                ELSE [AtRest EXCEPT !.pc = "check", !.gen = actor.queued]
    /\ UNCHANGED <<epoch, watch, handle, cmds, Wire>>

TurnLost ==
    /\ actor.pc = "lost"
    /\ streams' = IF actor.queued = 0 THEN Closed(streams, actor.gen)
                  ELSE Failed(Closed(streams, actor.gen), actor.queued)
    /\ actor' = [AtRest EXCEPT !.pc = "down"]
    /\ Disconnected
    /\ UNCHANGED <<epoch, watch, handle, cmds>>

Actor ==
    \/ TakeCommand \/ IdleIncoming \/ IdleCancel
    \/ TurnChecks \/ TurnMarks \/ TurnPrompts
    \/ LoopCommand \/ LoopCancel \/ LoopIncoming \/ LoopGrace
    \/ TurnDone \/ TurnLost \/ Establishing

-----------------------------------------------------------------------------
(* The daemon                                                              *)

Connected == actor.pc \in {"idle", "check", "mark", "prompt", "loop", "done"} /\ ConnUp

MessageTypes == {"response", "error", "closed", "brand_new_event", "agent_message_chunk",
                 "completed", "cancelled", "failed", "some_future_outcome"}
Message(type, gen) == [type |-> type, session |-> "own", gen |-> gen]

DaemonTakes ==
    /\ Connected /\ requests # <<>>
    /\ requests' = Tail(requests)
    /\ IF Head(requests) = 0
         THEN /\ daemon' = [daemon EXCEPT !.cancelled = daemon.gen # 0]
              /\ incoming' = Append(incoming, Message("response", 0))
              /\ UNCHANGED overlap
         ELSE /\ daemon' = [NoTurn EXCEPT !.gen = Head(requests)]
              /\ overlap' = (overlap \/ daemon.gen # 0)
              /\ UNCHANGED incoming
    /\ UNCHANGED <<epoch, watch, handle, cmds, streams, actor, drops>>

\* What is not the turn's: an update of a type to come, the end of another session's turn,
\* and one that names no session.
Chatter == {Message("brand_new_event", 0),
            [type |-> "completed", session |-> "other", gen |-> 0],
            [type |-> "failed", session |-> "none", gen |-> 0]}

DaemonSpeaks ==
    /\ Connected /\ daemon.gen # 0 /\ ~daemon.cancelled /\ daemon.chunks < MaxChunks
    /\ daemon' = [daemon EXCEPT !.chunks = @ + 1]
    /\ \E m \in {Message("agent_message_chunk", daemon.gen)} \cup Chatter :
         incoming' = Append(incoming, m)
    /\ UNCHANGED <<epoch, watch, handle, cmds, streams, actor, requests, drops, overlap>>

\* turn_complete (with its outcome) and the response, or the response alone.
DaemonEnds ==
    /\ Connected /\ daemon.gen # 0
    /\ LET Says(type) == Message(type, daemon.gen)
           outcomes == {"completed", "cancelled", "some_future_outcome"}
       IN  \E said \in {<<Says(outcome), Says("response")>> : outcome \in outcomes}
                         \cup {<<Says("response")>>, <<Says("error")>>} :
             incoming' = incoming \o said
    /\ daemon' = NoTurn
    /\ UNCHANGED <<epoch, watch, handle, cmds, streams, actor, requests, drops, overlap>>

ConnectionDrops ==
    /\ Connected /\ drops < MaxDrops
    /\ drops' = drops + 1
    /\ incoming' = Append(incoming, Message("closed", 0))
    /\ requests' = <<>> /\ daemon' = NoTurn
    /\ UNCHANGED <<epoch, watch, handle, cmds, streams, actor, overlap>>

LmNext ==
    \/ Handle \/ Actor
    \/ DaemonTakes \/ DaemonSpeaks \/ DaemonEnds \/ ConnectionDrops

-----------------------------------------------------------------------------
(* Properties                                                              *)

\* What the daemon says in one turn is never heard as another's: the turn's terminal is
\* drained before the next prompt, however cancels and drops fall (worker.rs, module doc).
TextReachesOwnStream ==
    \A g \in Gens : \A i \in DOMAIN streams[g].items : streams[g].items[i] \in {g, Error}

\* A barge-in followed by a fast next utterance cannot interleave two prompts (worker.rs).
OnePromptAtATime == ~overlap

\* Turns are kept apart on the one session that all of them share.
TurnsAreKeptApart == TextReachesOwnStream /\ OnePromptAtATime

-----------------------------------------------------------------------------
(* Why they are: what is on the wire is of the turn the actor is in.       *)

Turning  == {"check", "mark", "prompt", "loop", "done", "lost"}
Between  == {"dial", "initialize", "attach", "down", "idle", "check", "mark", "prompt", "done"}

StreamType  == [epoch : Nat, alive : BOOLEAN, ended : BOOLEAN, items : Seq(0..MaxGens)]
MessageType == [type : MessageTypes, session : {"own", "other", "none"}, gen : 0..MaxGens]

HandleType  == [pc : {"connect", "vanished", "idle", "cancel", "dropped"},
                stream : 0..MaxGens, gens : 0..MaxGens]
ActorType   == [pc : Turning \cup Between \cup {"exit"}, gen : 0..MaxGens, queued : 0..MaxGens,
                suppressed : BOOLEAN, cancelled : BOOLEAN, spoke : BOOLEAN, fallback : BOOLEAN]
DaemonType  == [gen : 0..MaxGens, chunks : Nat, cancelled : BOOLEAN]

LmType ==
    /\ epoch \in Nat /\ handle \in HandleType
    /\ cmds \in Seq(0..MaxGens) /\ streams \in [Gens -> StreamType]
    /\ actor \in ActorType
    /\ requests \in Seq(0..MaxGens) /\ incoming \in Seq(MessageType) /\ daemon \in DaemonType

\* The generations of what is under way between the actor and the daemon.
OnWire == {requests[i] : i \in DOMAIN requests} \cup {incoming[i].gen : i \in DOMAIN incoming}
            \cup {daemon.gen}

\* Generations wait, are queued, run and are answered in the order they were asked for.
GensInOrder ==
    /\ \A i \in DOMAIN cmds :
         /\ cmds[i] <= handle.gens
         /\ cmds[i] # 0 => /\ \A j \in 1..(i - 1) : cmds[j] < cmds[i]
                          /\ actor.gen < cmds[i] /\ actor.queued < cmds[i]
                          /\ \A w \in OnWire : w < cmds[i]
    /\ actor.queued # 0 => actor.gen < actor.queued /\ \A w \in OnWire : w < actor.queued
    /\ actor.pc \in Turning => actor.gen # 0
    /\ actor.pc \in {"check", "mark", "prompt"} => \A w \in OnWire : w < actor.gen
    /\ actor.gen <= handle.gens /\ actor.queued <= handle.gens
    /\ \A w \in OnWire : w <= handle.gens

\* A message that is heard, and one after which the turn of generation g has been heard out.
Speech(m)      == Classified(m) \in {"chunk", "complete", "silence", "failure"}
Finishes(m, g) == \/ Classified(m) \in {"complete", "silence", "failure"}
                  \/ Classified(m) = "error" /\ m.gen = g
Answers(m, g)  == Finishes(m, g) \/ (Classified(m) = "response" /\ m.gen = g)

\* The daemon has nothing to do, and has been asked for nothing.
DaemonRests == daemon.gen = 0 /\ \A i \in DOMAIN requests : requests[i] = 0

\* Between two turns nothing that could be taken for the next one is under way.
WireIsQuiet ==
    /\ actor.pc \in Between => DaemonRests /\ \A i \in DOMAIN incoming : ~Speech(incoming[i])
    /\ actor.pc \in {"check", "mark", "prompt"} => ~actor.fallback

\* In a turn the prompt and the daemon are the turn's, one after the other ...
PromptIsTheTurns ==
    actor.pc = "loop" =>
        /\ \A i \in DOMAIN requests : requests[i] # 0 =>
             requests[i] = actor.gen /\ \A j \in DOMAIN requests : i # j => requests[j] = 0
        /\ daemon.gen # 0 => daemon.gen = actor.gen /\ \A i \in DOMAIN requests : requests[i] = 0
        /\ actor.fallback => DaemonRests

\* ... and so is what is heard, up to the end.
AnswerIsTheTurns ==
    actor.pc = "loop" => \A i \in DOMAIN incoming :
        /\ Speech(incoming[i]) => incoming[i].gen = actor.gen
        /\ Answers(incoming[i], actor.gen) => DaemonRests
        /\ Finishes(incoming[i], actor.gen) => \A j \in (i + 1)..Len(incoming) : ~Speech(incoming[j])

WireIsTheTurns == WireIsQuiet /\ PromptIsTheTurns /\ AnswerIsTheTurns

TurnsInv == LmType /\ GensInOrder /\ WireIsTheTurns /\ TurnsAreKeptApart

\* The comment at the watch in turn (worker.rs): marking it seen cannot swallow a live
\* cancel.  In the loop, with every change seen, a turn of an older epoch was cancelled.
NoCancelSwallowed ==
    actor.pc = "loop" /\ ~watch.changed /\ handle.pc = "idle" /\ epoch # streams[actor.gen].epoch
        => actor.cancelled

\* The comment at the queue in turn (worker.rs): a second concurrent generation is a caller
\* bug.  While no barge-in is under way the caller has one stream, so the queue is free for
\* a live one, or the one queued is of the current epoch.
QueueRefusesCallerBugs ==
    actor.pc = "loop" /\ cmds # <<>> /\ Head(cmds) # 0 /\ actor.queued # 0
        => streams[actor.queued].epoch = streams[Head(cmds)].epoch

\* Every stream the caller still reads ends: with its turn, a lost connection, a
\* shutdown, or the grace period of a turn without its terminal.
StreamsAllEnd == []<>(handle.stream = 0 \/ streams[handle.stream].ended)
=============================================================================
