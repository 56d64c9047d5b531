--------------------------- MODULE EngineWorkers ----------------------------
(***************************************************************************)
(* The speech engines behind SttStage and VadStage: Buffered, which calls  *)
(* a one-shot transcriber, and the handles of a worker thread that owns a  *)
(* recogniser (online, offline) or a detector (vad).  The handle sends     *)
(* commands tagged with the generation it read; cancel only raises the     *)
(* generation, and the worker reads it again between the steps of a        *)
(* command.  cancel may come between any two steps.                        *)
(*                                                                         *)
(* Inference is external: a hypothesis is a function of the audio.  Audio  *)
(* is a sequence of chunks, each worth a decode step; a detector's state   *)
(* and the remainder of its last window are its audio since its reset.     *)
(***************************************************************************)
EXTENDS Naturals, Sequences

VARIABLES
    engine,       \* which engine is modelled; it never changes
    generation,   \* the counter shared by handle and worker (Buffered: under its lock)
    commands,     \* mpsc channel to the worker: [op, generation, awaited]
    worker,       \* the worker's own state; for Buffered, the locked state
    pending,      \* the call whose future is alive: [generation, answer], or NoPending
    got,          \* what the last awaited call returned
    calls,        \* how many calls were made
    handle        \* "open", "dropped", or "joined" once the thread has ended

engineVars == <<engine, generation, commands, worker, pending, got, calls, handle>>

Session == INSTANCE Utterances WITH session <- 0, call <- 0

Engines   == Session!Engines
Threaded  == {"online", "offline", "vad"}
NoAnswer  == [is |-> "none", events |-> <<>>]
Waiting   == [is |-> "waiting", events |-> <<>>]
NoPending == [generation |-> 0, answer |-> NoAnswer]
NoStream  == [open |-> FALSE, audio |-> <<>>]
NoCommand == [op |-> [op |-> "none", chunk |-> "none"], generation |-> 0, awaited |-> FALSE]

Nothing       == Session!Ok
Reported(es)  == Session!Events(es)
Protocol      == Session!Protocol
Heard(audio)  == Session!Heard(engine, audio)

EngineInit ==
    /\ engine \in Engines
    /\ generation = 0
    /\ commands = <<>>
    /\ worker = [pc |-> "idle", generation |-> 0, stream |-> Session!Fresh(engine),
                 shown |-> Session!Silent, command |-> NoCommand, local |-> NoStream, reply |-> Nothing]
    /\ pending = NoPending
    /\ got = Nothing
    /\ calls = 0
    /\ handle = "open"

-----------------------------------------------------------------------------
(* The handle                                                              *)

Idle == pending = NoPending /\ handle = "open" /\ calls' = calls + 1

\* A call of the handle: read the generation, send, await.
Submits(op) ==
    /\ Idle
    /\ IF worker.pc = "dead"
         THEN got' = Session!EngineFailed /\ UNCHANGED <<commands, pending>>
         ELSE /\ commands' = Append(commands, [op |-> op, generation |-> generation, awaited |-> TRUE])
              /\ pending' = [generation |-> generation, answer |-> Waiting]
              /\ UNCHANGED got
    /\ UNCHANGED <<engine, generation, worker, handle>>

\* begin_utterance, feed and end_utterance of the two recognisers, process of the detector.
AskOnline(op)   == engine = "online" /\ Submits(op)
AskOffline(op)  == engine = "offline" /\ Submits(op)
AskDetector(op) == engine = "vad" /\ op.op = "feed" /\ Submits(op)

Ask(op) == AskOnline(op) \/ AskOffline(op) \/ AskDetector(op)

\* Mutant: a response computed for an older generation is waited past.
ReturnCurrentOnly ==
    /\ pending.answer \notin {NoAnswer, Waiting}
    /\ pending.answer # Session!EngineFailed => pending.generation = generation
    /\ got' = pending.answer
    /\ pending' = NoPending
    /\ UNCHANGED <<engine, generation, commands, worker, calls, handle>>

\* Mutant: the generation is not looked at again after the await.
ReturnUnchecked ==
    /\ pending.answer \notin {NoAnswer, Waiting}
    /\ got' = pending.answer
    /\ pending' = NoPending
    /\ UNCHANGED <<engine, generation, commands, worker, calls, handle>>

\* The response is in: what was computed for an older generation is not looked at.
Return ==
    /\ pending.answer \notin {NoAnswer, Waiting}
    /\ got' = IF pending.answer # Session!EngineFailed /\ pending.generation # generation
                THEN Nothing ELSE pending.answer
    /\ pending' = NoPending
    /\ UNCHANGED <<engine, generation, commands, worker, calls, handle>>

\* A barge-in drops the future; the worker goes on.
Unwanted(cs) == [i \in DOMAIN cs |-> [cs[i] EXCEPT !.awaited = FALSE]]
Forget ==
    /\ pending # NoPending
    /\ pending' = NoPending
    /\ commands' = Unwanted(commands)
    /\ worker' = [worker EXCEPT !.command.awaited = FALSE]
    /\ UNCHANGED <<engine, generation, got, calls, handle>>

\* cancel, reset
Cancel ==
    /\ engine \in Threaded
    /\ handle = "open"
    /\ generation' = generation + 1
    /\ UNCHANGED <<engine, commands, worker, pending, got, calls, handle>>

\* The last owner drops the handle: the channel is closed, and the thread joined.
DropHandle ==
    /\ engine \in Threaded
    /\ pending = NoPending
    /\ handle = "open"
    /\ handle' = "dropped"
    /\ UNCHANGED <<engine, generation, commands, worker, pending, got, calls>>

\* recv fails on a closed channel once it is empty; then the thread ends.
Joined ==
    /\ handle = "dropped"
    /\ \/ worker.pc = "dead"
       \/ worker.pc = "idle" /\ commands = <<>>
    /\ handle' = "joined"
    /\ UNCHANGED <<engine, generation, commands, worker, pending, got, calls>>

-----------------------------------------------------------------------------
(* The worker thread                                                       *)

\* drop_active_stream; samples = None; the backend's reset and an empty remainder.
OnlineForgets(w)   == [w EXCEPT !.stream = NoStream, !.shown = Session!Silent]
OfflineForgets(w)  == [w EXCEPT !.stream = NoStream]
DetectorForgets(w) == [w EXCEPT !.stream = Session!Fresh("vad"), !.shown = Session!Silent]

Forgets(w) ==
    CASE engine = "online"  -> OnlineForgets(w)
      [] engine = "offline" -> OfflineForgets(w)
      [] engine = "vad"     -> DetectorForgets(w)

\* Mutant: a new generation is noted, and the stream of the old one stays open.
RefreshedKeepingStream(w) ==
    IF w.generation = generation THEN w ELSE [w EXCEPT !.generation = generation]

\* command_is_current, generation_is_current: another generation closes the stream.
Refreshed(w) ==
    IF w.generation = generation THEN w ELSE [Forgets(w) EXCEPT !.generation = generation]

Answered(w, answer) == [w EXCEPT !.pc = "reply", !.reply = answer]

\* The stream is taken in hand while it is decoded.
Decodes(w, audio) == [w EXCEPT !.pc = "decode", !.local = Session!Opened(audio), !.stream = NoStream]

OnlineBegins(w) ==
    IF w.stream.open THEN Answered(w, Protocol) ELSE Decodes([w EXCEPT !.shown = Session!Silent], <<>>)

OfflineBegins(w) ==
    IF w.stream.open THEN Answered(w, Protocol)
    ELSE Answered([w EXCEPT !.stream = Session!Opened(<<>>)], Nothing)

OnlineFeeds(w, chunk) ==
    IF w.stream.open THEN Decodes(w, Append(w.stream.audio, chunk)) ELSE Answered(w, Protocol)

\* Nothing is decoded before the end.
OfflineFeeds(w, chunk) ==
    IF w.stream.open THEN Answered([w EXCEPT !.stream.audio = Append(@, chunk)], Nothing)
    ELSE Answered(w, Protocol)

DetectorFeeds(w, chunk) == Decodes(w, Append(w.stream.audio, chunk))

OnlineEnds(w) ==
    IF w.stream.open THEN Decodes(w, w.stream.audio) ELSE Answered(w, Protocol)

\* samples.take(), and the first of its windows.
OfflineEnds(w) ==
    IF w.stream.open THEN Decodes(w, w.stream.audio) ELSE Answered(w, Protocol)

OnlineCommand(w, op) ==
    CASE op.op = "begin" -> OnlineBegins(w)
      [] op.op = "feed"  -> OnlineFeeds(w, op.chunk)
      [] op.op = "end"   -> OnlineEnds(w)

OfflineCommand(w, op) ==
    CASE op.op = "begin" -> OfflineBegins(w)
      [] op.op = "feed"  -> OfflineFeeds(w, op.chunk)
      [] op.op = "end"   -> OfflineEnds(w)

DetectorCommand(w, op) == DetectorFeeds(w, op.chunk)

Carried(w, op) ==
    CASE engine = "online"  -> OnlineCommand(w, op)
      [] engine = "offline" -> OfflineCommand(w, op)
      [] engine = "vad"     -> DetectorCommand(w, op)

\* recv, and a look at the generation before anything is done for the command.
TakeCommand ==
    /\ worker.pc = "idle"
    /\ commands # <<>>
    /\ LET c == Head(commands)
           w == [Refreshed(worker) EXCEPT !.command = c]
       IN  worker' = IF c.generation # generation THEN Answered(w, Nothing) ELSE Carried(w, c.op)
    /\ commands' = Tail(commands)
    /\ UNCHANGED <<engine, generation, pending, got, calls, handle>>

\* Mutant: the stream in hand is put back where the next command finds it.
AbandonKeepingStream ==
    /\ worker.pc = "decode"
    /\ worker.generation # generation
    /\ worker' = [Answered(Refreshed(worker), Nothing) EXCEPT !.stream = worker.local, !.local = NoStream]
    /\ UNCHANGED <<engine, generation, commands, pending, got, calls, handle>>

\* local_stream_is_current between two decode steps, and again after the last: the stream
\* in hand is dropped when the generation has moved on.
Abandon ==
    /\ worker.pc = "decode"
    /\ worker.generation # generation
    /\ worker' = [Answered(Refreshed(worker), Nothing) EXCEPT !.local = NoStream]
    /\ UNCHANGED <<engine, generation, commands, pending, got, calls, handle>>

\* A report goes out when what is heard is not what was shown.
News(w) ==
    LET heard == Heard(w.local.audio)
    IN  IF heard # w.shown THEN Reported(<<Session!Partial(heard)>>) ELSE Nothing

OnlineFinished(w) ==
    CASE w.command.op.op = "begin" -> Answered([w EXCEPT !.stream = w.local], Nothing)
      [] w.command.op.op = "feed"  ->
           Answered([w EXCEPT !.stream = w.local, !.shown = Heard(w.local.audio)], News(w))
      [] w.command.op.op = "end"   ->
           Answered([w EXCEPT !.shown = Session!Silent], Reported(<<Session!Final(w.local.audio)>>))

OfflineFinished(w) == Answered(w, Reported(<<Session!Final(w.local.audio)>>))

\* process_window: the backend's verdict before and after.
DetectorFinished(w) ==
    Answered([w EXCEPT !.stream = w.local, !.shown = Heard(w.local.audio)], News(w))

Finished(w) ==
    CASE engine = "online"  -> OnlineFinished(w)
      [] engine = "offline" -> OfflineFinished(w)
      [] engine = "vad"     -> DetectorFinished(w)

Decoded ==
    /\ worker.pc = "decode"
    /\ worker.generation = generation
    /\ worker' = [Finished(worker) EXCEPT !.local = NoStream]
    /\ UNCHANGED <<engine, generation, commands, pending, got, calls, handle>>

Reply ==
    /\ worker.pc = "reply"
    /\ pending' = IF worker.command.awaited THEN [pending EXCEPT !.answer = worker.reply] ELSE pending
    /\ worker' = [worker EXCEPT !.pc = "idle", !.command = NoCommand, !.reply = Nothing]
    /\ UNCHANGED <<engine, generation, commands, got, calls, handle>>

\* The recogniser panics: the thread is gone, and with it every reply it owed.
Die ==
    /\ worker.pc = "decode"
    /\ worker' = [worker EXCEPT !.pc = "dead", !.stream = NoStream, !.local = NoStream,
                                !.command = NoCommand]
    /\ commands' = <<>>
    /\ pending' = IF pending.answer = Waiting
                    THEN [pending EXCEPT !.answer = Session!EngineFailed] ELSE pending
    /\ UNCHANGED <<engine, generation, got, calls, handle>>

Worker == TakeCommand \/ Abandon \/ Decoded \/ Reply

-----------------------------------------------------------------------------
(* Buffered                                                                *)

\* begin_utterance and feed run under the lock, without an await.
BufferNow(op) ==
    /\ engine = "buffered"
    /\ Idle
    /\ op.op \in {"begin", "feed"}
    /\ got' = Session!Answer(engine, worker.stream, op)
    /\ worker' = [worker EXCEPT !.stream = Session!After(worker.stream, op)]
    /\ UNCHANGED <<engine, generation, commands, pending, handle>>

\* end_utterance takes the chunks and the generation, then awaits transcribe.
BufferEnd ==
    /\ engine = "buffered"
    /\ Idle
    /\ IF worker.stream.open
         THEN /\ pending' = [generation |-> generation,
                             answer |-> Reported(<<Session!Final(worker.stream.audio)>>)]
              /\ worker' = [worker EXCEPT !.stream = NoStream]
              /\ UNCHANGED got
         ELSE /\ got' = Protocol
              /\ UNCHANGED <<pending, worker>>
    /\ UNCHANGED <<engine, generation, commands, handle>>

BufferFails ==
    /\ engine = "buffered"
    /\ pending # NoPending
    /\ got' = Session!EngineFailed
    /\ pending' = NoPending
    /\ UNCHANGED <<engine, generation, commands, worker, calls, handle>>

BufferCancel ==
    /\ engine = "buffered"
    /\ generation' = generation + 1
    /\ worker' = [worker EXCEPT !.stream = NoStream]
    /\ UNCHANGED <<engine, commands, pending, got, calls, handle>>

-----------------------------------------------------------------------------
EngineNext ==
    \/ \E op \in Session!Ops : Ask(op) \/ BufferNow(op)
    \/ BufferEnd \/ BufferFails \/ BufferCancel
    \/ Return \/ Forget \/ Cancel
    \/ Worker \/ Die \/ DropHandle \/ Joined

-----------------------------------------------------------------------------
(* What the caller sees                                                    *)

\* The session as the handle's calls have made it, once the worker has caught up: what the
\* worker holds, then each command of the current generation.
InHand ==
    IF engine \in Threaded /\ worker.generation # generation THEN Session!Fresh(engine)
    ELSE IF worker.pc = "decode"
      THEN IF worker.command.op.op = "end" THEN NoStream ELSE worker.local
      ELSE worker.stream

Step(s, c) == IF c.generation = generation THEN Session!After(s, c.op) ELSE s

\* sessions[i] is the session before command i.
Sessions[i \in 1..(Len(commands) + 1)] ==
    IF i = 1 THEN InHand ELSE Step(Sessions[i - 1], commands[i - 1])

CaughtUp == Sessions[Len(commands) + 1]

\* The answer the call awaited is going to have.
Promised ==
    IF pending.answer # Waiting THEN
         IF pending.generation # generation /\ pending.answer # Session!EngineFailed
           THEN Nothing ELSE pending.answer
    ELSE IF pending.generation # generation THEN Nothing
    ELSE IF commands # <<>>
      THEN Session!Answer(engine, Sessions[Len(commands)], commands[Len(commands)].op)
    ELSE IF worker.pc = "reply" THEN worker.reply
    ELSE Finished(worker).reply

Promise == INSTANCE Utterances WITH
    session <- IF worker.pc = "dead" THEN Session!Fresh(engine) ELSE CaughtUp,
    call <- IF pending = NoPending THEN NoAnswer ELSE Promised

\* Every call acts on the session at once and answers for exactly that session's audio,
\* however far the worker lags behind and whenever cancel raised the generation: the
\* contract documented at StreamingTranscriber (streaming.rs) and VoiceActivityDetector.
SessionContract == Promise!ASpec

\* A call whose future is kept returns, also when its worker thread dies, and so does the
\* drop of the handle, which joins the thread behind whatever it was sent.
CallsReturn ==
    /\ pending # NoPending ~> pending = NoPending
    /\ handle = "dropped" ~> handle = "joined"
=============================================================================
