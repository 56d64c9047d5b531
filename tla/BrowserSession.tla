---------------------------- MODULE BrowserSession ----------------------------
(***************************************************************************)
(* The web-e2e example on pipecrab-audio-web: start() opens the speakers   *)
(* and the microphone and loads the models, pump_in and pump_out join the  *)
(* pipeline to them, and Session::stop gives all of it up.                 *)
(*                                                                         *)
(* Page and pipeline share one thread.  Beside it are the microphone's     *)
(* worklet, which posts its chunks as messages, and the rendering thread,  *)
(* which plays what is scheduled on the context's clock.  Of the pipeline  *)
(* only the link at its tail is modelled.                                  *)
(***************************************************************************)
EXTENDS Link, FiniteSets, SequencesExt

CONSTANTS
    QueueChunks,   \* WebAudioConfig::queue_chunks
    LeadSeconds,   \* LEAD_SECONDS, in ticks of the context's clock
    MaxCaptured,   \* bound on the chunks the worklet posts
    MaxTail,       \* bound on the frames the tail stage sends
    MaxTime        \* bound on the clock

ASSUME SessionAssumption == QueueChunks \in Nat /\ LeadSeconds \in Nat

VARIABLES
    page,      \* how far start() is, and the session after it
    mic,       \* capture.js, source.rs: [live, handler, closure, posted, captured]
    inbox,     \* source.rs and pump_in: [chunks, overruns, taken, over]
    speakers,  \* playback.js: [open, now, next, sources]
    tail,      \* the link from the last stage to pump_out
    out        \* pump_out: [pending, cut, over], cut the stamp of the last Interrupt

session == <<page, mic, inbox, speakers, tail, out>>

SessionInit ==
    /\ page = "idle"
    /\ mic = [live |-> FALSE, handler |-> FALSE, closure |-> FALSE, posted |-> <<>>, captured |-> 0]
    /\ inbox = [chunks |-> <<>>, overruns |-> 0, taken |-> <<>>, over |-> FALSE]
    /\ speakers = [open |-> FALSE, now |-> 0, next |-> 0, sources |-> <<>>]
    /\ tail = NewLink
    /\ out = [pending |-> <<>>, cut |-> 0, over |-> FALSE]

(***************************************************************************)
(* start(), await by await.                                                *)
(***************************************************************************)
\* openPlayback: a context is made and resumed.
OpensSpeakers ==
    /\ page = "idle"
    /\ page' = "resuming"
    /\ speakers' = [speakers EXCEPT !.open = TRUE]
    /\ UNCHANGED <<mic, inbox, tail, out>>

\* WebAudioSource::open makes the callback, then asks for the microphone.
AsksForMicrophone ==
    /\ page = "resuming"
    /\ page' = "asking"
    /\ mic' = [mic EXCEPT !.closure = TRUE]
    /\ UNCHANGED <<inbox, speakers, tail, out>>

\* getUserMedia: the tracks are live from here on.
GotMedia ==
    /\ page = "asking"
    /\ page' = "wiring"
    /\ mic' = [mic EXCEPT !.live = TRUE]
    /\ UNCHANGED <<inbox, speakers, tail, out>>

\* resume and addModule are through: the worklet is wired up, with its handler.
Wired ==
    /\ page = "wiring"
    /\ page' = "loading"
    /\ mic' = [mic EXCEPT !.handler = TRUE]
    /\ UNCHANGED <<inbox, speakers, tail, out>>

\* The models are loaded and the run is spawned.
Loaded ==
    /\ page = "loading"
    /\ page' = "running"
    /\ UNCHANGED <<mic, inbox, speakers, tail, out>>

\* Mutant: the tracks are stopped and the handler is left where it is.
GivenUpWithHandler == [mic EXCEPT !.live = FALSE, !.closure = FALSE]

\* Capture.close, then the source's fields: the handler is detached before the callback it
\* lands in is freed.
GivenUp == [mic EXCEPT !.live = FALSE, !.handler = FALSE, !.closure = FALSE]

\* Mutant: what is scheduled is stopped, the end of the schedule stays.
CancelledKeepingNext == [speakers EXCEPT !.sources = <<>>]

\* Playback.cancel
Cancelled == [speakers EXCEPT !.sources = <<>>, !.next = 0]

\* Mutant: the source goes without a close.
DropSourceUnclosed ==
    /\ mic' = [mic EXCEPT !.handler = FALSE, !.closure = FALSE]
    /\ inbox' = [inbox EXCEPT !.chunks = <<>>, !.over = TRUE]

\* The source, or the sink with the tail's Inbound, is dropped.
DropSource == mic' = GivenUp /\ inbox' = [inbox EXCEPT !.chunks = <<>>, !.over = TRUE]
DropSink ==
    /\ speakers' = [Cancelled EXCEPT !.open = FALSE]
    /\ tail' = DropInbound(tail)
    /\ out' = [out EXCEPT !.pending = <<>>, !.over = TRUE]

\* A step of start() fails, and what it holds is dropped.  openPlayback and openCapture close
\* nothing when one of their own awaits fails.
StartFails ==
    /\ page' = "failed"
    /\ \/ page = "resuming" /\ UNCHANGED <<mic, inbox, speakers, tail, out>>
       \/ page \in {"asking", "loading"} /\ DropSource /\ DropSink
       \/ /\ page = "wiring"
          /\ mic' = [mic EXCEPT !.closure = FALSE]
          /\ DropSink
          /\ UNCHANGED inbox

\* Session::stop drops the sender; the task sees it when it is polled next.
Stops ==
    /\ page = "running"
    /\ page' = "stopping"
    /\ UNCHANGED <<mic, inbox, speakers, tail, out>>

RunDropped == page = "stopping" /\ page' = "stopped" /\ DropSource /\ DropSink

\* Both pumps and the driver are through.
PipelineEnds ==
    /\ page = "running" /\ inbox.over /\ out.over /\ ~tail.tx
    /\ page' = "stopped"
    /\ UNCHANGED <<mic, inbox, speakers, tail, out>>

Starting == OpensSpeakers \/ AsksForMicrophone \/ GotMedia \/ Wired \/ Loaded

(***************************************************************************)
(* The microphone.                                                         *)
(***************************************************************************)
\* The worklet has filled a chunk and posts it.
Posts ==
    /\ mic.live /\ page \in {"loading", "running", "stopping"} /\ mic.captured < MaxCaptured
    /\ mic' = [mic EXCEPT !.captured = @ + 1, !.posted = Append(@, mic.captured + 1)]
    /\ UNCHANGED <<page, inbox, speakers, tail, out>>

\* A message is dispatched.  The callback queues the chunk, or counts an overrun; the queue
\* takes one more than its size, the slot of its sender.
Dispatched ==
    /\ mic.posted /= <<>>
    /\ mic' = [mic EXCEPT !.posted = Tail(@)]
    /\ inbox' = IF ~mic.handler THEN inbox
                ELSE IF Len(inbox.chunks) > QueueChunks
                THEN [inbox EXCEPT !.overruns = @ + 1]
                ELSE [inbox EXCEPT !.chunks = Append(@, Head(mic.posted))]
    /\ UNCHANGED <<page, speakers, tail, out>>

\* pump_in sends a chunk into the pipeline, or finds it gone and is over.
SendRefused ==
    /\ page = "running" /\ inbox.chunks /= <<>> /\ ~tail.tx
    /\ DropSource
    /\ UNCHANGED <<page, speakers, tail, out>>

TakesChunk ==
    /\ page = "running" /\ inbox.chunks /= <<>> /\ tail.tx
    /\ inbox' = [inbox EXCEPT !.chunks = Tail(@), !.taken = Append(@, Head(inbox.chunks))]
    /\ UNCHANGED <<page, mic, speakers, tail, out>>

(***************************************************************************)
(* pump_out.  Nothing in it waits but recv, so a frame is handled in the   *)
(* step that takes it.                                                     *)
(***************************************************************************)
Ends(source) == source.start + source.length
Total(sources) ==
    LET sum[i \in 0..Len(sources)] ==
          IF i = 0 THEN 0 ELSE sum[i - 1] + sources[i].length
    IN  sum[Len(sources)]

\* Playback.enqueue: behind the last, or a little from now.
Enqueued(frame, length) ==
    LET start == Max({speakers.next, speakers.now + LeadSeconds})
        source == [seq |-> frame.seq, start |-> start, length |-> length,
                   slack |-> start - speakers.now - Total(speakers.sources)]
    IN  [speakers EXCEPT !.next = start + length, !.sources = Append(@, source)]

\* A frame that is not audio is reported to the page, and no more.
Plays(frame) ==
    IF frame.kind = "media"
    THEN \E length \in 1..2 : speakers' = Enqueued(frame, length)
    ELSE UNCHANGED speakers

TakesKeeper ==
    /\ page = "running" /\ ~out.over /\ out.pending /= <<>>
    /\ out' = [out EXCEPT !.pending = Tail(@)]
    /\ Plays(Head(out.pending))
    /\ UNCHANGED <<page, mic, inbox, tail>>

\* An Interrupt silences what is scheduled and flushes the tail.
TakesSystem ==
    /\ page = "running" /\ ~out.over /\ out.pending = <<>> /\ tail.sys /= <<>>
    /\ LET frame == Head(tail.sys)
           kept == FlushedData(tail.data, frame.seq)
       IN  IF frame.kind = "interrupt"
           THEN /\ speakers' = Cancelled
                /\ out' = [out EXCEPT !.pending = Durables(@) \o kept,
                                     !.cut = frame.seq]
                /\ tail' = [PopSys(tail) EXCEPT !.data = <<>>]
           ELSE tail' = PopSys(tail) /\ UNCHANGED <<speakers, out>>
    /\ UNCHANGED <<page, mic, inbox>>

TakesData ==
    /\ page = "running" /\ ~out.over /\ out.pending = <<>> /\ tail.sys = <<>> /\ tail.data /= <<>>
    /\ tail' = PopData(tail)
    /\ Plays(Head(tail.data))
    /\ UNCHANGED <<page, mic, inbox, out>>

\* play fails, or the tail is closed and drained: the pump is over, and with it the sink.
PlayFails ==
    /\ page = "running" /\ ~out.over
    /\ \/ out.pending /= <<>> /\ Head(out.pending).kind = "media"
       \/ /\ out.pending = <<>> /\ tail.sys = <<>>
          /\ tail.data /= <<>> /\ Head(tail.data).kind = "media"
    /\ DropSink
    /\ UNCHANGED <<page, mic, inbox>>

PumpEnds ==
    /\ page = "running" /\ ~out.over /\ out.pending = <<>> /\ Drained(tail)
    /\ DropSink
    /\ UNCHANGED <<page, mic, inbox>>

(***************************************************************************)
(* The rendering thread's clock, and the tail stage.                       *)
(***************************************************************************)
Ticks ==
    /\ speakers.open /\ speakers.now < MaxTime
    /\ speakers' = [speakers EXCEPT !.now = @ + 1]
    /\ UNCHANGED <<page, mic, inbox, tail, out>>

\* onended
SourceEnds ==
    /\ speakers.sources /= <<>> /\ Ends(Head(speakers.sources)) <= speakers.now
    /\ speakers' = [speakers EXCEPT !.sources = Tail(@)]
    /\ UNCHANGED <<page, mic, inbox, tail, out>>

TailStage ==
    /\ page = "running" /\ tail.tx
    /\ \/ /\ tail.next <= MaxTail
          /\ \/ tail' = SendData(tail, "media", 0)
             \/ tail' = SendSystem(tail, "interrupt", 0)
       \/ tail' = DropOutbound(tail)
    /\ UNCHANGED <<page, mic, inbox, speakers, out>>

EventLoop ==
    \/ Dispatched \/ TakesChunk \/ SendRefused
    \/ TakesKeeper \/ TakesSystem \/ TakesData \/ PumpEnds
    \/ RunDropped \/ PipelineEnds

SessionNext ==
    \/ Starting \/ StartFails \/ Stops \/ EventLoop \/ PlayFails
    \/ Posts \/ Ticks \/ SourceEnds \/ TailStage

SessionFair == WF_session(EventLoop)

SessionSpec == SessionInit /\ [][SessionNext]_session /\ SessionFair

(***************************************************************************)
(* Properties.                                                             *)
(***************************************************************************)
\* What is scheduled follows on itself without overlap, and waits for what was scheduled
\* before it and a lead, and nothing else: no silence in the place of cancelled audio.  After
\* an Interrupt nothing sent before it is scheduled or held.
ScheduleIsCurrent ==
    LET sources == speakers.sources
    IN  /\ \A i \in DOMAIN sources :
             /\ i > 1 => sources[i].start >= Ends(sources[i - 1])
             /\ sources[i].slack <= LeadSeconds
             /\ sources[i].seq >= out.cut
        /\ \A i \in DOMAIN out.pending : Kept(out.pending[i], out.cut)

\* The callback the worklet's messages land in is alive while a handler leads to it, though
\* messages posted before the close are dispatched after it; and every chunk dispatched was
\* sent in order, waits, or was counted as an overrun.
CaptureIsSafe ==
    /\ mic.handler => mic.closure
    /\ LET kept == inbox.taken \o inbox.chunks
       IN  \A i \in 1..(Len(kept) - 1) : kept[i] < kept[i + 1]
    /\ page \in {"loading", "running", "stopping"} /\ ~inbox.over =>
         Len(inbox.taken) + Len(inbox.chunks) + inbox.overruns + Len(mic.posted) = mic.captured

\* A session that is stopped lets go of the microphone and the speakers, whatever it was at.
StopReleases ==
    page = "stopping" ~> (page = "stopped" /\ ~mic.live /\ ~speakers.open
                           /\ speakers.sources = <<>>)
=============================================================================
