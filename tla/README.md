# pipecrab in TLA+

`pipecrab` is a framework for voice agents: stages joined by two-lane links, each
driven by a loop that barge-in can preempt. What makes it correct is not in any one
function. It is in what happens when a system frame overtakes data, drops a future
half-way and flushes a queue that somebody is still writing to, and in what engines,
worker threads and servers do with work that is no longer wanted. These modules model
that, model-check it with TLC on small instances, and prove with TLAPS, for every
capacity, every input and every stage, what the processor of a stage may rely on, what is
heard after a barge-in down to the samples of the device's ring, what a voice-activity
gate sends, that a transcript is of the utterance it is reported for, what the conversation may
conclude of a dispatched task, and that tasks and turns on a shared server are kept apart.

Paths are relative to `src/`; `rt/` stands for `crates/engine/pipecrab-runtime/src/`,
`ad/` for `crates/adapters/`. `PROJECT.json` maps each definition to its lines.

## 1. The system

### Inventory

| component | state | operations | hard behaviours | correct when |
|---|---|---|---|---|
| stamped link, `rt/inbound.rs`, `rt/outbound.rs` | two bounded lanes, one stamp counter, `flush_floor` | `send_data`, `send_system`, `recv`, `flush_data(_stamped)`, drop | a send enqueues before it waits, and the wait may be dropped; lanes are read out of stamp order; a flush while frames arrive | stamps order both lanes; a flush discards exactly the droppable frames older than its Interrupt |
| run loop, `rt/stage.rs` | `pending` keepers, `sys_buf`, the raced `perform` | `run`, `handle_system`, `run_effects`, `emit_error` | `perform` dropped at any await; other system frames deferred meanwhile; keepers from one flush met by the next | the processor sees system frames first, each lane in order, nothing twice, nothing lost that should survive; nothing decided before an Interrupt is sent after it |
| pipeline, `rt/pipeline.rs` | one future per stage | `start`, `run`, builder | who stops when an end closes; backpressure against preemption | closing or stopping one end ends everything; the parts' assumptions on each other hold |
| barge-in originator, `pipecrab-turn` | none | `decide_data`, `perform` | the edge re-emitted must survive the flush that its Interrupt causes | Interrupt before edge; the new utterance is not flushed |
| output pump, `examples/e2e-voice-agent` | keepers, frames taken during a push | `pump_out`, `play_racing_sys`, `apply_system` | playback raced against the system lane; stamps gone once keepers are held | no stale audio, order, an Interrupt applied however long a chunk is |
| device bridge, `ad/pipecrab-audio-cpal` | two rings, wakers, discard flag, a thread per stream | `play`, `cancel`, `next_chunk`, device callbacks, open and drop | register-then-recheck wakeups; a discard seen late; a join in a drop | no lost wakeup; a cancel costs only what precedes it; a drop returns |
| resampler, `pipecrab-audio` | current format, incomplete block, filter history | `decide_data`, `perform`, reset | a format change or an Interrupt with a block half full | a session's output is its input, independent of any other session |
| voice activity gate and debouncing, `pipecrab-vad` | `Gate`, pre-roll ring, `DebouncedState` | `perform`, `process`, reset | an Interrupt between detection and sends; state committed before sends; a scorer failing between windows | whole, well-bracketed utterances, nothing resurrected across an Interrupt |
| speech to text, `pipecrab-stt`, `ad/pipecrab-stt-sherpa` | utterance buffer, generation, a worker thread with a stream in hand | `SttStage`, `Buffered`, the three sherpa engines; windows of the offline one | a response computed for a cancelled generation; a word at a window's seam | a transcript belongs to the utterance it is reported for, and says its words once |
| reply path, `pipecrab-lm`, `pipecrab-tts`, `ad/pipecrab-lm-llamacpp`, `ad/pipecrab-tts-sherpa` | conversation, KV cache and the record of it, chunker offset, epochs | `LmStage`, `SentenceChunker`, `TtsStage`, both workers | preemption between batches and tokens; generation resets seen late; a call cut by the tokenizer; snapshots | the model reads the conversation; each sentence is spoken once; history records what was said |
| dispatch stages, `pipecrab-dispatch` | none in egress; whether the source is open in ingress | egress, ingress | a call re-emitted, a perform dropped, events between lanes, keepers re-forwarded | every event reaches the model; nothing claimed that was not published |
| dispatch transports, `ad/pipecrab-dispatch-{hermes,zeroclaw}` | registry, event channel, poller or detached workers | create, update, poll, deliver, cancel | posts lost or dropped, late polls, a full channel, two critical sections | runs of a task kept apart, each reported once, follow-ups know what was said |
| zeroclaw language model, `ad/pipecrab-lm-zeroclaw` | connection actor, delegate poller | generate, cancel, turn, reconnect; scan, report | cancelled turns, queued generations, wakeups without a permit | a turn's tokens go to its own caller; every stream ends |
| browser engines, `ad/pipecrab-{lm,tts,vad}-web` | promise chains, queues, recurrent state | generate, synthesize, score, cancel | a promise goes on when nobody awaits it | a reply committed is whole; whoever waits is answered |
| browser audio and session, `ad/pipecrab-audio-web`, `examples/web-e2e` | worklet, callback, queue, schedule | start, pumps, cancel, stop | messages dispatched after close; a failure at any await of start | no use of a freed callback; all devices released |
| other parts | - | - | - | see section 7 |

Neighbouring stages share nothing but a link. Within a stage, system frames are handled
between two polls of `perform`; a dropped `perform` leaves its enqueued frames and its
committed state behind. Stages and pumps are polled on one task, so a step runs from
one await to the next; device callbacks, worker threads, detached tasks and servers run
truly beside them. `PROJECT.json` lists the hazards line by line with the properties
aimed at each.

### Modules

| module | what it is |
|---|---|
| `Link` | operators on a link record: stamping, sending, flushing predicate, closing |
| `RunLoop` | `Stage::run` with arbitrary neighbours and an arbitrary stage |
| `Mailbox` | abstract specification: what a `Processor` may rely on |
| `LinkProofs` | lemmas about a link's lanes: order, what a flush keeps; induction over naturals and recursive functions |
| `RunLoopProofs` | the proofs about `RunLoop` (section 5) |
| `OutputPump`, `OutputPumpProofs` | the application's end, over an abstract device ring, and its proofs |
| `Pipeline` | two `RunLoop` instances and an `OutputPump`, joined by links |
| `PlaybackDevice` | the playback ring sample by sample, its wakers and callbacks; refines `OutputPump` |
| `CaptureDevice` | the capture ring, the thread that owns a stream, `pump_in` |
| `AudioDevice`, `AudioDeviceProofs` | either of the two, for TLC, and the proofs about both |
| `Resampling` | `ResamplerStage` over `RubatoSincResampler` |
| `VadGate` | `VadStage` over `Debounced` |
| `ListeningProofs` | the proofs about `Resampling`, `VadGate`, `EngineWorkers` and `SpeechToText` |
| `Utterances` | abstract specification: the utterance protocol of an engine |
| `EngineWorkers` | `Buffered` and the worker threads of sherpa (streaming, offline, detector); refine `Utterances` |
| `SpeechToText` | `SttStage` over them |
| `OfflineTranscript` | the windows of one utterance and the merging of their texts |
| `Listening` | any of the four parts before, for TLC |
| `Inbox`, `SpokenText` | a stage's inbox as the loop presents it; texts and their sentences |
| `LlamaWorker`, `SherpaSpeech` | the worker threads of a reply's model and of its synthesis |
| `ReplyPath` | `LmStage`, worker, chunker, `TtsStage` and synthesis worker |
| `CompositionProofs` | the proofs about `ReplyPath` and `Pipeline` |
| `Dispatch` | ingress, `LmStage` and egress around an arbitrary transport |
| `ToolCalls`, `LlamaPrompts` | what the worker makes of sampled text, and what it has the model read |
| `SpokenErrand` | the stages a call passes in the hermes example, to its pump |
| `Errands` | any of the last four, for TLC |
| `EventChannel` | the bounded channel from a transport to its source |
| `HermesDispatch`, `WebhookDispatch` | the transports |
| `DispatchTransports` | either of them, for TLC |
| `DispatchProofs` | the proofs about `Dispatch` and the transports |
| `ZeroclawActor`, `DelegatePoller` | the connection actor, the poller of delegations |
| `ZeroclawLm` | either of them, for TLC |
| `BrowserEngines`, `BrowserSession`, `Browser` | the browser's engines; its audio and session; either of them |
| `AdapterProofs` | the proofs about `ZeroclawLm` and `Browser` |
| `MCRunLoop`, `MCPipeline` | constants for TLC |

`RunLoop` EXTENDS `Link` and refines `Mailbox`; `Pipeline` is
`Barge == INSTANCE RunLoop`, `Agent == INSTANCE RunLoop` and `Pump == INSTANCE OutputPump`
with the middle links identified. Everything downstream of these reduces the loop around a
stage to what it does to the stage (`Inbox`), which is what `Mailbox` entitles it to. A
module "for TLC" chooses with a variable that never changes which of its parts a behaviour
is about; the parts share no state, and each has a specification of its own. Operators whose
comment starts with "Mutant:" are variants of the definition below them; no specification
uses them, and each names a bug some property must notice.

## 2. How the models correspond to the code

**Frames.** A frame is `[seq, kind, ep]`. `seq` is the link's stamp. `kind` keeps what the
runtime tells apart: `interrupt`, `stop`, `other` on the system lane (Start and Error
take the same branches), and on the data lane `edge` (SpeechStarted), `media` (any other
droppable frame) and `durable` (`survives_flush`). `ep` is history: how many Interrupts
the frame's cause came after.

**Link.** `next` is `Outbound.seq`; `tx`/`rx` say that the two ends exist. `SendData` and
`SendSystem` are a send up to its first suspension: every send clones its channel handle,
whose own reserved slot lets it enqueue at once, so a lane may exceed its capacity; the
send then waits (`Flushed`) until it no longer does. `flush_data` is `Kept`. The channel
(`futures::channel::mpsc`) is external and modelled from this use.

**RunLoop.** One action per stretch between suspension points.

| code | actions |
|---|---|
| head of `run`: `recv`, replay of `pending` | `TakeSystem`, `TakePending`, `TakeData`, `Finish` |
| forward of a data frame, awaited outright | `HandleData`, `Forwarded` |
| `select_biased!` of effects against `recv_sys` | `Perform`, `PerformDone`, `PerformFails`, `Preempt`, `Stash`, `ErrorSent` |
| `handle_system` | `HandleSystem`, `SystemPerform`, `SystemPerformFails`, `SystemHandled` |
| its flush | `RetainPending`, `FlushData`, `FlushEnds` |
| after the race | `SettleStashed`, `SettleInterrupt`, `Continue`, `Break` |

`pending`, `stash` (`sys_buf`), `intr`, `stop` and `floor` are locals or fields of the code;
`kept` is the vector a flush is building; `cur`, `effects` and `wait` are the frame in hand and
where its future is. `cut`, `epoch` and `abandoned` are history and no guard reads them, except
that `epoch` computes the `ep` of frames sent. The stage is the constants `OnData` and
`OnSystem`, sets of decisions `[forward, effects]`, so that a theorem about `RunLoop` holds
for every stage. An effect sends at most one frame; a `perform` that sends several is several
effects.

**OutputPump, PlaybackDevice.** `pending` and `taken` are the vectors of that name in
`pump_out` and `play_racing_sys`. In `OutputPump` the ring is the set of chunks of which
the device holds a part, and a callback is one step. `PlaybackDevice` replaces it by the ring of
samples, `poll_push` split where its waker is registered and the ring looked at again,
and callbacks that pop one sample a step; `ImplementsPump` maps the one to the other.

**CaptureDevice.** `next_chunk` is split in the same way; `Builds` to `Joined` are
`spawn_stream` and `StreamThread::drop` with the handshake between the two threads.

**Pipeline.** The head is `BargeInStage`, whose decisions are `TurnData` and `TurnSystem`; the
second stage is a parameter. It holds for longer chains only as far as the proofs about
one loop go: neighbours appear there as anything a link allows.

**Resampling.** Frames are numbered as they are captured. Output of a block is the block and
the frames the filter had seen before it, which is what the property is about; rates and
channels decide whether audio passes, is mixed or is converted.

**VadGate.** The score and its threshold are one nondeterministic verdict per window. Chunks
are numbered and have a length; samples are not modelled. An Interrupt may fall anywhere
between two actions, which also allows it between the commit of the gate and the first send;
the code has no await there, so that the model has more behaviours than the code.

**Utterances, EngineWorkers, SpeechToText.** `Utterances` says what a caller sees: calls in
order, each answered once, an answer of the utterance it was asked for or none, protocol
errors exactly where the protocol is broken. Audio is the chunks fed, each with a voice in it or not, and a
hypothesis the places of those with one. `EngineWorkers` has four engines (`engine`):
`Buffered`, the streaming and the offline recogniser and the detector of sherpa. Handle and
thread communicate by a command queue and a generation counter, and every look at the counter
is a step of its own. A call that was dropped leaves its command in the queue.

**OfflineTranscript.** Words are numbered and occupy samples; the recogniser hears what lies in
its window, and perhaps a part of what its end cuts off. Merging is modelled as it is: by words, or
without spaces if neither text has one.

**LlamaWorker, SherpaSpeech, ReplyPath.** A worker's loop from one look at its epoch to the
next. The record of processed tokens is kept apart from the KV cache (`llama.cpp`, external).
`LmStage` reads deltas until the stream ends, and a stream ends in the same way whether it is
complete or given up.

**Dispatch.** A stage's inbox is one sequence in stamp order. That system frames come first
(`HasData`) and that an Interrupt discards the droppable frames before it (`AfterInterrupt`) is what
`ImplementsMailbox` proves of the loop; ingress runs a loop of its own, modelled as it is:
`IngressInterrupt` forwards, `IngressFlush` is `flush_data`, `IngressSends` sends the keepers, or the
projection that follows a raw event. A send is over whenever the sender goes on, so lanes have no capacity here
and a wait is a delay. An event is accepted (a tool result, context only; Progress
takes the same path as far as generating goes) or a completion (every kind that asks for a reply). The transport is
what its traits promise and no more: `send_command` may fail after the backend has the command, and events
come in any order.

**ToolCalls, LlamaPrompts.** `Pushed` is the interceptor's loop over characters of a small alphabet whose
delimiters overlap as those of `ChatMlXml` do. A prompt is a sequence of tokens: roles, pieces of text, calls
as sampled and as rendered again, a tool set's declarations, marks of the template. `Asks` is everything up to
the first decode: rendering, the doubled BOS, the context limit, the comparison with the record
(`SharedLength`), the trim (`Trimmed`). `Prefills` appends what is behind the reused part, batch by batch, to
whatever the cache and its record hold: a part wrongly reused, or a cache left untrimmed, stays in what the
model reads.

**SpokenErrand.** Texts are counted in sentences, and an acknowledgement is a text of one. The
pump is that of the hermes example, which looks at nothing while it plays.

**Transports.** `line` is the channel with the senders that wait behind it. In `HermesDispatch` the sink's
future, the poller and the server take turns; a post may be lost on the way there or back, or dropped by a
barge-in; the history a follow-up replays is roles and runs. In `WebhookDispatch` a detached worker
posts, frees the slot, records the exchange and emits, four steps as in the code.

**ZeroclawActor, DelegatePoller.** One action per arm of `tick_connected` and `turn`; the two looks of
`turn` at the epoch and at the watch are two actions, and so are the two writes of `cancel`. The daemon is
external: it takes prompts and cancels in order and ends each turn. The poller registers its wait after its scan, as the
code does.

**BrowserEngines, BrowserSession.** One thread. A chain of promises is a sequence whose
links run once those before have settled; what the engine does meanwhile is a step of
its own. `BrowserSession` has `start()` await by await, and a stop between any two.

## 3. What is checked

| run | bounds | what it shows |
|---|---|---|
| `loop` | 3 inputs of 6 kinds, capacity 1 | `IInv`: order of everything held, causal flush, no stale backlog; `MailboxSpec`: the loop implements `Mailbox`; `OutputFollowsCause`: nothing decided before an Interrupt is sent after it; `LanesBounded`: a lane is over its depth only by awaited and abandoned sends; `InterruptHandled`: even if a perform never ends |
| `pipeline` | 3 inputs, 2 stages, capacity 1 | `BargeInComposes`: each part's invariant where its neighbours are the real ones, and nothing stale heard end to end, though the three links have stamps of their own; `UtteranceSurvives`; `SpeechSilences`; `ShutdownEndsAll` |
| `device` | 4 frames, a ring of 2 samples, chunks of 2; a capture ring of 3, 6 samples | `ImplementsPump`; `SamplesAreCurrent`: after an Interrupt no stale sample, and of the microphone's none lost uncounted; `InterruptApplied`: even if the device never calls again; `NoWakeupLost`; `DropReturns` |
| `listening` | 6 frames in blocks of 2, two rates, mono and stereo; 5 chunks of length 0, 1 or 3 in windows of 2; 4 calls, 2 cancels; 3 words of 1 or 2 samples in windows of 3 or 4 | `SessionsAreIndependent`; `GateIsSound`; `SessionContract`: the engines implement `Utterances`; `CallsReturn`; `FinalIsUtterance`; `TranscriptIsWhole` |
| `dispatch` | 1 utterance, 1 Interrupt, 2 calls of which one parses; 7 characters in pieces of 1 or 2; 2 turns of 2 sentences; 3 messages in a context of 11 tokens, batches of 5 | `ConclusionsFollow`: no claim or result without its cause; `BargeInLosesOneCallOnly`: every event is told once and in order, and at most one call is lost (together the inductive `DispatchInv`); `CallsReadAsWritten`; `ErrandInOrder`; `BothEndsAreTold` |
| `transports` | a channel of 1; 2 commands, 1 task, 2 runs; 3 turns of 2 tasks, a transcript of 1 | `TasksAreKeptApart`, `TasksAreReported`, `ReplaysWhatWasReported`, `CloseIsSeen` |
| `zeroclaw` | 2 generations, 2 cancels, a lost connection; 3 delegations of which one is old | `SessionIsShared`: turns kept apart, a delegation told once; `StreamsAllEnd`; `PollerCatchesUp` |
| `reply` | 2 turns of 2 words, batches of 1, an Interrupt | `SpeechInOrder`; `WorkIsCurrent`: an end means the whole, the cache is the prompt, one late decode at most; `FinishedIsSpoken` |
| `browser` | 3 generations of 2 tokens, 3 clauses of sentences of up to 5 words, 3 windows, 2 barge-ins; 3 chunks, 3 tail frames, 3 ticks | `RepliesAreWhole`, `ClausesMakeTheSentence`, `AudioIsCurrent`, `EngineAnswers`, `StopReleases` |
| `vad_lost_edge`, `zeroclaw_cancel`, `spoken_ack` | | disagreements, section 4 |

*Why the bounds suffice.* Capacity 1 makes every send a possible wait. Three inputs are the least
that put a deferred frame, an Interrupt and a hanging perform together, or a keeper, an Interrupt and
a frame behind it; a fourth adds only longer queues of the same kinds, and the theorems of section 5
do without any bound. In the pipeline one edge makes the head send two frames and the agent more.
A chunk as long as the playback ring with a sample left in it makes a push that parks, resumes and
parks again. Blocks of 2 with chunks of 1 and 3 make blocks over two chunks and two blocks in one. For the
gate, lengths 0, 1 and 3 against windows of 2 make chunks with no window, a window spanning two
chunks and two windows in one chunk; the pre-roll of 4 makes the ring drop one chunk, several, or
none, and five chunks are onset, body, end and a second onset. Four calls and two cancels put a
dropped call's command, its successor and a cancel into one queue. Words of 2 against overlaps of 1 and 2
fall on, beside and into a seam. Seven characters hold a call between two texts, or two delimiters cut
in the middle; a context of 11 tokens is reached by the third message and not by the first. One event of room makes every second sender wait. Two
turns of two words are the least that can mix a generation with the next. `MaxIn`, `MaxSent`, `MaxInput`, `MaxChunks`,
`MaxUtterances` and the other `Max...` constants bound the environment only, never the component.

*Deadlock.* It is checked in `loop`, `pipeline` and `reply`, where `Ended` (`Rest` in `ReplyPath`) is the one state that may
stutter. It is off elsewhere, where an environment that has used up its bound leaves nothing to
do: a sender that keeps its link open, a gate whose chunks are all captured, a server without runs.

*Fairness.* One executor polls every woken future, so a loop that can go on does
(`WF(Looping)`, per stage in `Pipeline`), and in `RunLoop` alone the neighbour downstream keeps reading.
Whether `perform` gets on depends on a model or a network, and whether a push ends on the device.
Neither is assumed there: `FairIO`, `FairDevice`, `FairModel` and `FairSink` are premises written
into exactly the properties that need them. `InterruptHandled` and `InterruptApplied` do without.
Of a device it is assumed that a callback once begun returns and that the operating system runs a
stream's thread, not that the device calls again. Worker threads run, and a future is polled once it is
answered (`listening`, `reply`). A server ends the runs it has started and, of polls repeated for
ever, answers some (`SF(ServerAnswers)`: some of them may fail); the ZeroClaw daemon ends its turns, and a
delegation that stays pending ends or grows stale (`SF(Resolves)`, for those not stale from the start). The browser's
event loop runs what is ready, and a generation ends within `max_new_tokens`.

## 4. Disagreements found

1. **A scorer's error loses edges** (`vad_lost_edge`). `process` fails after earlier windows of the
   same call have flipped the state; their events are dropped, and the next event is a
   SpeechStopped that nothing started. From the next edge on the gate follows the detector again.
2. **A cancel between two looks is lost** (`zeroclaw_cancel`). `turn` compares epochs and then marks the
   watch seen; a cancel that does both its writes between the two is marked seen, and the turn of
   the older epoch is prompted.
3. **An acknowledgement meets a chunker in mid-text** (`spoken_ack`). If the model speaks before it
   calls, the sentence that `DispatchAck` slips in is measured against the offset of the
   model's text, and the chunker's assertion fails. `ErrandInOrder` is what holds for models that do
   as the example's comment says (`CallsAlone`).

Others were met while modelling and are not runs. For those with a name the definition is in the module
and TLC refutes it.

- `QueueRefusesCallerBugs` (`ZeroclawActor`): the one queued generation may itself be cancelled while
  a turn drains, and the live one after it is refused as a caller's bug (`ad/pipecrab-lm-zeroclaw/src/worker.rs:463`).
- `RepeatsAreMerged` (`OfflineTranscript`): two windows of one word each are merged as unspaced text, and a
  repeat is not found (`ad/pipecrab-stt-sherpa/src/offline_worker.rs:351`, against its README); and with durations that round to
  the same number of samples `FinalComes` fails, as the window never advances (`config.rs:168`, `offline_worker.rs:327`).
- `BargeInCostsOneClause` and `StateNeverRaced` (`BrowserEngines`): runs already queued in kokoro.js are waited out; a
  dropped score overwrites the state that was reset (`synthesizer.rs:43`, `scorer.rs:29`).
- With `RestoreClears` (a failed `load_state` that has cleared the cache), the record of processed tokens stays, and
  the next prompt is conditioned on nothing (`LlamaPrompts`; `ad/pipecrab-lm-llamacpp/src/worker.rs:637`).
- A conversation is never trimmed: once its prompt exceeds the context every generation fails (`worker.rs:450`).
- `LmStage` says that an interrupted generation emits no GenerationFinished; one interrupted while that send waits
  has enqueued it and commits nothing. A tool result whose generation was interrupted answers nothing in the history.
- Keepers held by the pump have no stamps, so that a second Interrupt drops what is newer than itself; the chunk
  pushed after a cancel and before the next callback is discarded with the rest; a long chunk with a full tail
  lane delays an Interrupt, as the last stage waits in a forward, which is not raced.
- Ingress re-forwards keepers with fresh stamps before it looks at the next Interrupt, which in the next stage flushes what was newer.
- The zeroclaw transport frees a task's slot before it records the exchange: the next turn may replay a transcript
  without it, and two exchanges may be recorded in the other order, the older displacing the newer once the transcript is full.
  Hermes' test for late answers (`inner.rs:292`) is never taken with one poller (`PollsCurrentRun`).
- The resampler drops an incomplete block, and the filter's tail, at a change of format. The futures channel of
  the browser's source holds one chunk more than `queue_chunks`. An open that fails after getUserMedia leaves the
  tracks live; when play fails the microphone goes on until stop. The hermes example's pump does not race its plays.

## 5. What is proved

| theorem | module | states |
|---|---|---|
| `TypeCorrect` | `RunLoopProofs` | `Spec => []TypeOK` |
| `InvariantHolds` | `RunLoopProofs` | `Spec => []IInv` |
| `OutputIsCausal` | `RunLoopProofs` | `Spec => OutputFollowsCause` |
| `Backpressure` | `RunLoopProofs` | `Spec => []LanesBounded` |
| `ImplementsMailbox` | `RunLoopProofs` | `Spec => MailboxSpec` |
| `PumpInvariant` | `OutputPumpProofs` | `Spec => []PumpInv` |
| `BargeInHolds` | `CompositionProofs` | `PipelineSpec => []BargeInComposes` |
| `UtteranceIsKept` | `CompositionProofs` | `PipelineSpec => UtteranceSurvives` |
| `WorkStaysCurrent` | `CompositionProofs` | `Spec => []WorkIsCurrent` |
| `SentencesFollow` | `CompositionProofs` | `Spec => []SpeechInOrder` |
| `AudioInvariant` | `AudioDeviceProofs` | `AudioSpec => []SamplesAreCurrent` |
| `RingImplementsPump` | `AudioDeviceProofs` | `AudioSpec => ImplementsPump` |
| `GateInvariant` | `ListeningProofs` | `Spec => []GateIsSound` |
| `SessionsIndependent` | `ListeningProofs` | `ResamplerSpec => []SessionsAreIndependent` |
| `EnginesKeepContract` | `ListeningProofs` | `SttSpec => SessionContract` |
| `StageFinishesUtterances` | `ListeningProofs` | `SttSpec => FinalIsUtterance` |
| `ConclusionsHold` | `DispatchProofs` | `Spec => []ConclusionsFollow` |
| `BargeInCostsOneCall` | `DispatchProofs` | `Spec => []BargeInLosesOneCallOnly` |
| `TasksKeptApart` | `DispatchProofs` | `TransportsSpec => []TasksAreKeptApart` |
| `FollowUpsReplay` | `DispatchProofs` | `TransportsSpec => ReplaysWhatWasReported` |
| `SessionShared` | `AdapterProofs` | `Spec => []SessionIsShared` |
| `RepliesStayWhole` | `AdapterProofs` | `BrowserSpec => []RepliesAreWhole` |
| `ClausesStayWhole` | `AdapterProofs` | `BrowserSpec => []ClausesMakeTheSentence` |
| `AudioStaysCurrent` | `AdapterProofs` | `BrowserSpec => []AudioIsCurrent` |

They hold for every value of the constants that the modules' assumptions allow:

- `CapacityAssumption`: a lane has room for at least 1 (`link()` clamps it);
- `DecisionAssumption`, `EnvironmentAssumption`, `TailAssumption`, `PipelineAssumption`: the decisions of a
  stage and the frames of a neighbour are of the kinds there are. Which decisions, and how many frames,
  is open: `MaxIn`, `MaxSent` and `MaxInput` are any natural numbers;
- `DeviceAssumption`, `CaptureAssumption`: a chunk has at least one sample and a ring holds at least one chunk of capture
  or one sample of playback (a capacity is `ring_chunks` chunks, `config.rs:55`; with 0 of either nothing is ever played or
  delivered);
- `ConfigAssumption`: a window has at least one sample (`process` never asks a scorer of empty windows, `debounced.rs:163`, and
  the gate then stays shut). Debounce and pre-roll may be anything, 0 included.
- `FormatAssumption`: rates and channel counts are at least 1 (`validate_format` rejects others), and so is a block. Chunks
  may be empty; which formats there are, and how much is captured, is open.
- `CapAssumption`, `HermesAssumption`, `WebhookAssumption`, `FilesAssumption`: an event channel, a task's ring and a transcript
  hold at least one entry; the numbers of tasks, runs, turns and commands are any, and so is the set of delegations.
- `DispatchAssumption`: any number of utterances, Interrupts and calls, any of which may parse.
- `LmAssumption`: any number of generations.
- `LlamaAssumption`, `SpeechAssumption`, `ReplyAssumption`: a reply may have at least one word, a batch at least one token and a
  sentence at least one segment; the numbers of turns and Interrupts are any.
- `EnginesAssumption`, `SessionAssumption`: a reply may have at least one token and a clause at least one word; the silence kept at
  a join, the lead and the microphone's queue may be anything, 0 included. Sentences, clips, captures and the clock have no bound.

About the engines and their stage nothing is assumed: calls, cancels, queues and audio have no bound.

*The loop's inductive invariant.* `IInv == TypeOK /\ Locals /\ InOrder /\ NoStaleBacklog /\ Causes`. What
one wants is `NoStaleBacklog`: outside the handling of an Interrupt, no droppable frame
older than the last one handled is anywhere the loop could decide it from. Alone it is not
inductive. A flush judges frames by `floor`, not by `cut`: they agree only because nothing
moves `floor` while an Interrupt is handled and because the stash is empty then (`Locals`).
A frame added during a flush must be newer than `cut`, which needs stamps to ascend across
keepers, pending and lane, and every waiting system frame to be newer than `cut` (`InOrder`).
`Causes` says that the frame in hand was decided after every Interrupt handled or sent, and that
`out` has seen no more of them than the loop; `OutputFollowsCause` follows from it step by step.
The proof has one step per action of `Next`, and under it one per conjunct; lemmas about
appending to, taking from and joining ordered lanes carry the sequence reasoning.

*The loop refines `Mailbox`.* `Mailbox.sys` is `SystemWaiting`: stash, deferred Interrupt, lane. `Mailbox.data` is
`DataWaiting`: what is in `kept`, `pending` or the lane *and* will pass the flush of the last
Interrupt handled, so that the abstract mailbox discards in one step what the loop takes a
frame at a time to drop; `RetainPending`, `FlushData` and `FlushEnds` are stutters. So are sends, the
race and settling, except that settling hands a deferred frame over. `Preempt` takes the
Interrupt out of the lane and into `intr`, still waiting: it is handled after the stash, so that
system frames keep their order.

*The pump.* `PumpInv == TypeOK /\ Ordered /\ NothingStaleAudible /\ NothingStaleHeld /\ CausesInOrder` is inductive.
What one wants is `NothingStaleAudible`. It needs the frames held to be fresh (`NothingStaleHeld`), and a
frame that is taken later to be no older in cause than the Interrupt applied before it, which follows
from the stamps (`Ordered`) only because causes ascend with them on one link (`CausesInOrder`). A flush is
a recursive function over a lane; that it keeps exactly the right frames in their order is
proved once, in `LinkProofs`.

*A barge-in composes.* The theorems about the parts are instantiated, one stage's output link being the
next one's input. Each part was proved with an arbitrary neighbour as one more action of its own,
so two things are left. What the real neighbour does to the link is what the arbitrary one may do
(`Sent`, `Drawn`: it sends frames of the kinds there are with the next stamp and its own epoch, or
takes frames, or leaves), step by step of each. And `NothingStaleHeard` compares
epochs of the last link only; that an epoch means the same at both of its ends is `Causes` of
the stage between.

*An utterance is kept.* A flush takes what was sent before its Interrupt, so a frame is safe when it is behind
every Interrupt queued and behind the cut the agent flushes by. `UtteranceInv` says so of each frame that comes after every
Interrupt sent down the link, and that no frame queued comes after more of them than turn has handled or sent. The
second keeps the first true when turn sends an Interrupt: that one is beyond the epoch turn has reached (`SendsAbreast`), so no
frame already queued comes after it. `Abreast` is what this needs of turn: it takes a frame only with no
Interrupt waiting, so what it has in hand or is yet to decide comes after none but those it has handled or is about to. That
rests on turn deciding nothing of its own when it handles a system frame (`TurnForwards`).

*The device.* `Shown` is the refinement mapping: the ring's samples as the set of their chunks, the discard
still wanted while the callback that saw the flag is on its way. A poll of a push is
several accesses with callbacks between any two, so that two facts are needed that no access states:
`MidPoll` (in the middle of a poll a push is under way) and `RingInOrder` (the ring holds chunks in the order
they were sent, so that what a callback takes is the oldest). On the capture side, what was sent, the
chunk in hand and the ring are one sequence in the order of capture; `ChunksWhole` and
`BufferBegun` say where a buffer that a callback has begun to write stands in it.

*The gate.* `GateIsSound` is inductive as it stands; its parts were found by failing without them. An onset
replays the ring, so the ring has to hold what a whole utterance begins with: every chunk since the
last utterance or Interrupt, or as many as the budget allows (`RingFull`), each as captured
(`ChunksAreCaptured`). The edges of a batch are decided before the first is sent: `DetectorAhead` says that
the detector leads the gate by just those, and `GateIsWhereOutputEnds` that the gate is where the
frames sent and still planned leave it. The plan for a chunk is a fold over its edges, and
its correctness an induction over them. What the ring drops is a sum of durations.

*The resampler.* `SessionsAreIndependent` speaks of what was sent; what the next conversion does with a chunk rests on
the backend. `FilterFollowsSession` adds that between a session's chunks the filter is set for the session's format, and
its history is what the session sent; when nothing is to be converted it is empty, and so is the incomplete block. That
a chunk is cut into whole blocks and a rest is arithmetic on `BLOCK_FRAMES`; that a session's chunks joined are its
frames is an induction over them, `FlattenSeq` being a recursive function.

*The engines implement their contract.* `SttSpec => SessionContract` is a refinement, step by step. What the caller of
`Utterances` takes for the session is, with a worker thread behind a queue, not stored anywhere: it is the worker's
stream once everything queued has been served, the commands of a generation given up being dropped unserved and the
first of the current one finding the stream forgotten. `Caught` says so as an iteration over the queue (`Track`), and the
lemmas of the section say what happens to it when a command is put at its end, is taken from its head, or loses
its caller, and when the counter moves on. Four facts make `EngineInv == EngineTyped /\ NoneAhead /\ OneAwaited /\ Served`: no
command, worker or call is of a generation to come; the call that waits is that of the last command
sent, or of the one in the worker's hands when the queue is empty, and of no other; and what the worker
holds between two commands is a session of `Utterances` (`Holds`), what it has shown being what that
session lets one hear. A step of the engine is then one of five things to its caller (`Seen`): a call made, a call
answered, an engine broken or refusing, a cancel, or nothing.

*The stage over them.* `FinalIsUtterance` needs of the engines only that contract. The stage trusts the gate's edges, so that
what is in its inbox has to bracket with the session as it will be found: a voice or a closing edge follows an onset
or another voice in the lane, or else finds the session open, and no onset finds one open but behind an
Interrupt (`EdgesBracket`; a dead worker opens nothing and excuses all). Then no call is out of protocol, the open session
has heard exactly `utterance`, and what the closing edge's call is answered with is the whole of it or a failure (`StageKeeps`).
An Interrupt between two calls closes the session and discards the frames before it in one step, which is what lets
the bracket begin anew.

*The work of a reply.* `WorkInv == ModelInv /\ PathOk /\ SherpaOk`; `PathOk` types the stages and their inboxes. The cache is what
a reply is sampled from (`CacheIsPrompt`) only because at each point of a command one knows how far it is: a
beginning of the prompt while batches go in, the prompt and all words made but the last while a word is fed back (`JobOk`). That a
decode fails after the cache has grown leaves it longer than its record, which the next command cuts back. `QueueOk`
keeps the words apart: epochs ascend in the queue, so that of a command that waits nothing was heard, and of the one at work
the stage has read and has yet to read just the words it made; `LmStage` therefore never reads more than
`MaxWords`. `StreamOk` and `SherpaOk` say that whoever still reads a stream reads that of the last epoch, and that a thread which
ends a stream for a passed epoch ends nobody's.

*The order of speech.* `SpeechInv` takes what is spoken, what waits in the inbox of `TtsStage` and what the chunker has yet to emit as
one sequence (`Voice`), of which every step but an Interrupt only moves the marks: the chunker adds to its end, and speaking
moves a sentence from its middle to its front. An Interrupt takes the inbox's and the chunker's part away. Three things make it inductive. `Chained`: within a turn each
sentence begins behind the last, and a new turn begins with its first word. `HeadOk`: the frame the chunker reads next finds
the offset where the text before it left it, or it announces or ends a generation, which resets it. `Follows` with `Reading`: in the
chunker's inbox each partial transcript stands behind the one a word shorter, or behind the announcement of its generation, and
what the stage is about to send goes on from there, so that `HeadOk` holds again of the next frame. `Users` brings the turns to the model in their
order. `Cut` says what a text is cut into, by an induction over its words (`SpokenText` cuts with a recursive function), and `Said` which
sentences of an inbox an Interrupt leaves to be spoken, by an induction over the inbox.

*The round trip of a task.* `DispatchInv` is the two invariants of the run together. A result in the conversation has to
follow the turn that made its call, and between the two lie egress, the transport, ingress and two lanes:
`ReportsFollowCalls` says at each of these places that what is reported was delivered and what was delivered was called,
and of every call that the conversation tells it, or the turn under way holds it, or that turn was abandoned. That
a generation takes no input while it runs (`LmTakes` waits in "recv", and there its calls are none) makes the two meet.
`ClaimsArePublished` is not inductive, for a claim could be made twice: `CallsInOnePlace` adds that a call waits in
egress's inbox once and is neither being published nor claimed. `BargeInLosesOneCall` rests on the same: what an Interrupt
finds in "publish" is the one call that is in no other place, and what it finds later is claimed. For the events,
`EventsReachModel` is an equation of sequences (told, in lm's inbox, still to be sent), which every step keeps by moving an
event from the head of one to the end of the next, and an Interrupt keeps because the frames it discards are no inputs;
a flush of ingress takes up upstream's frames only, for the input in hand went out before (`FlushKeepsNoInput`).

*A task on Hermes.* `RunsInv` is inductive. What one wants, `RunsAreKeptApart`, looks at what was told; that nothing is told
of a run after its end or out of turn rests on what the sink and the poller have in hand across their awaits.
`SinkHoldsTask`: while a post is under way its task has no active run, and the run that comes back is later than anything told.
`PollerFollows`: every pair the sweep collected is still the registry's, because only the poller ends a run;
an event it has decided on but not sent is of the task's run, or ends the one before. `RunsAreLast` bounds
everything told of a task by its active run. `HistoriesAreWhole` carries the follow-ups: an answer is in the
history before its completion is on its way, and each behind its own question.

*A task on the webhook.* `SlotsInv` says that a turn at the gateway, or back from it and not yet finished, holds its task's
slot alone (`SlotsAreHeld`). A first turn is spawned only when its Accepted has been sent, so that a task that waits for
it holds the slot with no turn at all. `AnswersAreRemembered` follows a completion backwards: told, hence emitted, hence
recorded, and what was recorded is only ever displaced by others that fill the transcript (`Remembered`).

*The shared session.* `TurnsInv` ties the actor to the wire. `GensInOrder`: the generations asked for, queued, run and
answered ascend, so that what is on the wire is never of a turn to come. `WireIsQuiet`: between two turns the daemon
rests and nothing incoming could be taken for speech; this is what the drain of a cancelled turn and the
grace period are for. `PromptIsTheTurns` and `AnswerIsTheTurns`: inside a turn there is one prompt, then the daemon's work, then
its answer, and behind an end nothing more is said. That a cancel may be sent to a daemon that is done
already, that the connection may close at any point and that the handle may be dropped are steps like
the others. All of it rests on the daemon sending a turn's terminal before the response to its prompt, or
not at all (`worker.rs:523`: "The daemon writes turn_complete before this response"): a terminal later than the grace period would be
taken for the next turn's. `DelegatesInv` adds that a delegation is settled before it is told.

*The browser's engines.* `EnginesInv == GenerationsOK /\ SpeechOK`. A chain of promises is a sequence worked off in order
(`OneAtATime`: behind one that runs everything is settled), from which at most one runs. Of a reply one wants that it is read in
full: what the stage has read and what is queued of its generation is all that generation has made (`ReadInFull`), as long as
nobody has told it to stop, and nobody tells the one that is read; every other has been told (`GenerationsOK`). That
a token is the most a barge-in costs follows from the same: once the one that ran has ended, no other told to stop ever begins.
The clauses are proved of the loop of `clauses.rs` by an induction over its words (`Cut`), with the remainder that rides with the
clause before it as a case of its own; `trim_joins` by counting loud and silent samples before and behind the cut.

*A page's audio.* `SessionInv == CaptureOK /\ Scheduled /\ TailOK`. That `slack` stays within the lead is not inductive: `enqueue`
computes it from the end of the schedule, sources are taken off as they end, and the clock moves on. `Placed` says of each
source how far the end of the schedule may lie beyond its own end, or beyond the lead, namely by what lasts behind it; when it is
the first and has ended, this is the bound of what is left. `Numbered` is the order of the microphone's chunks, through
the messages that are posted, the queue and what was sent; the count of `CaptureIsSafe` holds from the moment the handler
is attached, since before it nothing is posted, until the source goes (`CaptureOK`).

*Induction over data* is done without a theorem that takes an operator: a predicate is given as the
set of numbers that satisfy it, and `LinkProofs` derives from the well-foundedness of `<` that a set with 0 and
closed under successor is `Nat` (`SetInduction`), that a function defined by iteration exists and is the one the
`CHOOSE` of its definition names (`Iteration`), and that two such functions agree (`CountingUp`).

## 6. Only model-checked

Liveness, with the fairness of section 3, is out of the prover's reach, and so is everything that
rests on ENABLED: `InterruptHandled`, `InterruptApplied`, `NoWakeupLost`, `DropReturns`, `SpeechSilences`,
`ShutdownEndsAll`, `CallsReturn`, `BothEndsAreTold`, `TasksAreReported`, `CloseIsSeen`, `StreamsAllEnd`, `PollerCatchesUp`,
`FinishedIsSpoken`, `EngineAnswers`, `StopReleases`. On small instances only, and not for that reason:
`TranscriptIsWhole`, `CallsReadAsWritten` and `ErrandInOrder`.
Of a reply, the theorems say that what is spoken is in order and nothing between is missing; that all of a finished
reply is spoken is liveness (`FinishedIsSpoken`).

## 7. Not modelled, and why

- `offload` and `MaybeSend`: a thread hop without state; a `perform` that runs long and can be dropped is what it
  amounts to.
- Numbers: the sinc filter, scores, sampling, synthesis. A model's output is any output.
- Text as such: JSON of tool calls, the schema-to-grammar translation, wording, punctuation rules; the wire formats of the
  two dispatch servers. Of ZeroClaw's, the handshake, what a prompt is made of and how an incoming message is told
  apart are modelled (`protocol.rs`, `render.rs`).
- Construction: model loading, paths, device choice, validation of configurations, except where a value changes
  behaviour (windows, rates).
- Pipelines of more than two stages, and nested ones: the wiring is the same, and section 5 makes no assumption on neighbours.
- The browser's speech recogniser: one call behind `Buffered`.
- The zeroclaw agent example wires the parts above as the hermes one does; other examples, test support and the layering lint
  have no behaviour of their own.

## 8. Plan

1. *Done:* the core and its proofs; pump and device; pipeline; listening; reply; dispatch with its transports; the zeroclaw
   actor; the browser.
2. Proofs. *Done:* the pump, the pipeline's barge-in and the utterance it keeps by composing the theorems about each part, the device bridge, the
   gate, the resampler, the engines' contract and the stage over them, the round trip of a task, the transports, the session
   of `ZeroclawActor` and its delegations, the reply path, the browser. Next: `TranscriptIsWhole`, `ErrandInOrder`.
3. An abstract transport that both `HermesDispatch` and `WebhookDispatch` implement and that `Dispatch` is composed with.
