----------------------------- MODULE CaptureDevice -----------------------------
(***************************************************************************)
(* The capture half of pipecrab-audio-cpal: the device's callback writes   *)
(* samples into a ring that next_chunk reads a chunk at a time, a thread   *)
(* of its own keeps the stream alive, and pump_in of the application sends *)
(* each chunk into the pipeline.                                           *)
(*                                                                         *)
(* The callbacks run on threads of the device, from before the source is   *)
(* handed over until its stream is dropped, between any two accesses of    *)
(* poll_next_chunk to the ring and the Signal.  Samples are numbered; the  *)
(* mixing of channels is left out, and so is the choice of a device.       *)
(***************************************************************************)
EXTENDS Naturals, Sequences

CONSTANTS
    CaptureSize,     \* CpalConfig::ring_capacity, in samples
    ChunkFrames,     \* CpalConfig::chunk_frames
    MaxSamples,      \* bound on the samples the device captures
    MaxBuffer        \* bound on the samples of one buffer

ASSUME CaptureAssumption ==
    /\ ChunkFrames \in Nat \ {0} /\ CaptureSize \in Nat /\ CaptureSize >= ChunkFrames
    /\ MaxSamples \in Nat /\ MaxBuffer \in Nat \ {0}

VARIABLES
    mic,        \* the device: [captured, left, callback, overruns, closed, failure]
    samples,    \* the ring
    reader,     \* the task: [at, chunk, waker, woken], at where poll_next_chunk stands
    source,     \* CpalSource: "waiting" for the handshake, open, "joining", gone
    thread,     \* the thread that owns the stream, and whether its shutdown sender lives
    delivered   \* ghost: the samples of the chunks sent into the pipeline

capture == <<mic, samples, reader, source, thread, delivered>>

Streaming == thread.pc = "parked"

CaptureInit ==
    /\ mic = [captured |-> 0, left |-> 0, callback |-> "idle", overruns |-> 0,
              closed |-> FALSE, failure |-> "none"]
    /\ samples = <<>>
    /\ reader = [at |-> "poll", chunk |-> <<>>, waker |-> FALSE, woken |-> FALSE]
    /\ source = "waiting"
    /\ thread = [pc |-> "building", shutdown |-> TRUE]
    /\ delivered = <<>>

(***************************************************************************)
(* The stream's thread, and the constructor that waits for it.             *)
(***************************************************************************)
\* build runs; the stream it returns is started already.
Builds ==
    /\ thread.pc = "building"
    /\ thread' = [thread EXCEPT !.pc = "parked"]
    /\ UNCHANGED <<mic, samples, reader, source, delivered>>

\* build fails or panics, and the thread is over.
BuildFails ==
    /\ thread.pc = "building"
    /\ thread' = [thread EXCEPT !.pc = "gone"]
    /\ UNCHANGED <<mic, samples, reader, source, delivered>>

\* setup_rx.recv: the ring's end, or an error once the thread is joined.
Opens ==
    /\ source = "waiting" /\ thread.pc # "building"
    /\ source' = IF Streaming THEN "open" ELSE "gone"
    /\ UNCHANGED <<mic, samples, reader, thread, delivered>>

\* Mutant: the thread is joined before its sender is dropped.
DropJoinsFirst ==
    /\ source = "open" /\ reader.at = "ended"
    /\ source' = "joining"
    /\ UNCHANGED <<mic, samples, reader, thread, delivered>>

\* The pump has ended and the source is dropped: first the sender, then the join.
DropSource ==
    /\ source = "open" /\ reader.at = "ended"
    /\ source' = "joining"
    /\ thread' = [thread EXCEPT !.shutdown = FALSE]
    /\ UNCHANGED <<mic, samples, reader, delivered>>

\* shutdown_rx.recv returns; dropping the stream waits for a callback under way.
DropStream ==
    /\ Streaming /\ ~thread.shutdown /\ mic.callback = "idle"
    /\ thread' = [thread EXCEPT !.pc = "gone"]
    /\ UNCHANGED <<mic, samples, reader, source, delivered>>

Joined ==
    /\ source = "joining" /\ thread.pc = "gone"
    /\ source' = "gone"
    /\ UNCHANGED <<mic, samples, reader, thread, delivered>>

StreamThread == Builds \/ BuildFails \/ Opens \/ DropStream \/ Joined

(***************************************************************************)
(* The device's threads.                                                   *)
(***************************************************************************)
\* The device has a buffer of n samples.
Captures(n) ==
    /\ Streaming /\ mic.callback = "idle"
    /\ mic.captured + n <= MaxSamples
    /\ mic' = [mic EXCEPT !.callback = "write", !.left = n]
    /\ UNCHANGED <<samples, reader, source, thread, delivered>>

AfterWriting(n) == IF n = 0 THEN "wake" ELSE "write"

\* Mutant: the rest of a buffer that does not fit goes uncounted.
WriteStopsWhenFull ==
    /\ mic.callback = "write"
    /\ LET full == Len(samples) = CaptureSize
           left == IF full THEN 0 ELSE mic.left - 1
       IN  /\ mic' = [mic EXCEPT !.captured = @ + (mic.left - left), !.left = left,
                                 !.callback = AfterWriting(left),
                                 !.overruns = IF full THEN @ + 1 ELSE @]
           /\ samples' = IF full THEN samples ELSE Append(samples, mic.captured + 1)
    /\ UNCHANGED <<reader, source, thread, delivered>>

\* capture_write: a sample goes into the ring, or is dropped and counted.
WriteSample ==
    /\ mic.callback = "write"
    /\ LET full == Len(samples) = CaptureSize
       IN  /\ mic' = [mic EXCEPT !.captured = @ + 1, !.left = @ - 1,
                                 !.callback = AfterWriting(mic.left - 1),
                                 !.overruns = IF full THEN @ + 1 ELSE @]
           /\ samples' = IF full THEN samples ELSE Append(samples, mic.captured + 1)
    /\ UNCHANGED <<reader, source, thread, delivered>>

Rouse == reader' = [reader EXCEPT !.woken = @ \/ reader.waker, !.waker = FALSE]

CaptureWakes ==
    /\ mic.callback = "wake"
    /\ mic' = [mic EXCEPT !.callback = "idle"]
    /\ Rouse
    /\ UNCHANGED <<samples, source, thread, delivered>>

\* Signal::fail: the flag, then the wake.
StreamFails ==
    /\ Streaming /\ ~mic.closed
    /\ mic' = [mic EXCEPT !.closed = TRUE, !.failure = "wake"]
    /\ UNCHANGED <<samples, reader, source, thread, delivered>>

StreamFailureWakes ==
    /\ mic.failure = "wake"
    /\ mic' = [mic EXCEPT !.failure = "none"]
    /\ Rouse
    /\ UNCHANGED <<samples, source, thread, delivered>>

Writing == WriteSample \/ CaptureWakes \/ StreamFailureWakes

(***************************************************************************)
(* CaptureRing::poll_next_chunk, and the pump that awaits it.              *)
(***************************************************************************)
Enough == Len(samples) >= ChunkFrames
Reads == source = "open" /\ UNCHANGED <<mic, source, thread>>

Look ==
    /\ Reads
    /\ reader.at = "poll" \/ (reader.at = "parked" /\ reader.woken)
    /\ reader' = [reader EXCEPT !.at = IF Enough THEN "collect" ELSE "register",
                                !.woken = FALSE]
    /\ UNCHANGED <<samples, delivered>>

Arm ==
    /\ Reads /\ reader.at = "register"
    /\ reader' = [reader EXCEPT !.at = "again", !.waker = TRUE]
    /\ UNCHANGED <<samples, delivered>>

LookAgain ==
    /\ Reads /\ reader.at = "again"
    /\ reader' = [reader EXCEPT !.at = IF Enough THEN "collect" ELSE "closed?"]
    /\ UNCHANGED <<samples, delivered>>

\* Pending; or Closed, which ends the pump.
ParkOrFail ==
    /\ Reads /\ reader.at = "closed?"
    /\ reader' = [reader EXCEPT !.at = IF mic.closed THEN "ended" ELSE "parked"]
    /\ UNCHANGED <<samples, delivered>>

\* collect, a sample at a time
Collect ==
    /\ Reads /\ reader.at = "collect"
    /\ samples' = Tail(samples)
    /\ LET chunk == Append(reader.chunk, Head(samples))
       IN  reader' = [reader EXCEPT !.chunk = chunk,
                        !.at = IF Len(chunk) = ChunkFrames THEN "send" ELSE "collect"]
    /\ UNCHANGED delivered

\* The send returns, and the next chunk is awaited; or enough was sent.
ChunkSent ==
    /\ Reads /\ reader.at = "send"
    /\ \E at \in {"poll", "ended"} : reader' = [reader EXCEPT !.at = at, !.chunk = <<>>]
    /\ delivered' = delivered \o reader.chunk
    /\ UNCHANGED samples

\* The pipeline is gone.
SendRefused ==
    /\ Reads /\ reader.at = "send"
    /\ reader' = [reader EXCEPT !.at = "ended"]
    /\ UNCHANGED <<samples, delivered>>

Reading == Look \/ Arm \/ LookAgain \/ ParkOrFail \/ Collect \/ ChunkSent \/ SendRefused \/ DropSource

CaptureNext ==
    \/ StreamThread \/ Writing \/ Reading
    \/ (\E n \in 1..MaxBuffer : Captures(n)) \/ StreamFails

(***************************************************************************)
(* Properties.                                                             *)
(***************************************************************************)
CaptureType ==
    /\ mic \in [captured : Nat, left : Nat, callback : {"idle", "write", "wake"}, overruns : Nat,
               closed : BOOLEAN, failure : {"none", "wake"}]
    /\ samples \in Seq(Nat) /\ delivered \in Seq(Nat)
    /\ reader \in [at : {"poll", "register", "again", "closed?", "collect", "send", "parked",
                         "ended"},
                   chunk : Seq(Nat), waker : BOOLEAN, woken : BOOLEAN]

\* Every sample is sent, held, or counted as an overrun: what reaches the pipeline is in the
\* order of capture, nothing twice, and what is missing from it was dropped at a full ring
\* (CpalSource::overruns), however the callback and next_chunk interleave.
SamplesAccounted ==
    LET kept == delivered \o reader.chunk \o samples
    IN  /\ \A i \in 1..Len(kept) : kept[i] <= mic.captured
        /\ \A i \in 1..(Len(kept) - 1) : kept[i] < kept[i + 1]
        /\ Len(kept) + mic.overruns = mic.captured

\* The pipeline is sent whole chunks, and a chunk that is begun is there to be completed.
ChunksWhole ==
    /\ \E sent \in 0..Len(delivered) : Len(delivered) = sent * ChunkFrames
    /\ reader.at = "collect" => /\ Len(reader.chunk) < ChunkFrames
                               /\ Len(samples) >= ChunkFrames - Len(reader.chunk)
    /\ reader.at = "send" => Len(reader.chunk) = ChunkFrames
    /\ reader.at \notin {"collect", "send", "ended"} => reader.chunk = <<>>

\* A callback that is writing has a sample left to write.
BufferBegun == mic.callback = "write" => mic.left > 0

\* The inductive invariant.
CaptureInv == CaptureType /\ SamplesAccounted /\ ChunksWhole /\ BufferBegun

\* No wakeup is lost: a task that is parked goes on once a chunk is buffered, or the stream
\* has failed, with no help of a further callback (bridge.rs 128).
CaptureResumes ==
    (source = "open" /\ reader.at = "parked" /\ mic.callback = "idle" /\ mic.failure = "none"
      /\ (mic.closed \/ Enough)) ~> reader.at # "parked"

\* Dropping the source returns: the thread it joins has been told to end.
DropReturns == source = "joining" ~> source = "gone"
=============================================================================
