--------------------------- MODULE PlaybackDevice ---------------------------
(***************************************************************************)
(* The output pump over the playback half of pipecrab-audio-cpal: the      *)
(* ring of samples between the future of play and the device's callback,   *)
(* and the Signal that wakes the one when the other has made room.         *)
(*                                                                         *)
(* The callbacks run on threads of the device, between any two accesses of *)
(* poll_push to the ring and the Signal.  The pump and the stages are      *)
(* polled by one thread: a poll, once begun, is not interleaved with them. *)
(***************************************************************************)
EXTENDS OutputPump

CONSTANTS
  RingSize,    \* PlaybackConfig::ring_capacity, in samples
  ChunkSize    \* the samples of a chunk of audio

ASSUME DeviceAssumption == RingSize \in Nat \ {0} /\ ChunkSize \in Nat \ {0}

(***************************************************************************)
(* push is where poll_push stands: "poll" before it is polled, "parked"    *)
(* after it returned Pending.  offset is its local; ring holds the chunk   *)
(* each sample is of.  waker and woken are the AtomicWaker: a waker is     *)
(* armed, the task is scheduled.  callback and failure are where the       *)
(* output and the error callback stand.  Signal.discard is pump.discard;   *)
(* pump.ring is not used.                                                  *)
(***************************************************************************)
VARIABLE bridge
deviceVars == <<output, pump, bridge>>

BridgeType == [push : {"none", "poll", "first", "register", "again", "look", "parked"},
               offset : 0..(ChunkSize - 1), ring : Seq(DataFrame), closed : BOOLEAN,
               waker : BOOLEAN, woken : BOOLEAN,
               callback : {"idle", "discard", "play", "wake"}, failure : {"none", "wake"}]

DeviceInit ==
    /\ Init
    /\ bridge = [push |-> "none", offset |-> 0, ring |-> <<>>, closed |-> FALSE,
                 waker |-> FALSE, woken |-> FALSE, callback |-> "idle", failure |-> "none"]

\* No poll is under way.
BetweenPolls == bridge.push \in {"none", "poll", "parked"}

\* play is called for a chunk the pump begins with, and its future dropped, or done, when
\* the pump leaves it.  A frame stashed in the race polls both of its sides again.
PlayFollows ==
    bridge' = [bridge EXCEPT !.push = IF pump'.pc = "playing" THEN "poll" ELSE "none",
                             !.offset = IF pump'.chunk = pump.chunk /\ pump'.pc = "playing"
                                        THEN @ ELSE 0]

PumpSteps == BetweenPolls /\ Pumping /\ PlayFollows

(***************************************************************************)
(* PlaybackRing::poll_push.                                                *)
(***************************************************************************)
\* The race gives the push its turn, and the stream has not failed.
PollPush ==
    /\ Pushing
    /\ bridge.push = "poll" \/ (bridge.push = "parked" /\ bridge.woken)
    /\ ~bridge.closed
    /\ bridge' = [bridge EXCEPT !.push = "first", !.woken = FALSE]
    /\ UNCHANGED <<output, pump>>

\* play returns Closed, and the pump ends.
PushFails ==
    /\ bridge.closed
    /\ \/ Pushing /\ (bridge.push = "poll" \/ (bridge.push = "parked" /\ bridge.woken))
       \/ bridge.push = "look"
    /\ Leave
    /\ bridge' = [bridge EXCEPT !.push = "none", !.woken = FALSE]

\* push_available, a sample at a time; with the last one play is done.
PushSample ==
    /\ bridge.push \in {"first", "again"}
    /\ Len(bridge.ring) < RingSize
    /\ LET done == bridge.offset + 1 = ChunkSize
       IN  /\ bridge' = [bridge EXCEPT !.ring = Append(@, pump.chunk),
                                       !.offset = IF done THEN 0 ELSE @ + 1,
                                       !.push = IF done THEN "none" ELSE @]
           /\ pump' = IF done THEN [pump EXCEPT !.pc = "recv", !.taken = <<>>] ELSE pump
    /\ UNCHANGED output

RingFull ==
    /\ bridge.push \in {"first", "again"}
    /\ Len(bridge.ring) = RingSize
    /\ bridge' = [bridge EXCEPT !.push = IF @ = "first" THEN "register" ELSE "look"]
    /\ UNCHANGED <<output, pump>>

\* Mutant: with the waker armed the push is not tried again.
RegisterOnly ==
    /\ bridge.push = "register"
    /\ bridge' = [bridge EXCEPT !.waker = TRUE, !.push = "look"]
    /\ UNCHANGED <<output, pump>>

Register ==
    /\ bridge.push = "register"
    /\ bridge' = [bridge EXCEPT !.waker = TRUE, !.push = "again"]
    /\ UNCHANGED <<output, pump>>

Park ==
    /\ bridge.push = "look" /\ ~bridge.closed
    /\ bridge' = [bridge EXCEPT !.push = "parked"]
    /\ UNCHANGED <<output, pump>>

Polling == PollPush \/ PushFails \/ PushSample \/ RingFull \/ Register \/ Park

(***************************************************************************)
(* The device's threads.                                                   *)
(***************************************************************************)
\* Mutant: the ring is left to drain when a discard is asked for.
CallbackIgnoringDiscard ==
    /\ bridge.callback = "idle"
    /\ bridge' = [bridge EXCEPT !.callback = "play"]
    /\ pump' = [pump EXCEPT !.discard = FALSE]
    /\ UNCHANGED output

\* take_discard
Callback ==
    /\ bridge.callback = "idle"
    /\ bridge' = [bridge EXCEPT !.callback = IF pump.discard THEN "discard" ELSE "play"]
    /\ pump' = [pump EXCEPT !.discard = FALSE]
    /\ UNCHANGED output

DiscardRing ==
    /\ bridge.callback = "discard"
    /\ bridge' = [bridge EXCEPT !.callback = "play", !.ring = <<>>]
    /\ UNCHANGED <<output, pump>>

\* The device asks for one sample at a time: silence if there is none.
PlaySample ==
    /\ bridge.callback = "play"
    /\ bridge' = [bridge EXCEPT !.callback = "wake",
                                !.ring = IF @ = <<>> THEN @ ELSE Tail(@)]
    /\ UNCHANGED <<output, pump>>

Woken == [bridge EXCEPT !.woken = bridge.woken \/ bridge.waker, !.waker = FALSE]

CallbackWakes ==
    /\ bridge.callback = "wake"
    /\ bridge' = [Woken EXCEPT !.callback = "idle"]
    /\ UNCHANGED <<output, pump>>

\* Signal::fail: the flag, then the wake.
DeviceFails ==
    /\ ~bridge.closed
    /\ bridge' = [bridge EXCEPT !.closed = TRUE, !.failure = "wake"]
    /\ UNCHANGED <<output, pump>>

FailureWakes ==
    /\ bridge.failure = "wake"
    /\ bridge' = [Woken EXCEPT !.failure = "none"]
    /\ UNCHANGED <<output, pump>>

TailSteps == BetweenPolls /\ (TailSends \/ TailReturns) /\ UNCHANGED bridge

DeviceNext == PumpSteps \/ Polling \/ TailSteps
                \/ Callback \/ DiscardRing \/ PlaySample \/ CallbackWakes
                \/ DeviceFails \/ FailureWakes

(***************************************************************************)
(* Properties.                                                             *)
(***************************************************************************)
\* What OutputPump takes the device for: the chunks of which the ring holds a sample, and a
\* discard until the ring is empty.
Shown == [pump EXCEPT !.ring = Frames(bridge.ring),
                      !.discard = @ \/ bridge.callback = "discard"]

Abstract == INSTANCE OutputPump WITH pump <- Shown

\* The ring, its wakers and the callbacks do to the pump what OutputPump says: what it
\* promises (NothingStaleAudible) holds of the samples in the ring.
ImplementsPump == Abstract!Spec

\* A poll under way was begun when it was the push's turn, and still is.
MidPoll == ~BetweenPolls => Pushing

\* The samples in the ring are in the order of their chunks, the one that play was called with
\* last at the end.
NoLater(f, g) == f.seq <= g.seq /\ (f.seq = g.seq => f = g)

RingInOrder ==
    /\ \A i, j \in 1..Len(bridge.ring) : i <= j => NoLater(bridge.ring[i], bridge.ring[j])
    /\ \A chunk \in Frames(bridge.ring) : NoLater(chunk, pump.chunk)

\* Once an Interrupt is applied, no sample of what was sent before it is left in the ring
\* behind the callback that discards, nor pushed after.
NothingStaleInRing ==
    /\ TypeOK /\ bridge \in BridgeType
    /\ MidPoll /\ RingInOrder
    /\ Abstract!PumpInv

\* No wakeup is lost: a push that is parked while there is room, or after the stream has
\* failed, goes on, with no help of a further callback (bridge.rs 216).
ParkedResumes ==
    (bridge.push = "parked" /\ (bridge.closed \/ Len(bridge.ring) < RingSize))
      ~> bridge.push /= "parked"
=============================================================================
