------------------------------- MODULE VadGate -------------------------------
(***************************************************************************)
(* Voice activity (pipecrab-vad): VadStage, the gate that passes an        *)
(* utterance's audio on between its two edges, over Debounced, the         *)
(* detector that turns a scorer's verdicts into edges.                     *)
(*                                                                         *)
(* The stage is driven by the run loop of RunLoop.  Here that loop is its  *)
(* effect on the stage: one chunk at a time is given to perform, and an    *)
(* Interrupt drops perform at whatever await it has reached.  Chunks are   *)
(* numbered, have a length, and all the one format, in which a sample      *)
(* lasts one unit of time; a chunk of another format ends the stage.       *)
(***************************************************************************)
EXTENDS Naturals, Sequences

CONSTANTS
  Lengths,       \* the lengths chunks come in
  WindowLen,     \* SpeechScorer::window_len
  StartWindows,  \* DebounceConfig
  StopWindows,
  Preroll,       \* GateConfig.preroll
  MaxChunks      \* bound: how many chunks are captured

ASSUME ConfigAssumption ==
    /\ Lengths \subseteq Nat
    /\ WindowLen \in Nat \ {0}
    /\ StartWindows \in Nat /\ StopWindows \in Nat
    /\ Preroll \in Nat
    /\ MaxChunks \in Nat

VARIABLES
  det,      \* DebouncedState: the length of the remainder, the edge detector
  gate,     \* Gate: the mode and the pre-roll ring
  perform,  \* where perform is, and its locals
  stream    \* history, see below
vars == <<det, gate, perform, stream>>

Chunk == [seq : Nat, len : Lengths]
Events == {"started", "stopped"}
Frame == [kind : Events] \cup [kind : {"audio"}, chunk : Chunk]
Audio(chunk) == [kind |-> "audio", chunk |-> chunk]
Edge(event) == [kind |-> event]

IdleDet == [remainder |-> 0, inSpeech |-> FALSE, against |-> 0]
IdleGate == [mode |-> "idle", ring |-> <<>>]
NoPerform == [pc |-> "idle", chunk |-> [seq |-> 0, len |-> 0],
              windows |-> 0, events |-> <<>>, plan |-> <<>>]

(***************************************************************************)
(* stream: captured is the lengths of the chunks so far, cut how many of   *)
(* them were captured before the last Interrupt, edges are the events      *)
(* process has returned since then and sent the frames sent, failed says   *)
(* that the scorer has failed since then.                                  *)
(***************************************************************************)
NewStream(captured) ==
    [captured |-> captured, cut |-> Len(captured), edges |-> <<>>, sent |-> <<>>,
     failed |-> FALSE]

Init ==
    /\ det = IdleDet
    /\ gate = IdleGate
    /\ perform = NoPerform
    /\ stream = NewStream(<<>>)

-----------------------------------------------------------------------------
\* ObserveState::observe: the state after a window's verdict.  It flips once
\* enough windows in a row disagree with it.
Observe(d, isSpeech) ==
    LET needed == IF d.inSpeech THEN StopWindows ELSE StartWindows
    IN  CASE isSpeech = d.inSpeech -> [d EXCEPT !.against = 0]
          [] isSpeech /= d.inSpeech /\ d.against + 1 < needed -> [d EXCEPT !.against = @ + 1]
          [] OTHER -> [d EXCEPT !.inSpeech = isSpeech, !.against = 0]

\* The edge of a flip.
Flip(d, e) ==
    IF d.inSpeech = e.inSpeech THEN <<>>
    ELSE <<IF e.inSpeech THEN "started" ELSE "stopped">>

\* PrerollRing::total.
Duration(chunks) ==
    LET total[n \in 0..Len(chunks)] ==
          IF n = 0 THEN 0 ELSE total[n - 1] + chunks[n].len
    IN  total[Len(chunks)]

\* PrerollRing::push: the oldest whole chunks go until the rest fits the budget; the
\* one just pushed always stays.
Pushed(ring, chunk) ==
    LET all == Append(ring, chunk)
        fits(k) == k = Len(all) \/ Duration(SubSeq(all, k, Len(all))) <= Preroll
    IN  SubSeq(all, CHOOSE k \in 1..Len(all) : fits(k) /\ \A j \in 1..k-1 : ~fits(j), Len(all))

\* The gate's mode after an event.
ModeAfter(mode, event) == IF event = "started" THEN "speech" ELSE "idle"

\* Mutant: the edge that ends an utterance before its last chunk.
PlanStoppingEarly(p, event) ==
    IF event = "started"
    THEN [mode |-> ModeAfter(p.mode, event), ring |-> <<>>, sentChunk |-> TRUE,
          chunk |-> p.chunk,
          plan |-> p.plan \o <<Edge(event)>>
                     \o [i \in 1..Len(p.ring) |-> Audio(p.ring[i])] \o <<Audio(p.chunk)>>]
    ELSE [p EXCEPT !.mode = ModeAfter(@, event), !.sentChunk = TRUE,
                   !.plan = @ \o <<Edge(event)>>
                              \o (IF p.sentChunk THEN <<>> ELSE <<Audio(p.chunk)>>)]

\* One event's part of the send plan.  An onset takes the ring with it; the tail chunk
\* goes before the edge that closes its utterance, unless it opened one in this batch.
\* (The debug assertions on the mode are not compiled in.)
PlanEvent(p, event) ==
    IF event = "started"
    THEN [mode |-> ModeAfter(p.mode, event), ring |-> <<>>, sentChunk |-> TRUE,
          chunk |-> p.chunk,
          plan |-> p.plan \o <<Edge(event)>>
                     \o [i \in 1..Len(p.ring) |-> Audio(p.ring[i])] \o <<Audio(p.chunk)>>]
    ELSE [p EXCEPT !.mode = ModeAfter(@, event), !.sentChunk = TRUE,
                   !.plan = @ \o (IF p.sentChunk THEN <<>> ELSE <<Audio(p.chunk)>>)
                              \o <<Edge(event)>>]

\* The plan of a batch of events, one after the other.
Unplanned(chunk) == [mode |-> gate.mode, ring |-> gate.ring, sentChunk |-> FALSE,
                     chunk |-> chunk, plan |-> <<>>]
PlanOf(events, chunk) ==
    LET after[n \in 0..Len(events)] ==
          IF n = 0 THEN Unplanned(chunk) ELSE PlanEvent(after[n - 1], events[n])
    IN  after[Len(events)]

-----------------------------------------------------------------------------
\* A conforming chunk: process adds it to the remainder and takes out every whole
\* window.
Detect ==
    /\ perform.pc = "idle"
    /\ Len(stream.captured) < MaxChunks
    /\ \E len \in Lengths :
         LET samples == det.remainder + len
         IN  /\ det' = [det EXCEPT !.remainder = samples % WindowLen]
             /\ perform' = [NoPerform EXCEPT !.pc = "scoring",
                              !.chunk = [seq |-> Len(stream.captured) + 1, len |-> len],
                              !.windows = samples \div WindowLen]
             /\ stream' = [stream EXCEPT !.captured = Append(@, len)]
    /\ UNCHANGED gate

\* A window's verdict, and the edge it may bring about.
Score ==
    /\ perform.pc = "scoring"
    /\ perform.windows > 0
    /\ \E isSpeech \in BOOLEAN :
         /\ det' = Observe(det, isSpeech)
         /\ perform' = [perform EXCEPT !.windows = @ - 1, !.events = @ \o Flip(det, det')]
    /\ UNCHANGED <<gate, stream>>

\* score fails: process returns the error, without the events it has collected.
ScoreFails ==
    /\ perform.pc = "scoring"
    /\ perform.windows > 0
    /\ perform' = NoPerform
    /\ stream' = [stream EXCEPT !.failed = TRUE]
    /\ UNCHANGED <<det, gate>>

\* process returns, and the gate is updated in one critical section.
Commit ==
    /\ perform.pc = "scoring"
    /\ perform.windows = 0
    /\ stream' = [stream EXCEPT !.edges = @ \o perform.events]
    /\ LET chunk == perform.chunk
           p == PlanOf(perform.events, chunk)
       IN  \/ /\ perform.events /= <<>>
              /\ gate' = [mode |-> p.mode, ring |-> p.ring]
              /\ perform' = [perform EXCEPT !.pc = "sending", !.plan = p.plan]
           \/ /\ perform.events = <<>> /\ gate.mode = "speech"
              /\ gate' = gate
              /\ perform' = [perform EXCEPT !.pc = "sending", !.plan = <<Audio(chunk)>>]
           \/ /\ perform.events = <<>> /\ gate.mode = "idle"
              /\ gate' = [gate EXCEPT !.ring = Pushed(@, chunk)]
              /\ perform' = NoPerform
    /\ UNCHANGED det

\* The plan's next frame is sent.
Send ==
    /\ perform.pc = "sending"
    /\ stream' = [stream EXCEPT !.sent = Append(@, Head(perform.plan))]
    /\ perform' = IF Len(perform.plan) = 1 THEN NoPerform
                  ELSE [perform EXCEPT !.plan = Tail(@)]
    /\ UNCHANGED <<det, gate>>

\* Mutant: the gate is reset and the detector is not.
InterruptKeepingDetector ==
    /\ perform.pc /= "ended"
    /\ perform' = NoPerform
    /\ gate' = IdleGate
    /\ det' = det
    /\ stream' = NewStream(stream.captured)

\* An Interrupt: perform is dropped where it is, then decide_system resets the gate
\* and the detector.
Interrupt ==
    /\ perform.pc /= "ended"
    /\ perform' = NoPerform
    /\ gate' = IdleGate
    /\ det' = IdleDet
    /\ stream' = NewStream(stream.captured)

\* A chunk of another format is a fatal error.
RejectFormat ==
    /\ perform.pc = "idle"
    /\ Len(stream.captured) < MaxChunks
    /\ perform' = [NoPerform EXCEPT !.pc = "ended"]
    /\ UNCHANGED <<det, gate, stream>>

Next ==
    \/ Detect \/ Score \/ ScoreFails \/ Commit \/ Send
    \/ Interrupt \/ RejectFormat

Spec == Init /\ [][Next]_vars

-----------------------------------------------------------------------------
(***************************************************************************)
(* Properties.                                                             *)
(***************************************************************************)

\* The detector's, the gate's and perform's state have their types.
TypeOK ==
    /\ det \in [remainder : 0..WindowLen - 1, inSpeech : BOOLEAN, against : Nat]
    /\ gate \in [mode : {"idle", "speech"}, ring : Seq(Chunk)]
    /\ perform \in [pc : {"idle", "scoring", "sending", "ended"},
                    chunk : [seq : Nat, len : Nat], windows : Nat,
                    events : Seq(Events), plan : Seq(Frame)]
    /\ stream \in [captured : Seq(Lengths), cut : Nat, edges : Seq(Events),
                   sent : Seq(Frame), failed : BOOLEAN]

\* A sequence of edges, the first of which finds the speech state so, in which each
\* undoes the one before, and the state it leaves.
Alternate(events, inSpeech) ==
    \A i \in 1..Len(events) :
      events[i] = IF (i % 2 = 1) = inSpeech THEN "stopped" ELSE "started"
Toggled(inSpeech, events) == (Len(events) % 2 = 1) # inSpeech

\* The edge contract (pipecrab-vad, lib.rs, "Across the lifetime of a
\* VoiceActivityDetector, events alternate"): an onset first, and no edge is lost.
EdgesAlternate == Alternate(stream.edges, FALSE)

\* Debounced keeps the contract as long as its scorer does not fail, whatever windows
\* the chunks make and wherever an Interrupt drops process.
AlternateUnlessFailed == ~stream.failed => EdgesAlternate

InSpeech == gate.mode = "speech"

\* What makes it so: the edges handed to the gate so far leave it in its mode, and the
\* detector is ahead of it by the edges process has in hand.
DetectorAhead ==
    ~stream.failed =>
      /\ InSpeech = Toggled(FALSE, stream.edges)
      /\ perform.pc = "scoring" =>
           /\ Alternate(perform.events, InSpeech)
           /\ det.inSpeech = Toggled(InSpeech, perform.events)

\* Between two performs the gate is open exactly while the detector hears speech.
GateFollowsDetector ==
    ~stream.failed /\ perform.pc # "scoring" => (InSpeech <=> det.inSpeech)

\* What has been sent and what the plan still holds.
Output == stream.sent \o perform.plan

\* A sequence of utterances, the last one perhaps still open: each opened by its onset,
\* closed after its last chunk, with all its chunks between, without a gap, an overlap
\* or a reordering.
Utterances(frames) ==
    \A i \in 1..Len(frames) :
      LET this   == frames[i]
          opened == i > 1 /\ frames[i - 1].kind /= "stopped"
      IN  /\ this.kind = "started" => ~opened
          /\ this.kind = "stopped" => opened /\ frames[i - 1].kind = "audio"
          /\ this.kind = "audio" =>
               /\ opened
               /\ frames[i - 1].kind = "audio" =>
                    this.chunk.seq = frames[i - 1].chunk.seq + 1

\* The gate's own contract: whatever is sent, up to any point an Interrupt may cut
\* it off at, is a sequence of whole utterances, whichever of ring, batch and live path
\* each chunk took.
Bracketed == ~stream.failed => Utterances(Output)

\* Nothing captured before an Interrupt gets into an utterance after it, through the
\* ring, the remainder's edges or a plan not yet sent.
NothingResurrected ==
    /\ \A i \in 1..Len(Output) :
         Output[i].kind = "audio" => Output[i].chunk.seq > stream.cut
    /\ \A i \in 1..Len(gate.ring) : gate.ring[i].seq > stream.cut

\* The last chunk the gate has been given; one being scored is not yet.
Latest == IF perform.pc = "scoring" THEN Len(stream.captured) - 1 ELSE Len(stream.captured)

Carries(frame, seq) == frame.kind = "audio" /\ frame.chunk.seq = seq

\* The gate's mode is where the output ends: within an utterance, at the latest chunk, or
\* between two.  The last chunk is in the ring, has gone out or is older than the Interrupt.
GateIsWhereOutputEnds ==
    /\ InSpeech => gate.ring = <<>>
    /\ ~stream.failed =>
         IF InSpeech THEN Output /= <<>> /\ Carries(Output[Len(Output)], Latest)
         ELSE /\ Output /= <<>> => Output[Len(Output)].kind = "stopped"
              /\ gate.ring = <<>> => \/ Latest = stream.cut
                                     \/ \E i \in 1..Len(Output) : Carries(Output[i], Latest)
              /\ gate.ring /= <<>> => /\ gate.ring[Len(gate.ring)].seq = Latest
                                      /\ perform.pc # "sending"

\* The ring's chunks are chunks captured since the Interrupt, and so is the one in hand.
ChunksAreCaptured ==
    /\ stream.cut <= Latest
    /\ \A i \in 1..Len(gate.ring) :
         /\ gate.ring[i].seq \in 1..Latest
         /\ gate.ring[i].len = stream.captured[gate.ring[i].seq]
    /\ perform.pc = "scoring" =>
         perform.chunk = [seq |-> Len(stream.captured),
                          len |-> stream.captured[Len(stream.captured)]]
    /\ perform.plan = <<>> <=> perform.pc # "sending"

\* The onset is not clipped: the ring is made of consecutive chunks within the budget,
\* and the chunk before its first was captured before the Interrupt, went out with the
\* last utterance, or does not fit the budget any more (or a failure skipped it).
RingFull ==
    gate.ring /= <<>> =>
      LET before == gate.ring[1].seq - 1
      IN  /\ Len(gate.ring) > 1 => Duration(gate.ring) <= Preroll
          /\ ~stream.failed =>
               \A i \in 1..Len(gate.ring) - 1 : gate.ring[i + 1].seq = gate.ring[i].seq + 1
          /\ \/ before = stream.cut \/ stream.failed
             \/ \E i \in 1..Len(stream.sent) : Carries(stream.sent[i], before)
             \/ Duration(gate.ring) + stream.captured[before] > Preroll

\* Every utterance is whole, and none is made of what an Interrupt has abandoned.
UtterancesAreWhole == Bracketed /\ NothingResurrected

\* The state between the frames: the detector's contract, the gate at its side, the onset
\* held in the ring.
GateInv ==
    /\ TypeOK /\ AlternateUnlessFailed /\ DetectorAhead /\ GateFollowsDetector
    /\ ChunksAreCaptured /\ GateIsWhereOutputEnds /\ RingFull

\* Both, of the state between the frames and of what is sent.
GateIsSound == GateInv /\ UtterancesAreWhole
=============================================================================
