----------------------------- MODULE OutputPump -----------------------------
(***************************************************************************)
(* The application's end of the pipeline: pump_out of the e2e-voice-agent  *)
(* example, which plays the audio that leaves the tail and is preemptible  *)
(* while it does (play_racing_sys, apply_system).  Nothing flushes the     *)
(* tail link for it: it reacts to the forwarded Interrupt itself.          *)
(*                                                                         *)
(* The driver and both pumps are joined in one block_on, so what the pump  *)
(* does between two of its awaits is one step, the flush included.         *)
(***************************************************************************)
EXTENDS Link

CONSTANTS
  SentData,    \* the kinds of data frames the tail stage sends
  SentSystem,  \* the kinds of system frames it sends
  MaxSent      \* bound: how many frames it sends

ASSUME TailAssumption == SentData \subseteq DataKinds /\ SentSystem \subseteq SysKinds /\ MaxSent \in Nat

VARIABLES output, pump
vars == <<output, pump>>

NoChunk == [seq |-> 0, kind |-> "media", ep |-> 0]

(***************************************************************************)
(* pending, taken and sysOpen are the locals of that name, floor is        *)
(* Inbound.flush_floor, chunk the last chunk play was called with.  ring   *)
(* and discard are the device's (pipecrab-audio-cpal): the chunks of which *)
(* its ring holds something, and Signal.discard.  cut and heard are        *)
(* history: stamp and epoch of the last Interrupt applied.                 *)
(***************************************************************************)
PumpType == [pc : {"recv", "playing", "done"}, pending : Seq(DataFrame),
             taken : Seq(SysFrame), chunk : DataFrame \cup {NoChunk}, sysOpen : BOOLEAN,
             floor : Nat, ring : SUBSET DataFrame, discard : BOOLEAN, cut : Nat, heard : Nat]

NewPump == [pc |-> "recv", pending |-> <<>>, taken |-> <<>>, chunk |-> NoChunk,
            sysOpen |-> TRUE, floor |-> 0, ring |-> {}, discard |-> FALSE,
            cut |-> 0, heard |-> 0]

Init == output = NewLink /\ pump = NewPump

-----------------------------------------------------------------------------
\* Mutant: the device's ring is left to drain.
ApplyKeepingRing(frame, l) ==
    IF frame.kind = "interrupt"
    THEN /\ pump' = [l EXCEPT
                       !.pending = Durables(@) \o FlushedData(output.data, l.floor),
                       !.cut = frame.seq, !.heard = frame.ep]
         /\ output' = [PopSys(output) EXCEPT !.data = <<>>]
    ELSE pump' = l /\ output' = PopSys(output)

\* apply_system of the frame at the head of the system lane: an Interrupt asks the
\* sink to discard its ring, drops the droppable keepers whatever their stamps (the pump holds none)
\* and flushes the tail link.
ApplySystem(frame, l) ==
    IF frame.kind = "interrupt"
    THEN /\ pump' = [l EXCEPT
                       !.discard = TRUE,
                       !.pending = Durables(@) \o FlushedData(output.data, l.floor),
                       !.cut = frame.seq, !.heard = frame.ep]
         /\ output' = [PopSys(output) EXCEPT !.data = <<>>]
    ELSE pump' = l /\ output' = PopSys(output)

\* A data frame: audio is played, everything else at most printed.
Begin(frame, l) ==
    pump' = IF frame.kind = "media" THEN [l EXCEPT !.pc = "playing", !.chunk = frame] ELSE l

\* Keepers first, without a look at the system lane.
TakePending ==
    /\ pump.pc = "recv"
    /\ pump.pending /= <<>>
    /\ Begin(Head(pump.pending), [pump EXCEPT !.pending = Tail(@)])
    /\ UNCHANGED output

TakeSystem ==
    /\ pump.pc = "recv"
    /\ pump.pending = <<>>
    /\ output.sys /= <<>>
    /\ LET frame == Head(output.sys)
       IN  ApplySystem(frame, [pump EXCEPT !.floor = frame.seq])

TakeData ==
    /\ pump.pc = "recv"
    /\ pump.pending = <<>>
    /\ output.sys = <<>>
    /\ output.data /= <<>>
    /\ Begin(Head(output.data), pump)
    /\ output' = PopData(output)

-----------------------------------------------------------------------------
(***************************************************************************)
(* play_racing_sys.  The system lane is polled first while it is open.     *)
(***************************************************************************)
\* Mutant: an Interrupt waits until the push is through, like the other frames.
RaceDeferringInterrupt ==
    /\ pump.pc = "playing"
    /\ pump.sysOpen
    /\ output.sys /= <<>>
    /\ Head(output.sys).kind /= "interrupt"
    /\ LET frame == Head(output.sys)
       IN  /\ pump' = [pump EXCEPT !.floor = frame.seq, !.taken = Append(@, frame)]
           /\ output' = PopSys(output)

\* An Interrupt drops the push, and is applied after the frames taken before it,
\* which apply_system only prints.  Any other frame waits for the push to end.
RaceTakesSystem ==
    /\ pump.pc = "playing"
    /\ pump.sysOpen
    /\ output.sys /= <<>>
    /\ LET frame == Head(output.sys)
       IN  \/ /\ frame.kind = "interrupt"
              /\ ApplySystem(frame, [pump EXCEPT !.pc = "recv", !.taken = <<>>,
                                                 !.floor = frame.seq])
           \/ /\ frame.kind /= "interrupt"
              /\ pump' = [pump EXCEPT !.floor = frame.seq, !.taken = Append(@, frame)]
              /\ output' = PopSys(output)

RaceSeesClose ==
    /\ pump.pc = "playing"
    /\ pump.sysOpen
    /\ output.sys = <<>> /\ ~output.tx
    /\ pump' = [pump EXCEPT !.sysOpen = FALSE]
    /\ UNCHANGED output

\* The push gets its turn.
Pushing ==
    /\ pump.pc = "playing"
    /\ pump.sysOpen => output.sys = <<>> /\ output.tx

\* Part of the chunk is in the ring.
Push ==
    /\ Pushing
    /\ pump' = [pump EXCEPT !.ring = @ \cup {pump.chunk}]
    /\ UNCHANGED output

PlayDone ==
    /\ Pushing
    /\ pump' = [pump EXCEPT !.pc = "recv", !.taken = <<>>, !.ring = @ \cup {pump.chunk}]
    /\ UNCHANGED output

\* The pump ends: on a device error, or when recv returns None.
Leave ==
    /\ pump' = [pump EXCEPT !.pc = "done", !.taken = <<>>, !.pending = <<>>]
    /\ output' = DropInbound(output)

PlayFails == Pushing /\ Leave

Finish ==
    /\ pump.pc = "recv"
    /\ pump.pending = <<>>
    /\ Drained(output)
    /\ Leave

\* The device's output callback: a discard that is asked for empties the ring, whatever
\* has been pushed meanwhile; a request made while it does is left for the next callback.
DeviceDiscards ==
    /\ pump.discard
    /\ \E again \in BOOLEAN : pump' = [pump EXCEPT !.discard = again, !.ring = {}]
    /\ UNCHANGED output

\* The oldest in the ring is heard, by a callback that looked before a discard was asked for
\* too.
DevicePlays ==
    /\ \E chunk \in pump.ring :
         /\ \A other \in pump.ring : chunk.seq <= other.seq
         /\ pump' = [pump EXCEPT !.ring = @ \ {chunk}]
    /\ UNCHANGED output

Pumping == TakePending \/ TakeSystem \/ TakeData \/ RaceTakesSystem \/ RaceSeesClose \/ Finish
Device == Push \/ PlayDone \/ PlayFails \/ DeviceDiscards \/ DevicePlays

PumpNext == Pumping \/ Device

-----------------------------------------------------------------------------
(***************************************************************************)
(* The tail stage.                                                         *)
(***************************************************************************)
TailSends ==
    /\ output.tx
    /\ output.next <= MaxSent
    /\ \/ \E kind \in SentData : output' = SendData(output, kind, output.ep)
       \/ \E kind \in SentSystem :
            output' = SendSystem(output, kind,
                                 IF kind = "interrupt" THEN output.ep + 1 ELSE output.ep)
    /\ UNCHANGED pump

TailReturns ==
    /\ output.tx
    /\ output' = DropOutbound(output)
    /\ UNCHANGED pump

Next == PumpNext \/ TailSends \/ TailReturns

Spec == Init /\ [][Next]_vars

\* The pump is polled when it can go on.  A push may never end.
SpecHanging == Spec /\ WF_vars(Pumping)

-----------------------------------------------------------------------------
(***************************************************************************)
(* Properties.                                                             *)
(***************************************************************************)
TypeOK == output \in LinkType /\ pump \in PumpType

\* What the pump holds, then the queue: all of it is after the chunk it played last, in
\* order, and the pump holds no system frame but those a push in progress has taken.
Ordered ==
    /\ Ascending(pump.pending) /\ Ascending(output.data) /\ Precede(pump.pending, output.data)
    /\ Ascending(output.sys)
    /\ \A f \in Frames(pump.pending) \cup Frames(output.data) :
         pump.chunk.seq < f.seq /\ f.seq < output.next
    /\ \A f \in Frames(output.sys) : pump.cut < f.seq /\ f.seq < output.next
    /\ pump.chunk.seq < output.next /\ pump.cut < output.next
    /\ pump.pc /= "playing" => pump.taken = <<>>

\* Once an Interrupt is applied nothing sent before it is heard any more: neither
\* what the ring held, which the device's next callback discards, nor a keeper, nor a
\* push the Interrupt dropped half-way.
NothingStaleAudible ==
    /\ ~pump.discard => \A chunk \in pump.ring : chunk.seq >= pump.cut
    /\ pump.pc = "playing" => pump.chunk.seq >= pump.cut

\* No droppable frame from before the last Interrupt applied is held or queued either.
NothingStaleHeld ==
    \A f \in Frames(pump.pending) \cup Frames(output.data) : Kept(f, pump.cut)

\* Interrupts on the tail link.
Interrupts == {g \in Frames(output.sys) : g.kind = "interrupt"}

\* What is behind an Interrupt on the tail link was caused after it, and nothing is heard that
\* was caused before the last Interrupt applied, as long as the tail sends in that order.
CausesInOrder ==
    /\ \A g \in Interrupts :
         /\ pump.heard <= g.ep /\ g.ep <= output.ep
         /\ \A f \in Frames(pump.pending) \cup Frames(output.data) \cup Interrupts :
              g.seq <= f.seq => g.ep <= f.ep
    /\ pump.heard <= output.ep
    /\ \A f \in Frames(pump.pending) \cup Frames(output.data) :
         pump.cut <= f.seq => pump.heard <= f.ep
    /\ pump.pc = "playing" => pump.heard <= pump.chunk.ep
    /\ ~pump.discard => \A chunk \in pump.ring : pump.heard <= chunk.ep

\* However long a chunk takes to play, an Interrupt that reaches the tail link is
\* applied, or the pump has ended.
InterruptApplied ==
    \A s \in 1..MaxSent :
      (\E i \in 1..Len(output.sys) : output.sys[i].seq = s /\ output.sys[i].kind = "interrupt")
        ~> (pump.cut >= s \/ pump.pc = "done")

\* The inductive invariant.
PumpInv == TypeOK /\ Ordered /\ NothingStaleAudible /\ NothingStaleHeld /\ CausesInOrder
=============================================================================
