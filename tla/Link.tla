-------------------------------- MODULE Link --------------------------------
(***************************************************************************)
(* The link between two neighbours of a pipeline (pipecrab-runtime,        *)
(* link(), Outbound and Inbound): a system lane and a data lane, both      *)
(* bounded mpsc channels, whose frames carry stamps of ONE counter.  This  *)
(* module holds operators only; a link is a record                         *)
(*                                                                         *)
(*   sys, data : the two lanes, sequences of stamped frames, oldest first  *)
(*   next      : the stamp of the next send (Outbound.seq)                 *)
(*   tx, rx    : the Outbound, the Inbound still exists                    *)
(*   ep        : history: the epoch of the last Interrupt sent here        *)
(*                                                                         *)
(* A frame is a record [seq, kind, ep].  Payloads are abstracted to what   *)
(* the runtime tells apart; ep is history: the number of the Interrupt the *)
(* frame's cause came after.                                               *)
(***************************************************************************)
EXTENDS Naturals, Sequences

\* SystemFrame: Start and Error (of either Direction) are told apart by no
\* branch of the runtime.
SysKinds == {"interrupt", "stop", "other"}

\* DataFrame: the SpeechStarted edge, every other droppable frame, and the
\* durable ones, Model(Input), Model(ToolCall) and Dispatch.
DataKinds == {"edge", "media", "durable"}

SysFrame == [seq : Nat, kind : SysKinds, ep : Nat]
DataFrame == [seq : Nat, kind : DataKinds, ep : Nat]

LinkType == [sys : Seq(SysFrame), data : Seq(DataFrame), next : Nat \ {0},
             tx : BOOLEAN, rx : BOOLEAN, ep : Nat]

\* link(): stamps start at 1, so that the fresh flush floor 0 predates all.
NewLink == [sys |-> <<>>, data |-> <<>>, next |-> 1,
            tx |-> TRUE, rx |-> TRUE, ep |-> 0]

\* DataFrame::survives_flush
SurvivesFlush(frame) == frame.kind = "durable"

\* Mutant: the flush before stamps were introduced, which kept durable frames only.
KeptIfDurable(frame, floor) == SurvivesFlush(frame)

\* What a flush against floor keeps (flush_data_stamped and the run loop's retain).
Kept(frame, floor) == frame.seq >= floor \/ SurvivesFlush(frame)

-----------------------------------------------------------------------------
(***************************************************************************)
(* Lanes: sequences of frames.                                             *)
(***************************************************************************)
Frames(lane) == {lane[i] : i \in 1..Len(lane)}

\* Stamps ascend along a lane, and all of one precede all of another.
Ascending(lane) == \A i, j \in 1..Len(lane) : i < j => lane[i].seq < lane[j].seq
Precede(lane, next) == \A f \in Frames(lane), g \in Frames(next) : f.seq < g.seq

\* What a loop over a lane leaves, in its order, when it drops every frame not in keep.
Retain(lane, keep) ==
    LET kept[n \in 0..Len(lane)] ==
          IF n = 0 THEN <<>>
          ELSE IF lane[n] \in keep THEN Append(kept[n - 1], lane[n]) ELSE kept[n - 1]
    IN  kept[Len(lane)]

\* Inbound::flush_data, and the retain of what an earlier one kept.
FlushedData(lane, floor) == Retain(lane, {f \in Frames(lane) : Kept(f, floor)})
Durables(lane) == Retain(lane, {f \in Frames(lane) : SurvivesFlush(f)})

-----------------------------------------------------------------------------
\* Outbound::send_data up to its first suspension: the frame is stamped and, the
\* channel's handle being a fresh clone, enqueued at once whatever the lane's
\* length.  A receiver that is gone makes the send an error every caller ignores.
SendData(l, kind, ep) ==
    LET frame == [seq |-> l.next, kind |-> kind, ep |-> ep]
    IN  [l EXCEPT !.next = @ + 1,
                  !.data = IF l.rx THEN Append(@, frame) ELSE @]

\* Outbound::send_system, likewise.
SendSystem(l, kind, ep) ==
    LET frame == [seq |-> l.next, kind |-> kind, ep |-> ep]
    IN  [l EXCEPT !.next = @ + 1,
                  !.sys = IF l.rx THEN Append(@, frame) ELSE @,
                  !.ep = IF kind = "interrupt" THEN ep ELSE @]

\* Mutant: unbounded channels.
FlushedAtOnce(l, lane, capacity) == TRUE

\* When a send that waits for its channel returns: once no more than capacity
\* frames are queued, or the receiver is gone.
Flushed(l, lane, capacity) ==
    CASE lane = "none" -> TRUE
      [] lane = "sys"  -> ~l.rx \/ Len(l.sys) <= capacity
      [] lane = "data" -> ~l.rx \/ Len(l.data) <= capacity

\* Taking the oldest frame of a lane.
PopSys(l)  == [l EXCEPT !.sys = Tail(@)]
PopData(l) == [l EXCEPT !.data = Tail(@)]

\* Inbound::recv's None: both lanes closed and drained.
Drained(l) == ~l.tx /\ l.sys = <<>> /\ l.data = <<>>

\* Dropping an Inbound discards what is queued; dropping an Outbound does not.
DropInbound(l)  == [l EXCEPT !.rx = FALSE, !.sys = <<>>, !.data = <<>>]
DropOutbound(l) == [l EXCEPT !.tx = FALSE]
=============================================================================
