------------------------------ MODULE RunLoop ------------------------------
(***************************************************************************)
(* Stage::run, the preemptible loop that drives one stage of a pipeline,   *)
(* between its inbound link and its outbound link (pipecrab-runtime,       *)
(* stage.rs, with the receive side of inbound.rs).                         *)
(*                                                                         *)
(* The stage itself is open: OnData and OnSystem give, for a frame's kind, *)
(* the decisions its Processor may take, so a property of this module      *)
(* holds of every stage.  A decision is [forward, effects]; performing an  *)
(* effect sends at most one frame ("io" sends none) and an effect that     *)
(* sends several is several of them.  Everything the loop does between two *)
(* suspension points is one action; the frames of its neighbours arrive    *)
(* and leave between actions.                                              *)
(***************************************************************************)
EXTENDS Link

CONSTANTS
  Capacity,   \* buffer depth of the outbound link's lanes
  OnData,     \* [DataKinds -> SUBSET Decision], Processor::decide_data
  OnSystem,   \* [SysKinds -> SUBSET Decision], Processor::decide_system
  Failures,   \* what perform may fail with: TRUE fatal, FALSE recoverable
  UpData,     \* the kinds of data frames the neighbour upstream sends
  UpSystem,   \* the kinds of system frames it sends
  MaxIn       \* bound: how many frames it sends

EffectKinds == DataKinds \cup {"interrupt", "other", "io"}
Decision == [forward : BOOLEAN, effects : Seq(EffectKinds)]

\* link() and PipelineBuilder::capacity clamp the depth to at least 1.
ASSUME CapacityAssumption == Capacity \in Nat \ {0}
ASSUME DecisionAssumption ==
    /\ OnData \in [DataKinds -> SUBSET Decision]
    /\ OnSystem \in [SysKinds -> SUBSET Decision]
ASSUME EnvironmentAssumption ==
    /\ Failures \subseteq BOOLEAN
    /\ UpData \subseteq DataKinds
    /\ UpSystem \subseteq SysKinds
    /\ MaxIn \in Nat

VARIABLES inb, out, loop
vars == <<inb, out, loop>>

NoFrame == [seq |-> 0, kind |-> "none", ep |-> 0]
InHand == [seq : Nat, kind : SysKinds \cup DataKinds \cup {"none"}, ep : Nat]

PCs == {"recv",     \* the head of the loop
        "forward",  \* awaiting send_data of a forwarded data frame
        "perform",  \* a data frame's effects, raced against the system lane
        "error",    \* emit_error after those effects failed
        "system",   \* inside handle_system: nothing is raced
        "flush",    \* after an Interrupt: retain, then flush_data_stamped
        "settle",   \* the deferred frames, then stop or go on
        "done"}     \* run has returned

(***************************************************************************)
(* The loop's locals.  pending, stash, intr and stop are the locals of the *)
(* same or nearly the same name, floor is Inbound.flush_floor, kept what a *)
(* flush in progress has kept; cur and effects are the frame in hand and   *)
(* the effects of its decision not yet begun, wait the lane whose send is  *)
(* being awaited.  cut, epoch and abandoned are history: the stamp of the  *)
(* last Interrupt handled, the epoch of the last one handled or sent, how  *)
(* many unfinished sends an Interrupt dropped.                             *)
(***************************************************************************)
LoopType == [pc : PCs, pending : Seq(DataFrame), kept : Seq(DataFrame),
             floor : Nat, cur : InHand,
             effects : Seq(EffectKinds), wait : {"none", "sys", "data"},
             stash : Seq(SysFrame), intr : SysFrame \cup {NoFrame},
             stop : BOOLEAN, cut : Nat, epoch : Nat, abandoned : Nat]

NewLoop == [pc |-> "recv", pending |-> <<>>, kept |-> <<>>, floor |-> 0,
            cur |-> NoFrame, effects |-> <<>>, wait |-> "none",
            stash |-> <<>>, intr |-> NoFrame, stop |-> FALSE,
            cut |-> 0, epoch |-> 0, abandoned |-> 0]

Init == inb = NewLink /\ out = NewLink /\ loop = NewLoop

Later(a, b) == IF a >= b THEN a ELSE b

Ready == Flushed(out, loop.wait, Capacity)

-----------------------------------------------------------------------------
(***************************************************************************)
(* What several branches share.  Each takes the loop's record as the       *)
(* branch has already changed it.                                          *)
(***************************************************************************)

\* handle_system up to its first suspension.
HandleSystem(frame, l) ==
    \E d \in OnSystem[frame.kind] :
      LET interrupt == frame.kind = "interrupt"
          epoch == IF interrupt THEN Later(l.epoch + 1, frame.ep) ELSE l.epoch
          cause == Later(frame.ep, epoch)
      IN  /\ loop' = [l EXCEPT
                !.pc = "system",
                !.cur = [frame EXCEPT !.ep = cause],
                !.effects = d.effects,
                !.wait = IF d.forward THEN "sys" ELSE "none",
                !.stop = @ \/ frame.kind = "stop",
                !.cut = IF interrupt THEN frame.seq ELSE @,
                !.epoch = epoch]
          /\ out' = IF d.forward THEN SendSystem(out, frame.kind, cause) ELSE out

\* The Data branch up to its first suspension.
HandleData(frame, l) ==
    \E d \in OnData[frame.kind] :
      LET cause == Later(frame.ep, l.epoch)
      IN  /\ loop' = [l EXCEPT
                !.pc = "forward",
                !.cur = [frame EXCEPT !.ep = cause],
                !.effects = d.effects,
                !.wait = IF d.forward THEN "data" ELSE "none"]
          /\ out' = IF d.forward THEN SendData(out, frame.kind, cause) ELSE out

\* Stage::perform of the next effect, up to the suspension in its send.
PerformNext ==
    LET effect == Head(loop.effects)
        l == [loop EXCEPT !.effects = Tail(@)]
        raised == Later(loop.epoch, loop.cur.ep) + 1
    IN  \/ /\ effect \in DataKinds
           /\ out' = SendData(out, effect, loop.cur.ep)
           /\ loop' = [l EXCEPT !.wait = "data"]
        \/ /\ effect = "other"
           /\ out' = SendSystem(out, effect, loop.cur.ep)
           /\ loop' = [l EXCEPT !.wait = "sys"]
        \/ /\ effect = "interrupt"
           /\ out' = SendSystem(out, effect, raised)
           /\ loop' = [l EXCEPT !.wait = "sys", !.cur.ep = raised, !.epoch = raised]
        \/ /\ effect = "io"
           /\ out' = out
           /\ loop' = [l EXCEPT !.wait = "none"]

\* emit_error up to its first suspension.
EmitError(l) ==
    /\ loop' = [l EXCEPT !.wait = "sys"]
    /\ out' = SendSystem(out, "other", loop.cur.ep)

\* Mutant: a clone of the Outbound outlives run.
ReturnKeepingOutbound ==
    /\ loop' = [loop EXCEPT !.pc = "done", !.pending = <<>>]
    /\ inb' = DropInbound(inb)
    /\ UNCHANGED out

\* run returns: its Inbound and its Outbound are dropped, and what it holds.
Return ==
    /\ loop' = [loop EXCEPT !.pc = "done", !.pending = <<>>]
    /\ inb' = DropInbound(inb)
    /\ out' = DropOutbound(out)

-----------------------------------------------------------------------------
(***************************************************************************)
(* The head of the loop.  recv polls the system lane first, and so does    *)
(* the replay of pending through try_recv_sys.                             *)
(***************************************************************************)
TakeSystem ==
    /\ loop.pc = "recv"
    /\ inb.sys /= <<>>
    /\ inb' = PopSys(inb)
    /\ LET frame == Head(inb.sys)
       IN  HandleSystem(frame, [loop EXCEPT !.floor = frame.seq])

TakePending ==
    /\ loop.pc = "recv"
    /\ inb.sys = <<>>
    /\ loop.pending /= <<>>
    /\ HandleData(Head(loop.pending), [loop EXCEPT !.pending = Tail(@)])
    /\ UNCHANGED inb

TakeData ==
    /\ loop.pc = "recv"
    /\ inb.sys = <<>>
    /\ loop.pending = <<>>
    /\ inb.data /= <<>>
    /\ inb' = PopData(inb)
    /\ HandleData(Head(inb.data), loop)

\* recv returns None.
Finish ==
    /\ loop.pc = "recv"
    /\ loop.pending = <<>>
    /\ Drained(inb)
    /\ Return

-----------------------------------------------------------------------------
(***************************************************************************)
(* A data frame: the forward is awaited outright, then the effects race    *)
(* the system lane, which select_biased polls first.                       *)
(***************************************************************************)
Forwarded ==
    /\ loop.pc = "forward"
    /\ Ready
    /\ loop' = [loop EXCEPT !.pc = IF loop.effects = <<>> THEN "recv" ELSE "perform",
                            !.wait = "none"]
    /\ UNCHANGED <<inb, out>>

Perform ==
    /\ loop.pc = "perform"
    /\ inb.sys = <<>>
    /\ Ready
    /\ loop.effects /= <<>>
    /\ PerformNext
    /\ UNCHANGED inb

PerformDone ==
    /\ loop.pc = "perform"
    /\ inb.sys = <<>>
    /\ Ready
    /\ loop.effects = <<>>
    /\ loop' = [loop EXCEPT !.pc = "settle", !.wait = "none"]
    /\ UNCHANGED <<inb, out>>

\* run_effects short-circuits on the first error.
PerformFails ==
    /\ loop.pc = "perform"
    /\ inb.sys = <<>>
    /\ Ready
    /\ \E fatal \in Failures :
         EmitError([loop EXCEPT !.pc = "error", !.effects = <<>>, !.stop = fatal])
    /\ UNCHANGED inb

ErrorSent ==
    /\ loop.pc = "error"
    /\ Ready
    /\ loop' = [loop EXCEPT !.pc = "settle", !.wait = "none"]
    /\ UNCHANGED <<inb, out>>

\* Mutant: the Interrupt passes on at once and perform keeps running.
PreemptKeepingPerform ==
    /\ loop.pc = "perform"
    /\ inb.sys /= <<>>
    /\ Head(inb.sys).kind = "interrupt"
    /\ inb' = PopSys(inb)
    /\ loop' = [loop EXCEPT !.epoch = @ + 1]
    /\ out' = SendSystem(out, "interrupt", loop.epoch + 1)

\* Mutant: an Interrupt is deferred like any other system frame.
PreemptDeferred ==
    /\ loop.pc = "perform"
    /\ inb.sys /= <<>>
    /\ Head(inb.sys).kind = "interrupt"
    /\ inb' = PopSys(inb)
    /\ loop' = [loop EXCEPT !.stash = Append(@, Head(inb.sys))]
    /\ UNCHANGED out

\* Barge-in: an Interrupt drops perform, with the send it may be waiting in.
\* The frame of that send is in the lane already, and stays there.
Preempt ==
    /\ loop.pc = "perform"
    /\ inb.sys /= <<>>
    /\ Head(inb.sys).kind = "interrupt"
    /\ inb' = PopSys(inb)
    /\ loop' = [loop EXCEPT !.pc = "settle", !.intr = Head(inb.sys),
                            !.effects = <<>>, !.wait = "none",
                            !.abandoned = IF Ready THEN @ ELSE @ + 1]
    /\ UNCHANGED out

\* Any other system frame is deferred until perform ends.
Stash ==
    /\ loop.pc = "perform"
    /\ inb.sys /= <<>>
    /\ Head(inb.sys).kind /= "interrupt"
    /\ inb' = PopSys(inb)
    /\ loop' = [loop EXCEPT !.stash = Append(@, Head(inb.sys))]
    /\ UNCHANGED out

-----------------------------------------------------------------------------
(***************************************************************************)
(* Inside handle_system: its send, then its effects, un-raced; an effect   *)
(* that fails is reported and the next one still performed.                *)
(***************************************************************************)
SystemPerform ==
    /\ loop.pc = "system"
    /\ Ready
    /\ loop.effects /= <<>>
    /\ PerformNext
    /\ UNCHANGED inb

SystemPerformFails ==
    /\ loop.pc = "system"
    /\ Ready
    /\ loop.effects /= <<>>
    /\ \E fatal \in Failures :
         EmitError([loop EXCEPT !.effects = Tail(@), !.stop = @ \/ fatal])
    /\ UNCHANGED inb

SystemHandled ==
    /\ loop.pc = "system"
    /\ Ready
    /\ loop.effects = <<>>
    /\ loop' = [loop EXCEPT
                  !.pc = IF loop.cur.kind = "interrupt" THEN "flush" ELSE "settle",
                  !.wait = "none"]
    /\ UNCHANGED <<inb, out>>

(***************************************************************************)
(* The flush after an Interrupt: the keepers held back are judged again,   *)
(* then the lane is emptied, frame by frame; it does not touch the system  *)
(* lane, and frames may still arrive meanwhile.                            *)
(***************************************************************************)
Judge(frame, l) ==
    loop' = [l EXCEPT !.kept = IF Kept(frame, loop.floor) THEN Append(@, frame) ELSE @]

\* Mutant: keepers held from an earlier flush are kept whatever the new one says.
RetainEveryPending ==
    /\ loop.pc = "flush"
    /\ loop.pending /= <<>>
    /\ loop' = [loop EXCEPT !.pending = Tail(@), !.kept = Append(@, Head(loop.pending))]
    /\ UNCHANGED <<inb, out>>

RetainPending ==
    /\ loop.pc = "flush"
    /\ loop.pending /= <<>>
    /\ Judge(Head(loop.pending), [loop EXCEPT !.pending = Tail(@)])
    /\ UNCHANGED <<inb, out>>

FlushData ==
    /\ loop.pc = "flush"
    /\ loop.pending = <<>>
    /\ inb.data /= <<>>
    /\ inb' = PopData(inb)
    /\ Judge(Head(inb.data), loop)
    /\ UNCHANGED out

FlushEnds ==
    /\ loop.pc = "flush"
    /\ loop.pending = <<>>
    /\ inb.data = <<>>
    /\ loop' = [loop EXCEPT !.pc = "settle", !.pending = loop.kept, !.kept = <<>>]
    /\ UNCHANGED <<inb, out>>

-----------------------------------------------------------------------------
(***************************************************************************)
(* After the effects, or after a handled system frame: the frames deferred *)
(* during perform, in order, then the Interrupt that ended it; then break  *)
(* on a Stop or a fatal error, else the next turn of the loop.             *)
(***************************************************************************)
SettleStashed ==
    /\ loop.pc = "settle"
    /\ loop.stash /= <<>>
    /\ HandleSystem(Head(loop.stash), [loop EXCEPT !.stash = Tail(@)])
    /\ UNCHANGED inb

SettleInterrupt ==
    /\ loop.pc = "settle"
    /\ loop.stash = <<>>
    /\ loop.intr /= NoFrame
    /\ HandleSystem(loop.intr, [loop EXCEPT !.intr = NoFrame, !.floor = loop.intr.seq])
    /\ UNCHANGED inb

Settled == loop.pc = "settle" /\ loop.stash = <<>> /\ loop.intr = NoFrame

Continue ==
    /\ Settled
    /\ ~loop.stop
    /\ loop' = [loop EXCEPT !.pc = "recv"]
    /\ UNCHANGED <<inb, out>>

Break ==
    /\ Settled
    /\ loop.stop
    /\ Return

\* What only the stage's own I/O can bring about, and the rest of the loop.
Performing == Perform \/ PerformDone \/ PerformFails

Looping ==
    \/ TakeSystem \/ TakePending \/ TakeData \/ Finish
    \/ Forwarded \/ ErrorSent \/ Preempt \/ Stash
    \/ SystemPerform \/ SystemPerformFails \/ SystemHandled
    \/ RetainPending \/ FlushData \/ FlushEnds
    \/ SettleStashed \/ SettleInterrupt \/ Continue \/ Break

LoopNext == Looping \/ Performing

-----------------------------------------------------------------------------
(***************************************************************************)
(* The neighbours, as far as a link lets them act.  A sender may enqueue   *)
(* whatever the lane's length: it may drop its send while it waits.        *)
(***************************************************************************)
UpstreamSendsData ==
    /\ inb.tx
    /\ inb.next <= MaxIn
    /\ \E kind \in UpData : inb' = SendData(inb, kind, inb.ep)
    /\ UNCHANGED <<out, loop>>

UpstreamSendsSystem ==
    /\ inb.tx
    /\ inb.next <= MaxIn
    /\ \E kind \in UpSystem :
         inb' = SendSystem(inb, kind, IF kind = "interrupt" THEN inb.ep + 1 ELSE inb.ep)
    /\ UNCHANGED <<out, loop>>

UpstreamCloses ==
    /\ inb.tx
    /\ inb' = DropOutbound(inb)
    /\ UNCHANGED <<out, loop>>

DownstreamTakesSystem ==
    /\ out.sys /= <<>>
    /\ out' = PopSys(out)
    /\ UNCHANGED <<inb, loop>>

DownstreamTakesData ==
    /\ out.data /= <<>>
    /\ out' = PopData(out)
    /\ UNCHANGED <<inb, loop>>

DownstreamCloses ==
    /\ out.rx
    /\ out' = DropInbound(out)
    /\ UNCHANGED <<inb, loop>>

\* Everything has ended: the loop has returned and both neighbours are gone.
Ended ==
    /\ loop.pc = "done" /\ ~inb.tx /\ ~out.rx
    /\ UNCHANGED vars

Neighbours ==
    \/ UpstreamSendsData \/ UpstreamSendsSystem \/ UpstreamCloses
    \/ DownstreamTakesSystem \/ DownstreamTakesData \/ DownstreamCloses

Next == LoopNext \/ Neighbours \/ Ended

Spec == Init /\ [][Next]_vars

-----------------------------------------------------------------------------
(***************************************************************************)
(* Properties.                                                             *)
(***************************************************************************)

\* The links and the loop's locals have their types.
TypeOK == inb \in LinkType /\ out \in LinkType /\ loop \in LoopType

\* The frames a stage has been sent and will still handle: what a perform deferred
\* is waiting, and of the data frames those the next flush would keep.
SystemWaiting ==
    Frames(loop.stash) \cup Frames(inb.sys)
      \cup (IF loop.intr = NoFrame THEN {} ELSE {loop.intr})
DataWaiting ==
    {f \in Frames(loop.kept) \cup Frames(loop.pending) \cup Frames(inb.data) :
       Kept(f, loop.cut)}

\* Whatever was stashed, kept or left in a lane is still in the order it was
\* sent in: keepers first, then those not judged yet, then the lane; and on the
\* system side the stash, the Interrupt that ended perform, then the lane, all sent
\* after the last Interrupt handled.
InOrder ==
    /\ Ascending(loop.kept) /\ Ascending(loop.pending) /\ Ascending(inb.data)
    /\ Precede(loop.kept, loop.pending) /\ Precede(loop.kept, inb.data)
    /\ Precede(loop.pending, inb.data)
    /\ Ascending(loop.stash) /\ Ascending(inb.sys) /\ Precede(loop.stash, inb.sys)
    /\ loop.intr /= NoFrame =>
         Precede(loop.stash, <<loop.intr>>) /\ Precede(<<loop.intr>>, inb.sys)
    /\ \A f \in Frames(inb.data) \cup Frames(loop.pending) \cup Frames(loop.kept)
                \cup Frames(inb.sys) \cup Frames(loop.stash) \cup {loop.intr} :
         f.seq < inb.next
    /\ loop.cut < inb.next
    /\ \A f \in SystemWaiting : loop.cut < f.seq

Handling == loop.pc = "system" /\ loop.cur.kind = "interrupt"

\* Causal flush: outside the handling of an Interrupt, no droppable frame sent
\* before the last one handled is anywhere the loop could still decide it from,
\* and what a flush in progress has kept is what it should keep.
NoStaleBacklog ==
    /\ \A f \in Frames(loop.kept) : Kept(f, loop.cut)
    /\ ~Handling /\ loop.pc /= "flush" =>
         \A f \in Frames(loop.pending) \cup Frames(inb.data) : Kept(f, loop.cut)

\* The parts of the loop's state that only some of its places use.
Locals ==
    /\ loop.pc /= "flush" => loop.kept = <<>>
    /\ loop.pc \in {"recv", "forward", "done"} => loop.stash = <<>>
    /\ loop.pc \in {"recv", "forward", "perform", "error", "done"} => loop.intr = NoFrame
    /\ loop.pc \in {"recv", "forward", "perform"} => ~loop.stop
    /\ loop.intr /= NoFrame => loop.intr.kind = "interrupt"
    /\ \A f \in Frames(loop.stash) : f.kind /= "interrupt"
    /\ Handling \/ loop.pc = "flush" => loop.floor = loop.cut /\ loop.stash = <<>>
                                        /\ loop.intr = NoFrame
    /\ loop.pc = "done" => ~inb.rx /\ inb.sys = <<>> /\ inb.data = <<>>
                            /\ loop.pending = <<>>
    /\ loop.pc /= "done" => inb.rx
    /\ loop.pc \in {"recv", "flush", "settle"} => loop.wait = "none"
    /\ ~out.rx => out.sys = <<>> /\ out.data = <<>>

\* What is in hand was decided after every Interrupt this stage has handled or
\* sent, and the link downstream has seen no Interrupt the stage has not.
Causes ==
    /\ loop.pc \in {"forward", "perform", "error", "system"} => loop.cur.ep >= loop.epoch
    /\ loop.epoch >= out.ep

\* The inductive invariant.
IInv == TypeOK /\ Locals /\ InOrder /\ NoStaleBacklog /\ Causes

\* What the processor sees is a Mailbox.
Waiting == INSTANCE Mailbox WITH
    sys <- SystemWaiting,
    data <- DataWaiting,
    next <- inb.next,
    halting <- loop.stop,
    closed <- loop.pc = "done"

MailboxSpec == Waiting!Spec

\* Preemption reaches the output: whatever the stage sends after it has sent an
\* Interrupt downstream is caused by a frame it decided after that Interrupt,
\* so a dropped perform leaves nothing behind it that the next stage's flush,
\* which goes by the stamps of the link, would keep.
OutputFollowsCause ==
    [][/\ Len(out'.data) > Len(out.data) => out'.data[Len(out'.data)].ep >= out.ep
       /\ Len(out'.sys) > Len(out.sys) => out'.sys[Len(out'.sys)].ep >= out.ep]_vars

\* Backpressure: a lane is over its depth by the one frame whose send is awaited,
\* and by one for every send an Interrupt dropped before it was through.
LanesBounded ==
    /\ Len(out.data) <= Capacity + loop.abandoned + (IF loop.wait = "data" THEN 1 ELSE 0)
    /\ Len(out.sys) <= Capacity + loop.abandoned + (IF loop.wait = "sys" THEN 1 ELSE 0)

-----------------------------------------------------------------------------
(***************************************************************************)
(* Liveness.  The executor polls a loop that can go on, and the neighbour  *)
(* downstream keeps reading.  Whether perform ever gets on is up to the    *)
(* stage's I/O: nothing is assumed of it.                                  *)
(***************************************************************************)
FairLoop == WF_vars(Looping) /\ WF_vars(DownstreamTakesSystem) /\ WF_vars(DownstreamTakesData)

SpecHanging == Spec /\ FairLoop

\* Barge-in does not depend on the stage's I/O: an Interrupt in the lane is
\* handled, or the stage ends, even if a perform it finds running never would.
InterruptHandled ==
    \A s \in 1..MaxIn :
      (\E f \in Frames(inb.sys) : f.seq = s /\ f.kind = "interrupt")
        ~> (loop.cut >= s \/ loop.pc = "done")
=============================================================================
