-------------------------------- MODULE Inbox --------------------------------
(***************************************************************************)
(* What Mailbox says of the two lanes into a stage, for modules that keep  *)
(* an inbox as one sequence of frames in the order of their stamps: an     *)
(* Interrupt is handled before the data frames, and discards the droppable *)
(* ones that were sent before it.                                          *)
(***************************************************************************)
EXTENDS Naturals, Sequences, SequencesExt

Lanes == INSTANCE Link

\* What of a sequence passes a test, in its order.
Only(seq, Test(_)) == Lanes!Retain(seq, {x \in Lanes!Frames(seq) : Test(x)})

Interrupt == [kind |-> "interrupt"]

\* Mutant: inputs count as part of the turn that is cut off.
DurableWithoutInput(frame) == frame.kind \in {"event", "call", "command"}

\* Mutant: calls count as part of the turn that is cut off.
DurableWithoutCall(frame) == frame.kind \in {"event", "input", "command"}

\* DataFrame::survives_flush
Durable(frame) == frame.kind \in {"event", "input", "call", "command"}

IsInterrupt(frame) == frame.kind = "interrupt"
IsData(frame) == frame.kind /= "interrupt"

Interrupted(box) == \E i \in 1..Len(box) : IsInterrupt(box[i])
HasData(box) == box /= <<>> /\ ~Interrupted(box)

First(box) == SelectInSeq(box, IsInterrupt)
AfterInterrupt(box) ==
    LET i == First(box)
    IN  Only(SubSeq(box, 1, i - 1), Durable) \o SubSeq(box, i + 1, Len(box))
=============================================================================
