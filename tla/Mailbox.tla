------------------------------ MODULE Mailbox ------------------------------
(***************************************************************************)
(* What a stage's processor may rely on: the order in which its decide_*   *)
(* methods see the frames of the inbound link, whatever the run loop does  *)
(* underneath with stashes, keepers and flush floors.                      *)
(*                                                                         *)
(*   - system frames first, in the order they were sent;                   *)
(*   - data frames only when no system frame is waiting, in order;         *)
(*   - an Interrupt discards, in the step that handles it, exactly the     *)
(*     droppable frames sent before it;                                    *)
(*   - nothing else is lost before the stage halts, nothing comes twice.   *)
(*                                                                         *)
(* The frames waiting are sets: their stamps order them.                   *)
(***************************************************************************)
EXTENDS Link

VARIABLES
  sys,      \* the system frames not yet handled
  data,     \* the data frames that will still be handled
  next,     \* the stamp of the next frame
  halting,  \* a Stop was handled, or an effect failed fatally
  closed    \* the stage has returned

vars == <<sys, data, next, halting, closed>>

Init == sys = {} /\ data = {} /\ next = 1 /\ ~halting /\ ~closed

\* The earliest sent of a set of frames.
Oldest(frame, frames) == frame \in frames /\ \A g \in frames : frame.seq <= g.seq

SendSystemFrame ==
    /\ next' = next + 1
    /\ \/ closed /\ sys' = sys
       \/ ~closed /\ \E frame \in sys' :
            frame \in SysFrame /\ frame.seq = next /\ sys' = sys \cup {frame}
    /\ UNCHANGED <<data, halting, closed>>

SendDataFrame ==
    /\ next' = next + 1
    /\ \/ closed /\ data' = data
       \/ ~closed /\ \E frame \in data' :
            frame \in DataFrame /\ frame.seq = next /\ data' = data \cup {frame}
    /\ UNCHANGED <<sys, halting, closed>>

HandleSystemFrame ==
    \E frame \in sys :
      /\ Oldest(frame, sys)
      /\ sys' = sys \ {frame}
      /\ data' = IF frame.kind = "interrupt"
                 THEN {d \in data : Kept(d, frame.seq)}
                 ELSE data
      /\ halting' = (halting \/ frame.kind = "stop")
      /\ UNCHANGED <<next, closed>>

HandleDataFrame ==
    /\ sys = {}
    /\ ~halting
    /\ \E frame \in data :
         /\ Oldest(frame, data)
         /\ data' = data \ {frame}
    /\ UNCHANGED <<sys, next, halting, closed>>

\* An effect failed fatally.
Fail ==
    /\ ~closed
    /\ halting' = TRUE
    /\ UNCHANGED <<sys, data, next, closed>>

\* The stage returns when it is halting or has nothing left to handle.
Close ==
    /\ halting \/ (sys = {} /\ data = {})
    /\ closed' = TRUE
    /\ sys' = {}
    /\ data' = {}
    /\ UNCHANGED <<next, halting>>

Next == SendSystemFrame \/ SendDataFrame \/ HandleSystemFrame
        \/ HandleDataFrame \/ Fail \/ Close

Spec == Init /\ [][Next]_vars
=============================================================================
