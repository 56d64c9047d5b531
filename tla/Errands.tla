------------------------------- MODULE Errands -------------------------------
(***************************************************************************)
(* What becomes of a tool call, as one system to be checked: how it is     *)
(* told from the text around it (ToolCalls), its round trip through the    *)
(* dispatch stages (Dispatch), what the user hears of it (SpokenErrand),   *)
(* and what the model reads of it in its next turn (LlamaPrompts).  A      *)
(* behaviour has one of them; the others rest in their initial state.      *)
(***************************************************************************)
EXTENDS Dispatch, ToolCalls, SpokenErrand, LlamaPrompts

VARIABLE part   \* which of them is modelled; it never changes

errandsVars == <<vars, toolVars, errandVars, promptVars, part>>

ErrandsInit ==
    /\ Init /\ ToolInit /\ ErrandInit /\ PromptInit
    /\ part \in {"calls", "dispatch", "errand", "prompt"}

ErrandsNext ==
    \/ part = "calls" /\ ToolNext /\ UNCHANGED <<vars, errandVars, promptVars, part>>
    \/ part = "dispatch" /\ Next /\ UNCHANGED <<toolVars, errandVars, promptVars, part>>
    \/ part = "errand" /\ ErrandNext /\ UNCHANGED <<vars, toolVars, promptVars, part>>
    \/ part = "prompt" /\ PromptNext /\ UNCHANGED <<vars, toolVars, errandVars, part>>

\* The fairness of Dispatch and of SpokenErrand; of an errand, it is what EventsHeard assumes
\* of a dispatch too, that whatever can go on does.
ErrandsSpec ==
    /\ ErrandsInit /\ [][ErrandsNext]_errandsVars
    /\ WF_vars(part = "dispatch" /\ IngressNext)
    /\ WF_vars(part = "dispatch" /\ LmLoop)
    /\ WF_vars(part = "dispatch" /\ EgressLoop)
    /\ WF_errandVars(part = "errand" /\ ErrandSystem)

(***************************************************************************)
(* Properties.                                                             *)
(***************************************************************************)
\* The worker parts what the model writes into text and calls, and puts both back together
\* when it has the model read the turn again: nothing of either is lost, doubled or taken
\* for the other on the way (intercept.rs 16-20, worker.rs 284-294).
CallsReadAsWritten == SplitIsExact /\ PromptIsConversation

\* The events that ingress has taken are all told to the model in the end, even across
\* barge-ins, as long as generations end and the sink answers (on full lanes, lm waits for
\* egress); and an errand that has left is spoken of two stages later, the dispatch being
\* "silent until the task reports back" otherwise (main.rs 159-163).
BothEndsAreTold == FairModel /\ FairSink => []<>(ToldModel = trace.taken /\ ErrandsSpokenOf)
=============================================================================
