----------------------------- MODULE ZeroclawLm -----------------------------
(***************************************************************************)
(* The ZeroClaw language model adapter: the actor of its session, and the  *)
(* poller of its delegations on the same runtime.  All the poller sees of  *)
(* the actor is that a turn settles, and it leaves each of them to any     *)
(* order; part says which of the two a behaviour is about.                 *)
(***************************************************************************)
EXTENDS ZeroclawActor, DelegatePoller

VARIABLES part

all == <<lm, delegates, part>>

Init == part \in {"actor", "poller"} /\ LmInit /\ PollerInit

AsActor(A)  == part = "actor" /\ A /\ UNCHANGED <<part, delegates>>
AsPoller(A) == part = "poller" /\ A /\ UNCHANGED <<part, lm>>

Next == AsActor(LmNext) \/ AsPoller(PollerNext)

\* The two tasks and the caller of cancel are scheduled, and the events are read.  The
\* daemon serves its socket and ends its turns; the conversation goes on, turn after turn;
\* and a task that stays pending ends or grows stale.
Fairness ==
    /\ WF_all(AsActor(Actor)) /\ WF_all(AsActor(CancelTells \/ DaemonTakes \/ DaemonEnds))
    /\ WF_all(AsPoller(Poller)) /\ WF_all(AsPoller(NextEvent))
    /\ WF_all(AsPoller(TurnSettles))
    /\ \A f \in Files \ Old : SF_all(AsPoller(Resolves(f)))

Spec == Init /\ [][Next]_all /\ Fairness

(***************************************************************************)
(* Properties.                                                             *)
(***************************************************************************)
\* On the one session that every generation and every delegation shares, turns are kept
\* apart, and a delegated task is not told twice.
SessionIsShared == TurnsAreKeptApart /\ ReportedAtMostOnce

\* The poller misses no wake for good: a delegated task is reported while the conversation
\* goes on, and a cancel stops the poller at the latest when the next turn settles.
PollerCatchesUp == DelegationIsReported /\ CancelStopsPoller
=============================================================================
