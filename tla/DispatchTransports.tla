------------------------- MODULE DispatchTransports -------------------------
(***************************************************************************)
(* The two transports behind DispatchSink and DispatchSource.  They share  *)
(* a shape (sink, registry, event channel, source) and no code; backend    *)
(* says which of them a behaviour is about.                                *)
(***************************************************************************)
EXTENDS HermesDispatch

CONSTANTS
    TranscriptCapacity,
    MaxTurns,          \* bound on the webhook's turns, and on the commands it is sent
    MaxWebhookTasks    \* bound on its tasks

ASSUME WebhookAssumption ==
    /\ TranscriptCapacity \in Nat \ {0}
    /\ MaxTurns \in Nat /\ MaxWebhookTasks \in Nat

VARIABLES backend, workers

all == <<hermes, backend, workers>>

Webhook == INSTANCE WebhookDispatch WITH MaxTasks <- MaxWebhookTasks, MaxCommands <- MaxTurns

TransportsInit ==
    \/ backend = "hermes" /\ HermesInit /\ workers = [w \in Webhook!Turns |-> Webhook!NoWorker]
    \/ backend = "webhook" /\ Webhook!WebhookInit /\ trail = [t \in Tasks |-> <<>>] /\ runs = <<>> /\ poller = Resting

Hermes(A)   == backend = "hermes" /\ A /\ UNCHANGED <<backend, workers>>
ByWebhook(A) == backend = "webhook" /\ A /\ UNCHANGED <<backend, trail, runs, poller>>

TransportsNext == Hermes(HermesNext) \/ ByWebhook(Webhook!WebhookNext)

\* The tasks are scheduled and the source is read.  A run ends, and the server answers a
\* poll again and again although some polls fail; a webhook request ends (it has a timeout).
Fairness ==
    /\ WF_all(Hermes(Poller)) /\ WF_all(Hermes(Sink))
    /\ WF_all(Hermes(NextEvent \/ SourceCloses))
    /\ SF_all(Hermes(ServerAnswers))
    /\ \A r \in 1..MaxRuns : WF_all(Hermes(r \in DOMAIN runs /\ runs[r].status \in InFlight /\ RunMoves(r)))
    /\ WF_all(ByWebhook(Webhook!Sink))
    /\ WF_all(ByWebhook(Webhook!NextEvent \/ Webhook!SourceCloses))
    /\ \A w \in 1..MaxTurns : WF_all(ByWebhook(Webhook!Deliver(w)))

TransportsSpec == TransportsInit /\ [][TransportsNext]_all /\ Fairness

(***************************************************************************)
(* Properties.                                                             *)
(***************************************************************************)
\* What a task is told and what it does is kept apart run from run, on either transport: the
\* poller and the command side agree on the run a task is at, and two turns of one task
\* never run at the gateway at once (the claim of update, inner.rs).
TasksAreKeptApart == RunsAreKeptApart /\ Webhook!OneTurnAtATime

TransportsInv ==
    \/ backend = "hermes" /\ RunsInv /\ workers = [w \in Webhook!Turns |-> Webhook!NoWorker]
    \/ /\ backend = "webhook" /\ Webhook!SlotsInv
       /\ trail = [t \in Tasks |-> <<>>] /\ runs = <<>> /\ poller = Resting

\* A follow-up replays every answer the pipeline has been told of (deliver and update,
\* inner.rs of either transport).
ReplaysWhatWasReported ==
    [][/\ backend = "webhook" => Webhook!ReplaysWhatWasReported
       /\ backend = "hermes" => FollowUpKnowsAnswers]_all

\* Every run that is tracked, and every turn that was started, is reported to the pipeline
\* unless the transport is cancelled.
TasksAreReported == TrackedRunIsReported /\ Webhook!TurnIsReported
=============================================================================
