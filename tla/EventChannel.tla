---------------------------- MODULE EventChannel ----------------------------
(***************************************************************************)
(* The bounded tokio channel between a dispatch transport and its source.  *)
(* One line holds the buffered events, and behind them the senders that    *)
(* wait for room in the order they came: entry i is buffered iff i <= Cap. *)
(***************************************************************************)
EXTENDS Naturals, Sequences, SequencesExt

CONSTANTS Cap   \* EVENT_CHANNEL_CAPACITY, 64 in the code

ASSUME CapAssumption == Cap \in Nat \ {0}

\* An event of a run (or webhook turn) of a task; rejections have neither.
Event(type, task, run) == [type |-> type, task |-> task, run |-> run]
Terminal(e) == e.type \in {"completion", "failure"}

Enqueued(line, from, event) == Append(line, [from |-> from, event |-> event])

Waits(line, from) == \E i \in DOMAIN line : i > Cap /\ line[i].from = from

\* A sender whose future is dropped leaves the line, where it waits at most once; what is
\* buffered stays.
Withdrawn(line, from) ==
    IF Waits(line, from) THEN RemoveAt(line, CHOOSE i \in DOMAIN line : i > Cap /\ line[i].from = from)
    ELSE line

\* The event is under way to the source.
InLine(line, event) == \E i \in DOMAIN line : line[i].event = event
=============================================================================
