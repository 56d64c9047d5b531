--------------------------- MODULE DelegatePoller ---------------------------
(***************************************************************************)
(* The delegation poller of the ZeroClaw language model (source.rs): it    *)
(* sleeps until a turn settles, scans the result files the daemon writes,  *)
(* and keeps scanning on a cadence while a task is pending.  Both wakes    *)
(* are Notify::notify_waiters: they reach a poller that sleeps, and leave  *)
(* nothing for one that does not.  On connect's runtime the poller only    *)
(* yields where it sleeps or waits for room in the event channel; watch    *)
(* puts it on any runtime, and the model lets others in between all steps. *)
(*                                                                         *)
(* The daemon is external: it writes a running record while some turn is   *)
(* under way, so that a turn settles afterwards; a terminal one later or   *)
(* (restarted) never.  A record of this session that cannot be read yet    *)
(* counts as running; one of an earlier session may be unreadable for good,*)
(* and its session cannot be told.                                         *)
(***************************************************************************)
EXTENDS Naturals, Sequences

CONSTANTS
    Files,      \* the result files, by task id
    Old,        \* those of an earlier session
    Cap         \* EVENT_CHANNEL_CAPACITY, 64 in the code

ASSUME FilesAssumption == Old \subseteq Files /\ Cap \in Nat \ {0}

VARIABLES
    record,     \* file -> absent, unreadable, running, settled (completed or failed), cancelled
    poller,     \* [pc, woken, todo]
    settled,    \* files reported, or permanently ignored
    pending,    \* files seen and not yet terminal
    channel,    \* the events on their way to the source
    received,   \* ghost: the events the source returned, in order
    stop        \* PollCancel::flag

delegates == <<record, poller, settled, pending, channel, received, stop>>

Ended == {"settled", "cancelled"}
Awake == [pc |-> "look", woken |-> FALSE, todo |-> {}]

PollerInit ==
    /\ record \in {r \in [Files -> {"absent", "unreadable", "running"}] :
                     \A f \in Files : r[f] # "absent" <=> f \in Old}
    /\ poller = Awake
    /\ settled = {}
    /\ pending = {}
    /\ channel = <<>>
    /\ received = <<>>
    /\ stop = FALSE

-----------------------------------------------------------------------------
(* The daemon, the actor that settles turns, and the source                *)

Delegates(f) ==
    /\ record[f] = "absent"
    /\ record' = [record EXCEPT ![f] = "running"]
    /\ UNCHANGED <<poller, settled, pending, channel, received, stop>>

DelegateEnds(f) ==
    /\ record[f] = "running"
    /\ \E r \in Ended : record' = [record EXCEPT ![f] = r]
    /\ UNCHANGED <<poller, settled, pending, channel, received, stop>>

\* notify_waiters reaches the futures that exist.
Notified == poller' = [poller EXCEPT !.woken = @ \/ poller.pc = "asleep"]

\* turn_settled, after every turn of the actor.
TurnSettles ==
    /\ Notified
    /\ UNCHANGED <<record, settled, pending, channel, received, stop>>

\* DispatchSource::cancel: the flag, then the wake.
SourceCancels ==
    /\ ~stop
    /\ stop' = TRUE
    /\ Notified
    /\ UNCHANGED <<record, settled, pending, channel, received>>

NextEvent ==
    /\ channel # <<>>
    /\ received' = Append(received, Head(channel))
    /\ channel' = Tail(channel)
    /\ UNCHANGED <<record, poller, settled, pending, stop>>

-----------------------------------------------------------------------------
(* run_poller                                                              *)

\* is_cancelled, at the top of the loop.
Looks ==
    /\ poller.pc = "look"
    /\ poller' = [poller EXCEPT !.pc = IF stop THEN "stopped" ELSE "lie down"]
    /\ UNCHANGED <<record, settled, pending, channel, received, stop>>

\* select!: the futures of the two wakes exist from here on.
LiesDown ==
    /\ poller.pc = "lie down"
    /\ poller' = [poller EXCEPT !.pc = "asleep", !.woken = FALSE]
    /\ UNCHANGED <<record, settled, pending, channel, received, stop>>

\* Mutant: only the cadence wakes the poller.
WakesOnCadence ==
    /\ poller.pc = "asleep"
    /\ pending # {}
    /\ poller' = [poller EXCEPT !.pc = "awake", !.woken = FALSE]
    /\ UNCHANGED <<record, settled, pending, channel, received, stop>>

\* A wake, or with tasks pending the cadence.
Wakes ==
    /\ poller.pc = "asleep"
    /\ poller.woken \/ pending # {}
    /\ poller' = [poller EXCEPT !.pc = "awake", !.woken = FALSE]
    /\ UNCHANGED <<record, settled, pending, channel, received, stop>>

Present == {f \in Files : record[f] # "absent"}

\* is_cancelled again, then the directory is listed.
Scans ==
    /\ poller.pc = "awake"
    /\ poller' = IF stop THEN [poller EXCEPT !.pc = "stopped"]
                 ELSE [poller EXCEPT !.pc = "scan", !.todo = Present]
    /\ UNCHANGED <<record, settled, pending, channel, received, stop>>

\* A task whose record shows it is under way in this session, or does not show otherwise.
UnderWay(f) == record[f] = "unreadable" \/ (record[f] = "running" /\ f \notin Old)

Left(f) == poller' = [poller EXCEPT !.todo = @ \ {f}]
Skips(f) == f \in settled /\ Left(f) /\ UNCHANGED <<settled, pending, channel>>

\* Mutant: a running task is not remembered as pending.
WaitsForgetting(f) ==
    /\ f \notin settled /\ UnderWay(f)
    /\ Left(f) /\ UNCHANGED <<settled, pending, channel>>

\* First seen before (a while ago or stale_after ago), or just now.
Waits(f) ==
    /\ f \notin settled /\ UnderWay(f)
    /\ pending' = pending \cup {f}
    /\ Left(f) /\ UNCHANGED <<settled, channel>>

\* Mutant: a task is settled only by a terminal record, not by going stale.
SettlesTerminal(f) ==
    /\ settled' = IF UnderWay(f) THEN settled ELSE settled \cup {f}
    /\ pending' = pending \ {f}

Settles(f) == settled' = settled \cup {f} /\ pending' = pending \ {f}

Ignores(f) ==
    /\ f \notin settled /\ record[f] # "unreadable"
    /\ f \in Old \/ record[f] = "cancelled"
    /\ Settles(f) /\ Left(f) /\ UNCHANGED channel

\* settled before the send, which waits for room and keeps the rest of the scan waiting.
Reports(f) ==
    /\ f \notin settled
    /\ (record[f] = "settled" /\ f \notin Old) \/ (UnderWay(f) /\ f \in pending)
    /\ Settles(f)
    /\ channel' = Append(channel, f)
    /\ poller' = [poller EXCEPT !.todo = @ \ {f}, !.pc = "send"]

ScanFile(f) ==
    /\ poller.pc = "scan" /\ f \in poller.todo
    /\ Skips(f) \/ Waits(f) \/ Ignores(f) \/ Reports(f)
    /\ UNCHANGED <<record, received, stop>>

SendsOn ==
    /\ poller.pc = "send" /\ Len(channel) <= Cap
    /\ poller' = [poller EXCEPT !.pc = "scan"]
    /\ UNCHANGED <<record, settled, pending, channel, received, stop>>

ScanEnds ==
    /\ poller.pc = "scan" /\ poller.todo = {}
    /\ poller' = Awake
    /\ UNCHANGED <<record, settled, pending, channel, received, stop>>

\* stale_after, or a terminal record: a pending task does not stay pending.
Resolves(f) == ScanFile(f) /\ poller'.pc = "send"

Poller == Looks \/ LiesDown \/ Wakes \/ Scans \/ (\E f \in Files : ScanFile(f)) \/ SendsOn \/ ScanEnds

PollerNext ==
    \/ TurnSettles \/ (\E f \in Files : Delegates(f) \/ DelegateEnds(f))
    \/ SourceCancels \/ NextEvent
    \/ Poller

-----------------------------------------------------------------------------
(* Properties                                                              *)

\* What the source has been told, and what is on its way to it.
Told == received \o channel

\* A delegated task is reported at most once, also one reported as stale that ends after
\* all, and never one whose record shows an earlier session (settled, source.rs).
ReportedAtMostOnce ==
    \A i \in DOMAIN Told :
        /\ \A j \in DOMAIN Told : Told[i] = Told[j] => i = j
        /\ Told[i] \in Old => record[Told[i]] = "unreadable"

\* It is settled before it is told.
DelegatesInv ==
    /\ record \in [Files -> {"absent", "unreadable", "running"} \cup Ended]
    /\ poller \in [pc : {"look", "lie down", "asleep", "awake", "scan", "send", "stopped"},
                   woken : BOOLEAN, todo : SUBSET Files]
    /\ settled \subseteq Files /\ pending \subseteq Files
    /\ channel \in Seq(Files) /\ received \in Seq(Files)
    /\ \A i \in DOMAIN Told : Told[i] \in settled
    /\ ReportedAtMostOnce

\* A task delegated in a turn is reported (or cancelled by the agent), whichever wakes the
\* poller misses while it scans, as long as the conversation goes on.
DelegationIsReported ==
    \A f \in Files \ Old :
        []<>(record[f] \in {"running", "settled"} => f \in {received[i] : i \in DOMAIN received} \/ stop)

\* A cancel stops the poller at the latest when the next turn settles.
CancelStopsPoller == []<>(stop => poller.pc = "stopped")
=============================================================================
