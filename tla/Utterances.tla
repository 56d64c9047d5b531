----------------------------- MODULE Utterances -----------------------------
(***************************************************************************)
(* What a caller of StreamingTranscriber (or of VoiceActivityDetector) may *)
(* rely on, whatever thread does the work: a call acts on the session at   *)
(* once, its answer is about exactly the audio of that session, and cancel *)
(* closes the session for good.  EngineWorkers implements it.              *)
(***************************************************************************)
EXTENDS Naturals, Sequences

VARIABLES
    engine,     \* which implementation serves the calls; it never changes
    session,    \* the open utterance, or Closed
    call,       \* the call awaited, or NoCall
    got         \* what the last awaited call returned

avars == <<engine, session, call, got>>

Engines == {"buffered", "online", "offline", "vad"}
Chunks  == {"voice", "silence"}
Ops     == [op : {"begin", "end"}, chunk : {"none"}] \cup [op : {"feed"}, chunk : Chunks]

Closed == [open |-> FALSE, audio |-> <<>>]
Opened(audio) == [open |-> TRUE, audio |-> audio]

\* A detector has no utterances: it always listens.
Fresh(e) == IF e = "vad" THEN Opened(<<>>) ELSE Closed
Offers(e, op) == e = "vad" => op.op = "feed"

\* What a recogniser makes of audio (its hypothesis): the chunks it hears words in.  A
\* detector's verdict is about the last chunk only, however many came before.
Silent == {}
Voiced(audio) == {i \in DOMAIN audio : audio[i] = "voice"}
Heard(e, audio) ==
    IF e = "vad" THEN {0} \cap {Len(audio) - i : i \in Voiced(audio)} ELSE Voiced(audio)
Reports(e) == e \in {"online", "vad"}

Ok            == [is |-> "ok", events |-> <<>>]
Events(es)    == [is |-> "ok", events |-> es]
Protocol      == [is |-> "protocol", events |-> <<>>]
EngineFailed  == [is |-> "engine", events |-> <<>>]
Discarded     == Ok
Partial(text) == [final |-> FALSE, text |-> text]
Final(text)   == [final |-> TRUE, text |-> text]

NoCall == [is |-> "none", events |-> <<>>]

\* A call's answer, and the session behind it.  A report says what has become audible,
\* the final says all that was fed.
Answer(e, s, op) ==
    CASE op.op = "begin" -> IF s.open THEN Protocol ELSE Ok
      [] op.op = "feed"  ->
           IF ~s.open THEN Protocol
           ELSE LET heard == Heard(e, Append(s.audio, op.chunk)) IN
                IF Reports(e) /\ heard # Heard(e, s.audio) THEN Events(<<Partial(heard)>>) ELSE Ok
      [] op.op = "end"   -> IF s.open THEN Events(<<Final(s.audio)>>) ELSE Protocol

After(s, op) ==
    CASE op.op = "begin" -> IF s.open THEN s ELSE Opened(<<>>)
      [] op.op = "feed"  -> IF s.open THEN Opened(Append(s.audio, op.chunk)) ELSE s
      [] op.op = "end"   -> Closed

AInit ==
    /\ engine \in Engines
    /\ session = Fresh(engine)
    /\ call = NoCall
    /\ got = Ok

CallWith(op) ==
    /\ call = NoCall
    /\ Offers(engine, op)
    /\ session' = After(session, op)
    /\ UNCHANGED engine

\* An engine with a thread of its own is awaited; one without answers at once.
Ask(op) == CallWith(op) /\ call' = Answer(engine, session, op) /\ UNCHANGED got
AskAndReturn(op) == CallWith(op) /\ got' = Answer(engine, session, op) /\ UNCHANGED call

Return == call # NoCall /\ got' = call /\ call' = NoCall /\ UNCHANGED <<engine, session>>

\* The engine fails a call; the session stays what the call made of it.
Fail == call # NoCall /\ got' = EngineFailed /\ call' = NoCall /\ UNCHANGED <<engine, session>>

\* The engine breaks down, and fails the call awaited and every later one.
Break ==
    /\ session' = Fresh(engine)
    /\ call' \in IF call = NoCall THEN {NoCall} ELSE {call, EngineFailed}
    /\ UNCHANGED <<engine, got>>
Refuse == call = NoCall /\ got' = EngineFailed /\ UNCHANGED <<engine, session, call>>

\* The caller's future is dropped: the session is untouched.
Forget == call # NoCall /\ call' = NoCall /\ UNCHANGED <<engine, session, got>>

\* Synchronous, at any time; an awaited call answers with nothing.
CancelSession ==
    /\ session' = Fresh(engine)
    /\ call' = IF call = NoCall THEN NoCall ELSE Discarded
    /\ UNCHANGED <<engine, got>>

\* A barge-in does both, between two polls of the future.
Interrupt ==
    /\ session' = Fresh(engine)
    /\ call' = NoCall
    /\ UNCHANGED <<engine, got>>

ANext ==
    \/ \E op \in Ops : Ask(op) \/ AskAndReturn(op)
    \/ Return \/ Fail \/ Forget \/ Break \/ Refuse
    \/ CancelSession \/ Interrupt

ASpec == AInit /\ [][ANext]_avars
=============================================================================
