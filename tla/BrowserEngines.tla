---------------------------- MODULE BrowserEngines ----------------------------
(***************************************************************************)
(* The engines of the browser adapters, and the stages' use of them:       *)
(*                                                                         *)
(*   "lm"   pipecrab-lm-web   TransformersLm, generate.js    LmStage       *)
(*   "tts"  pipecrab-tts-web  KokoroTts, kokoro.js           TtsStage      *)
(*   "vad"  pipecrab-vad-web  SileroScorer, silero.js        Debounced     *)
(*                                                                         *)
(* All of it is one thread.  An await gives way to whatever is ready, a    *)
(* promise once made is settled whether or not anyone awaits it, and the   *)
(* engine itself (Transformers.js, onnxruntime) works on in the meantime.  *)
(* A barge-in drops the perform that awaits, then calls cancel.            *)
(*                                                                         *)
(* Engines are told apart by engine; they share no state.                  *)
(***************************************************************************)
EXTENDS Naturals, Sequences, FiniteSets, SequencesExt

CONSTANTS
    MaxGenerations,  \* bound on the generations asked for
    MaxNewTokens,    \* TransformersLmConfig::max_new_tokens
    MaxRuns,         \* bound on the clauses to synthesize
    MaxSentenceWords,\* bound on the words of a sentence
    MinWords,        \* MIN_WORDS of clauses.rs
    JoinLead,        \* JOIN_LEAD and JOIN_TAIL, in samples
    JoinTail,
    MaxClip,         \* bound on the samples of a clause
    MaxWindows,      \* bound on the windows to score
    MaxBargeIns      \* bound on the barge-ins

ASSUME EnginesAssumption ==
    /\ MaxGenerations \in Nat /\ MaxNewTokens \in Nat \ {0}
    /\ MinWords \in Nat \ {0} /\ JoinLead \in Nat /\ JoinTail \in Nat

VARIABLES
    engine,     \* which adapter the behaviour is about
    bargeIns,   \* how many there were
    gens,       \* generate.js: the generations, in the order of the promise chain
    pull,       \* the stage's stream: [gen, at, read, waited], gen 0 when there is none
    committed,  \* the generations whose reply was read to the end
    runs,       \* kokoro.js: the synthesis runs, in the order of the chain
    speech,     \* TtsStage: the sentence it speaks
    scorer      \* silero.js: the recurrent state, the calls under way, and who awaits

lmPart == <<gens, pull, committed>>
ttsPart == <<runs, speech>>
engines == <<engine, bargeIns, lmPart, ttsPart, scorer>>

NoPull == [gen |-> 0, at |-> "idle", read |-> 0, waited |-> 0]
NoClip == [raw |-> <<>>, before |-> FALSE, after |-> FALSE]
NoSpeech == [on |-> FALSE, words |-> <<>>, ends |-> <<>>, next |-> 1, run |-> 0,
             result |-> "none", clip |-> NoClip, waited |-> 0]

EnginesInit ==
    /\ engine \in {"lm", "tts", "vad"} /\ bargeIns = 0
    /\ gens = <<>> /\ pull = NoPull /\ committed = {}
    /\ runs = <<>> /\ speech = NoSpeech
    /\ scorer = [state |-> <<>>, calls |-> {}, awaited |-> 0, windows |-> 0]

\* The chain of promises: a link runs once every one before it has settled.
InTurn(chain, i) == \A j \in 1..(i - 1) : chain[j].phase = "settled"

(***************************************************************************)
(* generate.js.  A generation's stop flag is its stopping criterion.  For  *)
(* the properties: made counts the pieces of text pushed, whole says that  *)
(* the model ended it of itself, and pull.waited counts the tokens of      *)
(* other generations since the stage asked for its own.                    *)
(***************************************************************************)
NewGeneration == [phase |-> "waiting", stop |-> FALSE, queue |-> <<>>, failed |-> FALSE,
                  tokens |-> 0, made |-> 0, whole |-> FALSE]

Current == Len(gens)

\* TransformersLm::generate, startGeneration.
StartGeneration ==
    /\ pull.gen = 0 /\ Len(gens) < MaxGenerations
    /\ gens' = Append(gens, NewGeneration)
    /\ pull' = [NoPull EXCEPT !.gen = Len(gens) + 1]
    /\ UNCHANGED committed

\* Mutant: a generation interrupted while it waited is started all the same.
BeginsAnyway(g) ==
    /\ gens[g].phase = "waiting" /\ InTurn(gens, g)
    /\ gens' = [gens EXCEPT ![g].phase = "running"]
    /\ UNCHANGED <<pull, committed>>

\* Its turn on the chain: one interrupted while it waited never starts, and finishes.
Begins(g) ==
    /\ gens[g].phase = "waiting" /\ InTurn(gens, g)
    /\ gens' = [gens EXCEPT ![g].phase = IF gens[g].stop THEN "settled" ELSE "running"]
    /\ UNCHANGED <<pull, committed>>

\* wake(): the reader parked on this generation goes on.
Roused(g) == IF pull.gen = g /\ pull.at = "parked" THEN [pull EXCEPT !.at = "next"] ELSE pull

\* A token: the streamer pushes a word, nothing, or an empty flush; then the criterion is
\* looked at.
Decodes(g) ==
    /\ gens[g].phase = "running" /\ gens[g].tokens < MaxNewTokens
    /\ \E pieces \in {<<>>, <<"text">>, <<"empty">>}, eos \in BOOLEAN :
         LET old == gens[g]
             whole == eos \/ old.tokens + 1 = MaxNewTokens
         IN  gens' = [gens EXCEPT ![g] =
               [old EXCEPT !.queue = @ \o pieces, !.tokens = @ + 1,
                  !.made = IF pieces = <<"text">> THEN @ + 1 ELSE @,
                  !.phase = IF old.stop \/ whole THEN "settled" ELSE "running",
                  !.whole = whole]]
    /\ pull' = [Roused(g) EXCEPT !.waited = IF pull.gen \in {0, g} THEN 0 ELSE @ + 1]
    /\ UNCHANGED committed

\* Mutant: finish(error) wakes no one.
FailsUnheard(g) ==
    /\ gens[g].phase = "running"
    /\ gens' = [gens EXCEPT ![g].phase = "settled", ![g].failed = TRUE]
    /\ UNCHANGED <<pull, committed>>

GenerationFails(g) ==
    /\ gens[g].phase = "running"
    /\ gens' = [gens EXCEPT ![g].phase = "settled", ![g].failed = TRUE]
    /\ pull' = Roused(g)
    /\ UNCHANGED committed

\* The stage polls its stream: Generation.next is called.
Pulls ==
    /\ pull.gen /= 0 /\ pull.at = "idle"
    /\ pull' = [pull EXCEPT !.at = "next"]
    /\ UNCHANGED <<gens, committed>>

Pulled == gens[pull.gen]

\* Dropping the Pull interrupts its generation.
Dropped(g) == [gens EXCEPT ![g].stop = TRUE]

NextGives ==
    /\ pull.gen /= 0 /\ pull.at = "next" /\ Pulled.queue /= <<>>
    /\ gens' = [gens EXCEPT ![pull.gen].queue = Tail(@)]
    /\ pull' = IF Head(Pulled.queue) = "text"
               THEN [pull EXCEPT !.at = "idle", !.read = @ + 1]
               ELSE pull
    /\ UNCHANGED committed

NextParks ==
    /\ pull.gen /= 0 /\ pull.at = "next"
    /\ Pulled.queue = <<>> /\ Pulled.phase /= "settled"
    /\ pull' = [pull EXCEPT !.at = "parked"]
    /\ UNCHANGED <<gens, committed>>

\* Mutant: done is looked at before the queue.
NextEndsUnread ==
    /\ pull.gen /= 0 /\ pull.at = "next" /\ Pulled.phase = "settled"
    /\ committed' = IF Pulled.failed THEN committed
                    ELSE committed \cup {[gen |-> pull.gen, read |-> pull.read]}
    /\ gens' = Dropped(pull.gen)
    /\ pull' = NoPull

\* The queue is drained and the generation done: the stream ends, with its error if it has
\* one, and the stage commits what it read.
NextEnds ==
    /\ pull.gen /= 0 /\ pull.at = "next"
    /\ Pulled.queue = <<>> /\ Pulled.phase = "settled"
    /\ committed' = IF Pulled.failed THEN committed
                    ELSE committed \cup {[gen |-> pull.gen, read |-> pull.read]}
    /\ gens' = Dropped(pull.gen)
    /\ pull' = NoPull

\* The stream is dropped, then cancel interrupts the current generation.
LmBargeIn ==
    /\ gens' = [g \in DOMAIN gens |-> IF g \in {pull.gen, Current} THEN Dropped(g)[g] ELSE gens[g]]
    /\ pull' = NoPull
    /\ UNCHANGED committed

LmModel == \E g \in DOMAIN gens : Begins(g) \/ Decodes(g) \/ GenerationFails(g)
LmReader == Pulls \/ NextGives \/ NextParks \/ NextEnds

(***************************************************************************)
(* KokoroTts.  A word of a sentence is TRUE if clause punctuation ends it, *)
(* a sample of a clause is TRUE if it is loud.                             *)
(***************************************************************************)
Texts == UNION {[1..n -> BOOLEAN] : n \in 0..MaxSentenceWords}
Clips == UNION {[1..n -> BOOLEAN] : n \in 0..MaxClip}

\* The loop over the words: where clauses end, and the words since the last end.
Clausing(words) ==
    LET at[i \in 0..Len(words)] ==
          IF i = 0 THEN [ends |-> <<>>, count |-> 0]
          ELSE IF words[i] /\ at[i - 1].count + 1 >= MinWords
               THEN [ends |-> Append(at[i - 1].ends, i), count |-> 0]
          ELSE [ends |-> at[i - 1].ends, count |-> at[i - 1].count + 1]
    IN  at[Len(words)]

\* Mutant: a short remainder is a clause of its own.
ClausesWithRemainder(words) ==
    LET ends == Clausing(words).ends
    IN  IF Clausing(words).count > 0 THEN Append(ends, Len(words)) ELSE ends

\* clauses: the words that end one.  A short remainder rides with the clause before it.
Clauses(words) ==
    LET ends == Clausing(words).ends
        count == Clausing(words).count
    IN  CASE ends /= <<>> /\ count < MinWords -> Append(Front(ends), Len(words))
          [] count > 0 /\ (ends = <<>> \/ count >= MinWords) -> Append(ends, Len(words))
          [] OTHER -> ends

\* trim_joins
TrimJoins(clip) ==
    LET loud == {i \in DOMAIN clip.raw : clip.raw[i]}
        n == Len(clip.raw)
        first == Min(loud)
        last == Max(loud)
        from == IF clip.before /\ first > JoinLead THEN first - JoinLead ELSE 1
        to == IF clip.after /\ last + JoinTail < n THEN last + JoinTail ELSE n
    IN  IF loud = {} THEN clip.raw ELSE SubSeq(clip.raw, from, to)

\* TtsStage takes a sentence.  Nothing is synthesized before its stream is pulled.
Speaks ==
    /\ ~speech.on
    /\ \E words \in Texts :
         /\ Len(runs) + Len(Clauses(words)) <= MaxRuns
         /\ speech' = [NoSpeech EXCEPT !.on = TRUE, !.words = words, !.ends = Clauses(words)]
    /\ UNCHANGED runs

\* The stream is pulled: the next clause's run goes on the chain.
PullsClause ==
    /\ speech.on /\ speech.run = 0 /\ speech.next <= Len(speech.ends)
    /\ runs' = Append(runs, [phase |-> "waiting"])
    /\ speech' = [speech EXCEPT !.run = Len(runs) + 1]

\* kokoro.js starts a run in its turn, whether or not its stream is still there.
RunBegins(i) ==
    /\ runs[i].phase = "waiting" /\ InTurn(runs, i)
    /\ runs' = [runs EXCEPT ![i].phase = "running"]
    /\ UNCHANGED speech

\* What was synthesized, or an error or a rate that is not the voice's.
RunEnds(i) ==
    /\ runs[i].phase = "running"
    /\ runs' = [runs EXCEPT ![i].phase = "settled"]
    /\ IF speech.run = i
       THEN \E clip \in Clips, failed \in BOOLEAN :
              speech' = [speech EXCEPT !.result = IF failed THEN "error" ELSE "clip",
                           !.clip = [raw |-> IF failed THEN <<>> ELSE clip,
                                     before |-> speech.next > 1,
                                     after |-> speech.next < Len(speech.ends)]]
       ELSE speech' = [speech EXCEPT !.waited = IF speech.run = 0 THEN @ ELSE @ + 1]

\* A clause is sent on, if anything is left of it, and the next pulled.
SendsClause ==
    /\ speech.result = "clip"
    /\ speech' = [speech EXCEPT !.result = "none", !.run = 0, !.next = @ + 1,
                                !.clip = NoClip]
    /\ UNCHANGED runs

SpeechEnds ==
    /\ speech.on
    /\ \/ speech.result = "error"
       \/ speech.run = 0 /\ speech.next > Len(speech.ends)
    /\ speech' = NoSpeech
    /\ UNCHANGED runs

\* The stream is dropped; cancel does nothing.
TtsBargeIn == speech' = NoSpeech /\ UNCHANGED runs

TtsModel == \E i \in DOMAIN runs : RunBegins(i) \/ RunEnds(i)
TtsReader == PullsClause \/ SendsClause \/ SpeechEnds

(***************************************************************************)
(* SileroScorer.  The recurrent state is the sequence of the windows that  *)
(* went into it.                                                           *)
(***************************************************************************)
\* Debounced scores its next window, scoreSilero reads the state and runs the session.
Scores ==
    /\ scorer.awaited = 0 /\ scorer.windows < MaxWindows
    /\ LET window == scorer.windows + 1
       IN  scorer' = [scorer EXCEPT !.windows = window, !.awaited = window,
                        !.calls = @ \cup {[window |-> window, fed |-> scorer.state]}]

\* The session answers, or rejects, which leaves the state as it is.
ScoreComes(call) ==
    /\ call \in scorer.calls
    /\ \E state \in {Append(call.fed, call.window), scorer.state} :
         scorer' = [scorer EXCEPT !.calls = @ \ {call}, !.state = state,
                      !.awaited = IF @ = call.window THEN 0 ELSE @]

\* The perform that awaits the score is dropped, and the detector reset.
VadBargeIn == scorer' = [scorer EXCEPT !.awaited = 0]

(***************************************************************************)
(* The three together.                                                     *)
(***************************************************************************)
Lm(A)  == engine = "lm" /\ A /\ UNCHANGED <<engine, bargeIns, ttsPart, scorer>>
Tts(A) == engine = "tts" /\ A /\ UNCHANGED <<engine, bargeIns, lmPart, scorer>>
Vad(A) == engine = "vad" /\ A /\ UNCHANGED <<engine, bargeIns, lmPart, ttsPart>>

\* An Interrupt reaches the stage.
BargesIn ==
    /\ bargeIns < MaxBargeIns
    /\ bargeIns' = bargeIns + 1
    /\ \/ engine = "lm" /\ LmBargeIn /\ UNCHANGED <<ttsPart, scorer>>
       \/ engine = "tts" /\ TtsBargeIn /\ UNCHANGED <<lmPart, scorer>>
       \/ engine = "vad" /\ VadBargeIn /\ UNCHANGED <<lmPart, ttsPart>>
    /\ UNCHANGED engine

EnginesNext ==
    \/ Lm(StartGeneration \/ LmModel \/ LmReader)
    \/ Tts(Speaks \/ TtsModel \/ TtsReader)
    \/ Vad(Scores \/ \E call \in scorer.calls : ScoreComes(call))
    \/ BargesIn

\* The event loop runs what is ready, and a run of a model ends: within max_new_tokens, or
\* with its clause.
EnginesFair ==
    /\ WF_engines(Lm(LmModel)) /\ WF_engines(Lm(LmReader))
    /\ WF_engines(Tts(TtsModel)) /\ WF_engines(Tts(TtsReader))

EnginesSpec == EnginesInit /\ [][EnginesNext]_engines /\ EnginesFair

(***************************************************************************)
(* Properties.                                                             *)
(***************************************************************************)
\* A model runs one generation, or one synthesis, at a time, and what a barge-in leaves of
\* earlier ones costs the generation asked for next at most one token (generate.js 68: one
\* interrupted stops at its next token, one interrupted while still waiting never starts).
BargeInCostsOneToken ==
    /\ \A chain \in {gens, runs} : Cardinality({i \in DOMAIN chain : chain[i].phase = "running"}) <= 1
    /\ pull.waited <= 1

\* A reply the stage commits is the whole of what the model said, and the model ended it:
\* neither a token left in the queue, nor a generation cut short by a barge-in or by the
\* drop of another stream.
CommittedIsWhole ==
    \A reply \in committed :
        gens[reply.gen].whole /\ reply.read = gens[reply.gen].made

\* clauses.rs cuts a sentence into all of its words, at its punctuation, no clause shorter
\* than MIN_WORDS but one that is the sentence; and the silence cut off where two meet takes
\* no sound with it and leaves no more than the pause of a comma.
ClausesMakeTheSentence ==
    speech.on =>
      LET ends == speech.ends
          n == Len(speech.words)
          begin(i) == IF i = 1 THEN 1 ELSE ends[i - 1] + 1
          clip == speech.clip
          loud(s) == {i \in DOMAIN s : s[i]}
          kept == TrimJoins(clip)
      IN  /\ n > 0 => ends /= <<>> /\ Last(ends) = n
          /\ \A i \in DOMAIN ends :
               /\ begin(i) <= ends[i]
               /\ Len(ends) > 1 => ends[i] - begin(i) + 1 >= MinWords
               /\ i < Len(ends) => speech.words[ends[i]]
          /\ loud(clip.raw) /= {} =>
               /\ Cardinality(loud(kept)) = Cardinality(loud(clip.raw))
               /\ clip.before => Min(loud(kept)) <= JoinLead + 1
               /\ clip.after => Len(kept) - Max(loud(kept)) <= JoinTail
               /\ ~clip.before /\ ~clip.after => kept = clip.raw

\* A reply asked for, or a sentence to be spoken, comes to an end, whatever was given up
\* before it: no reader stays parked on a queue that will not be filled.
EngineAnswers == (pull.gen /= 0 ~> pull.gen = 0) /\ (speech.on ~> ~speech.on)

\* What KokoroTts says of itself (synthesizer.rs 43): a barge-in waits out at most the clause
\* in flight, and the rest of the sentence never starts.
BargeInCostsOneClause == speech.waited <= 1

\* What SileroScorer says of itself (scorer.rs 29): the recurrent state is never raced.
StateNeverRaced == \A call \in scorer.calls : call.fed = scorer.state
=============================================================================
