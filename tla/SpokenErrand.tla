---------------------------- MODULE SpokenErrand -----------------------------
(***************************************************************************)
(* An errand, as the example agent on Hermes speaks of it: a tool call of  *)
(* the model is published by DispatchEgress, DispatchAck adds a sentence   *)
(* of its own for the command that passes, SentenceChunker speaks that     *)
(* sentence and the model's, and the pump of this agent plays one after    *)
(* the other, looking at nothing else while it plays.                      *)
(*                                                                         *)
(*   lm --> egress --> ack --> chunker --> pump                            *)
(*                                                                         *)
(* The stages run the loop of RunLoop, as Inbox says.  The model's deltas  *)
(* are those of ToolCalls; its text and the acknowledgement's are counted  *)
(* in sentences, whatever their length.  Synthesis (ReplyPath) turns a     *)
(* sentence into one chunk, so here sentences reach the pump.              *)
(***************************************************************************)
EXTENDS SpokenText, Inbox

CONSTANTS
    CallsAlone,                                  \* whether the model never speaks before a call
    MaxErrandTurns, MaxErrandSentences, MaxBargeIns  \* bounds

ASSUME ErrandAssumption ==
    /\ CallsAlone \in BOOLEAN
    /\ MaxErrandTurns \in Nat /\ MaxErrandSentences \in Nat /\ MaxBargeIns \in Nat

VARIABLES
    speaker,   \* LmStage: perform's place, the words so far, whether it has called
    publisher, \* DispatchEgress: its inbox, the call it publishes, whether it is published
    ack,       \* DispatchAck: its inbox and the errand it is about to speak of
    voice,     \* SentenceChunker: inbox, offset, effects; dead once its assert has failed
    pump,      \* the pump: its inbox, and whether a chunk is being played
    errands    \* history, see Init

errandVars == <<speaker, publisher, ack, voice, pump, errands>>

ErrandTurns == 1..MaxErrandTurns

\* Texts: the model's, and an acknowledgement, each with the turn it belongs to.
Texted(by, turn, words) == [by |-> by, turn |-> turn, words |-> words]
Says(finality, text)    == [kind |-> finality, text |-> text]
Errand(kind, turn)      == [kind |-> kind, turn |-> turn]

ErrandInit ==
    /\ speaker = [at |-> "idle", turn |-> 0, words |-> <<>>, called |-> FALSE]
    /\ publisher = [box |-> <<>>, call |-> 0, claims |-> FALSE]
    /\ ack = [box |-> <<>>, errand |-> 0]
    /\ voice = [box |-> <<>>, emitted |-> 0, todo |-> <<>>, dead |-> FALSE]
    /\ pump = [box |-> <<>>, playing |-> FALSE]
       \* turns whose command went downstream, those whose acknowledgement an Interrupt
       \* discarded, what was played, and how many Interrupts upstream sent
    /\ errands = [claimed |-> {}, cut |-> {}, played |-> <<>>, sent |-> 0]

ToPublisher(frame) == publisher' = [publisher EXCEPT !.box = Append(@, frame)]
ToAck(frame)    == ack' = [ack EXCEPT !.box = Append(@, frame)]
ToVoice(frame)  == voice' = [voice EXCEPT !.box = Append(@, frame)]
ToPump(frame)   == pump' = [pump EXCEPT !.box = Append(@, frame)]

-----------------------------------------------------------------------------
(* The model                                                               *)

SpeakerStarts ==
    /\ speaker.at = "idle"
    /\ speaker.turn < MaxErrandTurns
    /\ speaker' = [at |-> "stream", turn |-> speaker.turn + 1, words |-> <<>>, called |-> FALSE]
    /\ ToPublisher(Errand("started", speaker.turn + 1))
    /\ UNCHANGED <<ack, voice, pump, errands>>

\* Text is not constrained until it opens a call; behind the call the grammar admits
\* nothing but the end.
SpeakerTexts ==
    /\ speaker.at = "stream"
    /\ ~speaker.called
    /\ Len(speaker.words) < MaxErrandSentences
    /\ LET words == Append(speaker.words, TRUE)
       IN  /\ speaker' = [speaker EXCEPT !.words = words]
           /\ ToPublisher(Says("partial", Texted("model", speaker.turn, words)))
    /\ UNCHANGED <<ack, voice, pump, errands>>

SpeakerCalls ==
    /\ speaker.at = "stream"
    /\ ~speaker.called
    /\ CallsAlone => speaker.words = <<>>
    /\ speaker' = [speaker EXCEPT !.called = TRUE]
    /\ ToPublisher(Errand("call", speaker.turn))
    /\ UNCHANGED <<ack, voice, pump, errands>>

\* The stream ends: the final transcript of a reply that is not empty.  (GenerationFinished
\* passes through every stage here and is left out.)
SpeakerFinal ==
    /\ speaker.at = "stream"
    /\ speaker' = [speaker EXCEPT !.at = "idle"]
    /\ IF speaker.words = <<>> THEN UNCHANGED publisher
       ELSE ToPublisher(Says("final", Texted("model", speaker.turn, speaker.words)))
    /\ UNCHANGED <<ack, voice, pump, errands>>

\* An Interrupt: the generation is dropped, the Interrupt passed on.
SpeakerInterrupt ==
    /\ errands.sent < MaxBargeIns
    /\ errands' = [errands EXCEPT !.sent = @ + 1]
    /\ speaker' = [speaker EXCEPT !.at = "idle"]
    /\ ToPublisher(Interrupt)
    /\ UNCHANGED <<ack, voice, pump>>

SpeakerSteps == SpeakerTexts \/ SpeakerCalls \/ SpeakerFinal

-----------------------------------------------------------------------------
(* DispatchEgress                                                          *)

PublisherTakes ==
    /\ publisher.call = 0
    /\ HasData(publisher.box)
    /\ IF Head(publisher.box).kind = "call"
         THEN /\ publisher' = [publisher EXCEPT !.box = Tail(@), !.call = Head(publisher.box).turn]
              /\ UNCHANGED ack
         ELSE /\ publisher' = [publisher EXCEPT !.box = Tail(@)]
              /\ ToAck(Head(publisher.box))
    /\ UNCHANGED <<speaker, voice, pump, errands>>

\* The transport takes the command, or it does not.
PublisherSends ==
    /\ publisher.call # 0 /\ ~publisher.claims
    /\ ~Interrupted(publisher.box)
    /\ \/ publisher' = [publisher EXCEPT !.claims = TRUE]
       \/ publisher' = [publisher EXCEPT !.call = 0]
    /\ UNCHANGED <<speaker, ack, voice, pump, errands>>

\* The call, which nobody downstream looks at, and then the command are sent on.
PublisherClaims ==
    /\ publisher.claims
    /\ ~Interrupted(publisher.box)
    /\ publisher' = [publisher EXCEPT !.call = 0, !.claims = FALSE]
    /\ ToAck(Errand("command", publisher.call))
    /\ errands' = [errands EXCEPT !.claimed = @ \cup {publisher.call}]
    /\ UNCHANGED <<speaker, voice, pump>>

PublisherInterrupt ==
    /\ Interrupted(publisher.box)
    /\ publisher' = [box |-> AfterInterrupt(publisher.box), call |-> 0, claims |-> FALSE]
    /\ ToAck(Interrupt)
    /\ UNCHANGED <<speaker, voice, pump, errands>>

PublisherSteps == PublisherTakes \/ PublisherSends \/ PublisherClaims \/ PublisherInterrupt

-----------------------------------------------------------------------------
(* DispatchAck                                                             *)

\* Every frame is forwarded; a new command, which nobody behind this stage looks at, with
\* an acknowledgement behind it.
AckTakes ==
    /\ ack.errand = 0
    /\ HasData(ack.box)
    /\ LET frame == Head(ack.box)
       IN  IF frame.kind = "command"
             THEN ack' = [box |-> Tail(ack.box), errand |-> frame.turn] /\ UNCHANGED voice
             ELSE ack' = [ack EXCEPT !.box = Tail(@)] /\ ToVoice(frame)
    /\ UNCHANGED <<speaker, publisher, pump, errands>>

\* acknowledge: one sentence, whether it names the errand or not.
Acknowledgement == <<TRUE>>

AckSpeaks ==
    /\ ack.errand # 0
    /\ ~Interrupted(ack.box)
    /\ ToVoice(Says("final", Texted("ack", ack.errand, Acknowledgement)))
    /\ ack' = [ack EXCEPT !.errand = 0]
    /\ UNCHANGED <<speaker, publisher, pump, errands>>

Discards(turns) == errands' = [errands EXCEPT !.cut = @ \cup turns]

AckInterrupt ==
    /\ Interrupted(ack.box)
    /\ ack' = [box |-> AfterInterrupt(ack.box), errand |-> 0]
    /\ ToVoice(Interrupt)
    /\ Discards({ack.errand} \ {0})
    /\ UNCHANGED <<speaker, publisher, pump>>

AckSteps == AckTakes \/ AckSpeaks \/ AckInterrupt

-----------------------------------------------------------------------------
(* SentenceChunker, as in ReplyPath, for the texts of two speakers.        *)

Fits(text) == voice.emitted <= Len(text.words)

\* Mutant: a partial that completed a sentence does not move the offset.
OffsetForgotten(final, ends) == IF final THEN 0 ELSE voice.emitted

\* How far the text has been voiced, behind this transcript.
Offset(final, ends) ==
    CASE final -> 0
      [] ~final /\ ends = <<>> -> voice.emitted
      [] ~final /\ ends # <<>> -> Last(ends).to

VoiceReads ==
    /\ voice.todo = <<>> /\ ~voice.dead
    /\ HasData(voice.box)
    /\ Head(voice.box).kind \in {"partial", "final"}
    /\ LET frame == Head(voice.box)
           final == frame.kind = "final"
           ends  == Sentences(frame.text, voice.emitted, final)
       IN  IF ~Fits(frame.text) THEN voice' = [voice EXCEPT !.dead = TRUE]
           ELSE voice' = [voice EXCEPT
                  !.box = Tail(@),
                  !.todo = [i \in DOMAIN ends |-> [by |-> frame.text.by] @@ ends[i]],
                  !.emitted = Offset(final, ends)]
    /\ UNCHANGED <<speaker, publisher, ack, pump, errands>>

VoiceForwards ==
    /\ voice.todo = <<>> /\ ~voice.dead
    /\ HasData(voice.box)
    /\ Head(voice.box).kind \notin {"partial", "final"}
    /\ voice' = [voice EXCEPT !.box = Tail(@),
                   !.emitted = IF Head(voice.box).kind = "started" THEN 0 ELSE @]
    /\ UNCHANGED <<speaker, publisher, ack, pump, errands>>

VoiceSpeaks ==
    /\ voice.todo # <<>>
    /\ ~Interrupted(voice.box)
    /\ ToPump([kind |-> "sentence", sentence |-> Head(voice.todo)])
    /\ voice' = [voice EXCEPT !.todo = Tail(@)]
    /\ UNCHANGED <<speaker, publisher, ack, errands>>

\* The acknowledgements among frames.
AcksIn(box) ==
    {box[i].text.turn : i \in {j \in DOMAIN box : box[j].kind = "final" /\ box[j].text.by = "ack"}}
        \cup {box[i].sentence.turn : i \in {j \in DOMAIN box :
                box[j].kind = "sentence" /\ box[j].sentence.by = "ack"}}
Ahead(box) == SubSeq(box, 1, SelectInSeq(box, IsInterrupt))

VoiceInterrupt ==
    /\ ~voice.dead
    /\ Interrupted(voice.box)
    /\ voice' = [voice EXCEPT !.box = AfterInterrupt(@), !.todo = <<>>, !.emitted = 0]
    /\ ToPump(Interrupt)
    /\ Discards(AcksIn(Ahead(voice.box))
                  \cup {voice.todo[i].turn : i \in {j \in DOMAIN voice.todo : voice.todo[j].by = "ack"}})
    /\ UNCHANGED <<speaker, publisher, ack>>

VoiceSteps == VoiceReads \/ VoiceForwards \/ VoiceSpeaks \/ VoiceInterrupt

-----------------------------------------------------------------------------
(* The pump of this agent                                                  *)

PumpIdle == ~pump.playing /\ ~voice.dead

\* recv: an Interrupt first, which discards what the device and the tail lane hold.
PumpInterrupt ==
    /\ PumpIdle
    /\ Interrupted(pump.box)
    /\ pump' = [pump EXCEPT !.box = AfterInterrupt(@)]
    /\ errands' = [errands EXCEPT !.cut = @ \cup AcksIn(Ahead(pump.box))]
    /\ UNCHANGED <<speaker, publisher, ack, voice>>

PumpTakes ==
    /\ PumpIdle
    /\ HasData(pump.box)
    /\ LET frame == Head(pump.box)
       IN  /\ pump' = [box |-> Tail(pump.box), playing |-> TRUE]
           /\ errands' = [errands EXCEPT !.played = Append(@, frame.sentence)]
    /\ UNCHANGED <<speaker, publisher, ack, voice>>

\* play returns when the ring has taken the chunk.
PumpPlayed ==
    /\ pump.playing
    /\ pump' = [pump EXCEPT !.playing = FALSE]
    /\ UNCHANGED <<speaker, publisher, ack, voice, errands>>

PumpSteps == PumpInterrupt \/ PumpTakes \/ PumpPlayed

ErrandSystem == SpeakerSteps \/ PublisherSteps \/ AckSteps \/ VoiceSteps \/ PumpSteps

\* A panic in one stage ends the driver that runs them all.
ErrandNext == ~voice.dead /\ (SpeakerStarts \/ SpeakerInterrupt \/ ErrandSystem)

ErrandSpec ==
    ErrandInit /\ [][ErrandNext]_errandVars /\ WF_errandVars(~voice.dead /\ ErrandSystem)

(***************************************************************************)
(* Properties.                                                             *)
(***************************************************************************)
\* SentenceChunker asserts that its offset lies within the text, "or a generation was
\* abandoned without an Interrupt or a GenerationStarted" (chunker.rs 114-122).
ChunkerTrustsItsInput == ~voice.dead

\* What is heard when every call comes alone ("A tool-calling turn is the call and nothing
\* else", main.rs 164): the sentences of one text follow each other from its first word on,
\* none twice, and no turn is heard again once a later one is.
ErrandInOrder ==
    /\ ChunkerTrustsItsInput
    /\ \A i \in DOMAIN errands.played :
         LET this == errands.played[i]
             same(j) == errands.played[j].turn = this.turn /\ errands.played[j].by = this.by
         IN  IF i > 1 /\ same(i - 1) THEN this.from = errands.played[i - 1].to + 1
             ELSE /\ this.from = 1
                  /\ \A j \in 1..(i - 1) : ~same(j) /\ errands.played[j].turn <= this.turn

Acknowledged(turn) ==
    \E i \in DOMAIN errands.played :
      errands.played[i].turn = turn /\ errands.played[i].by = "ack"

\* Every errand that egress has claimed was spoken of, or an Interrupt discarded what was to
\* be said of it.
ErrandsSpokenOf == \A turn \in errands.claimed : Acknowledged(turn) \/ turn \in errands.cut
=============================================================================
