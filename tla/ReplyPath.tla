------------------------------ MODULE ReplyPath ------------------------------
(***************************************************************************)
(* From a user's turn to speech: LmStage over the llama.cpp worker,        *)
(* SentenceChunker, TtsStage over the sherpa worker.                       *)
(*                                                                         *)
(*   upstream --> lm --> chunker --> tts --> tail                          *)
(*                 |                  |                                    *)
(*               llama              sherpa                                 *)
(*                                                                         *)
(* The three stages run the loop of RunLoop, and what it does to them is   *)
(* taken from Mailbox, as Inbox says; no frame of this path survives a     *)
(* flush, and an Interrupt drops the perform under way.  A send that is    *)
(* awaited may take any time: its frame is in the inbox, its sender goes   *)
(* on in a later step, or is dropped.                                      *)
(*                                                                         *)
(* Text is counted in words (SpokenText).                                  *)
(***************************************************************************)
EXTENDS LlamaWorker, SherpaSpeech, SpokenText, Inbox

CONSTANTS MaxInterrupts   \* bound: how many Interrupts upstream sends

ASSUME ReplyAssumption == MaxInterrupts \in Nat

VARIABLES
  lm,        \* LmStage: its inbox, its perform and the conversation
  chunker,   \* SentenceChunker: its inbox, its offset and the effects not yet performed
  tts,       \* TtsStage: its inbox, and whether it reads a stream
  trace      \* for the properties: what was sent, announced, committed and spoken

vars == <<llama, stream, sherpa, audio, lm, chunker, tts, trace>>

Turns == 1..MaxTurns
Words == 1..MaxWords

\* A transcript of the agent: the words of the reply to a turn, TRUE where one closes a
\* sentence.  A sentence is a final transcript of its own, named by its words.
Text == [turn : Turns, words : Seq(BOOLEAN)]
Sentence == [turn : Turns, from : Words, to : Words]
Frame == [kind : {"interrupt"}] \cup [kind : {"user", "started", "finished"}, turn : Turns]
           \cup [kind : {"partial", "final"}, text : Text]
           \cup [kind : {"sentence"}, sentence : Sentence]

Mark(kind, turn) == [kind |-> kind, turn |-> turn]

TypeOK ==
    /\ LlamaType /\ SherpaType
    /\ lm \in [box : Seq(Frame), reply : Seq(BOOLEAN), convo : Seq(Token),
               phase : {"idle", "reading", "final", "finished"}]
    /\ chunker \in [box : Seq(Frame), emitted : 0..MaxWords, todo : Seq(Sentence)]
    /\ tts \in [box : Seq(Frame), speaking : BOOLEAN]
    /\ trace \in [turns : 0..MaxTurns, interrupts : 0..MaxInterrupts,
                  finished : SUBSET Turns, committed : SUBSET Turns, cut : SUBSET Turns,
                  spoken : Seq(Sentence)]

Init ==
    /\ LlamaInit /\ SherpaInit
    /\ lm = [box |-> <<>>, reply |-> <<>>, convo |-> << <<0, 0>> >>, phase |-> "idle"]
    /\ chunker = [box |-> <<>>, emitted |-> 0, todo |-> <<>>]
    /\ tts = [box |-> <<>>, speaking |-> FALSE]
    /\ trace = [turns |-> 0, interrupts |-> 0, finished |-> {}, committed |-> {},
                cut |-> {}, spoken |-> <<>>]

ToChunker(frame) == chunker' = [chunker EXCEPT !.box = Append(@, frame)]
ToTts(frame) == tts' = [tts EXCEPT !.box = Append(@, frame)]

(***************************************************************************)
(* LmStage.                                                                *)
(***************************************************************************)
Turn == Last(lm.convo)[1]
Reply == [turn |-> Turn, words |-> lm.reply]

UserSpeaks ==
    /\ trace.turns < MaxTurns
    /\ trace' = [trace EXCEPT !.turns = @ + 1]
    /\ lm' = [lm EXCEPT !.box = Append(@, Mark("user", trace.turns + 1))]
    /\ UNCHANGED <<llama, stream, sherpa, audio, chunker, tts>>

BargeIn ==
    /\ trace.interrupts < MaxInterrupts
    /\ trace' = [trace EXCEPT !.interrupts = @ + 1]
    /\ lm' = [lm EXCEPT !.box = Append(@, Interrupt)]
    /\ UNCHANGED <<llama, stream, sherpa, audio, chunker, tts>>

\* decide_data appends the turn; perform asks for a generation of the conversation and
\* announces it.
LmTakes ==
    /\ lm.phase = "idle" /\ HasData(lm.box)
    /\ LET turn == Head(lm.box).turn
           convo == Append(lm.convo, <<turn, 0>>)
       IN  /\ lm' = [lm EXCEPT !.box = Tail(@), !.convo = convo, !.reply = <<>>,
                               !.phase = "reading"]
           /\ Generate(convo)
           /\ ToChunker(Mark("started", turn))
    /\ UNCHANGED <<sherpa, audio, tts, trace>>

\* A delta: the reply so far is sent as a partial transcript.
LmReads ==
    /\ lm.phase = "reading" /\ ~Interrupted(lm.box)
    /\ stream.items /= <<>> /\ Head(stream.items) /= "error"
    /\ LET reply == Append(lm.reply, Head(stream.items) = "close")
       IN  /\ lm' = [lm EXCEPT !.reply = reply]
           /\ ToChunker([kind |-> "partial", text |-> [turn |-> Turn, words |-> reply]])
    /\ stream' = [stream EXCEPT !.items = Tail(@)]
    /\ UNCHANGED <<llama, sherpa, audio, tts, trace>>

\* item?: perform ends, and the stream with it.
LmFails ==
    /\ lm.phase = "reading" /\ ~Interrupted(lm.box)
    /\ stream.items /= <<>> /\ Head(stream.items) = "error"
    /\ lm' = [lm EXCEPT !.phase = "idle"]
    /\ stream' = NoStream
    /\ UNCHANGED <<llama, sherpa, audio, chunker, tts, trace>>

StreamEnded == lm.phase = "reading" /\ stream.items = <<>> /\ ~stream.open

\* The final transcript of a reply that is not empty.
LmFinal ==
    /\ StreamEnded /\ lm.reply /= <<>> /\ ~Interrupted(lm.box)
    /\ lm' = [lm EXCEPT !.phase = "final"]
    /\ ToChunker([kind |-> "final", text |-> Reply])
    /\ UNCHANGED <<llama, stream, sherpa, audio, tts, trace>>

LmFinishes ==
    /\ lm.phase = "final" \/ (StreamEnded /\ lm.reply = <<>>)
    /\ ~Interrupted(lm.box)
    /\ lm' = [lm EXCEPT !.phase = "finished"]
    /\ ToChunker(Mark("finished", Turn))
    /\ trace' = [trace EXCEPT !.finished = @ \cup {Turn}]
    /\ UNCHANGED <<llama, stream, sherpa, audio, tts>>

\* The send of GenerationFinished returns; only now the assistant's turn is appended.
LmCommits ==
    /\ lm.phase = "finished" /\ ~Interrupted(lm.box)
    /\ lm' = [lm EXCEPT !.phase = "idle",
                        !.convo = @ \o [i \in 1..Len(lm.reply) |-> <<Turn, i>>]]
    /\ stream' = NoStream
    /\ trace' = [trace EXCEPT !.committed = @ \cup {Turn}]
    /\ UNCHANGED <<llama, sherpa, audio, chunker, tts>>

\* perform is dropped, the backlog flushed, the engine cancelled, the Interrupt passed on.
LmInterrupt ==
    /\ Interrupted(lm.box)
    /\ lm' = [lm EXCEPT !.box = AfterInterrupt(@), !.phase = "idle"]
    /\ CancelGenerate
    /\ ToChunker(Interrupt)
    /\ trace' = [trace EXCEPT !.cut = @ \cup trace.finished]
    /\ UNCHANGED <<sherpa, audio, tts>>

LmSteps == LmTakes \/ LmReads \/ LmFails \/ LmFinal \/ LmFinishes \/ LmCommits \/ LmInterrupt

(***************************************************************************)
(* SentenceChunker.                                                        *)
(***************************************************************************)
ChunkerIdle == chunker.todo = <<>>

\* The assert of decide_data: the offset lies in the text.
OffsetInText(text) == chunker.emitted <= Len(text.words)

\* A transcript of the agent is consumed, for one effect a sentence.
ChunkerReads ==
    /\ ChunkerIdle /\ HasData(chunker.box)
    /\ LET frame == Head(chunker.box)
       IN  /\ frame.kind \in {"partial", "final"}
           /\ OffsetInText(frame.text)
           /\ LET final == frame.kind = "final"
                  sentences == Sentences(frame.text, chunker.emitted, final)
              IN  chunker' = [chunker EXCEPT
                                !.box = Tail(@), !.todo = sentences,
                                !.emitted = IF final THEN 0
                                            ELSE IF sentences = <<>> THEN @
                                            ELSE Last(sentences).to]
    /\ UNCHANGED <<llama, stream, sherpa, audio, lm, tts, trace>>

\* Mutant: only the end of a generation and a barge-in reset the offset.
ForwardsKeepingOffset ==
    /\ ChunkerIdle /\ HasData(chunker.box)
    /\ Head(chunker.box).kind \in {"started", "finished"}
    /\ ToTts(Head(chunker.box))
    /\ chunker' = [chunker EXCEPT !.box = Tail(@)]
    /\ UNCHANGED <<llama, stream, sherpa, audio, lm, trace>>

\* Any other frame is forwarded; GenerationStarted resets the offset.
ChunkerForwards ==
    /\ ChunkerIdle /\ HasData(chunker.box)
    /\ Head(chunker.box).kind \in {"started", "finished"}
    /\ ToTts(Head(chunker.box))
    /\ chunker' = [chunker EXCEPT !.box = Tail(@),
                     !.emitted = IF Head(chunker.box).kind = "started" THEN 0 ELSE @]
    /\ UNCHANGED <<llama, stream, sherpa, audio, lm, trace>>

\* perform, once for each effect.
ChunkerEmits ==
    /\ chunker.todo /= <<>> /\ ~Interrupted(chunker.box)
    /\ ToTts([kind |-> "sentence", sentence |-> Head(chunker.todo)])
    /\ chunker' = [chunker EXCEPT !.todo = Tail(@)]
    /\ UNCHANGED <<llama, stream, sherpa, audio, lm, trace>>

ChunkerInterrupt ==
    /\ Interrupted(chunker.box)
    /\ chunker' = [chunker EXCEPT !.box = AfterInterrupt(@), !.todo = <<>>, !.emitted = 0]
    /\ ToTts(Interrupt)
    /\ UNCHANGED <<llama, stream, sherpa, audio, lm, trace>>

ChunkerSteps == ChunkerReads \/ ChunkerForwards \/ ChunkerEmits \/ ChunkerInterrupt

(***************************************************************************)
(* TtsStage.                                                               *)
(***************************************************************************)
TtsForwards ==
    /\ ~tts.speaking /\ HasData(tts.box) /\ Head(tts.box).kind /= "sentence"
    /\ tts' = [tts EXCEPT !.box = Tail(@)]
    /\ UNCHANGED <<llama, stream, sherpa, audio, lm, chunker, trace>>

TtsSpeaks ==
    /\ ~tts.speaking /\ HasData(tts.box) /\ Head(tts.box).kind = "sentence"
    /\ tts' = [tts EXCEPT !.box = Tail(@), !.speaking = TRUE]
    /\ trace' = [trace EXCEPT !.spoken = Append(@, Head(tts.box).sentence)]
    /\ Synthesize
    /\ UNCHANGED <<llama, stream, lm, chunker>>

\* A chunk of the stream is sent on; its error ends perform.
TtsHears ==
    /\ tts.speaking /\ ~Interrupted(tts.box) /\ audio.items /= <<>>
    /\ IF Head(audio.items) = "error"
       THEN tts' = [tts EXCEPT !.speaking = FALSE] /\ audio' = NoAudio
       ELSE audio' = [audio EXCEPT !.items = Tail(@)] /\ UNCHANGED tts
    /\ UNCHANGED <<llama, stream, sherpa, lm, chunker, trace>>

TtsEnds ==
    /\ tts.speaking /\ ~Interrupted(tts.box) /\ audio.items = <<>> /\ ~audio.open
    /\ tts' = [tts EXCEPT !.speaking = FALSE]
    /\ audio' = NoAudio
    /\ UNCHANGED <<llama, stream, sherpa, lm, chunker, trace>>

TtsInterrupt ==
    /\ Interrupted(tts.box)
    /\ tts' = [box |-> AfterInterrupt(tts.box), speaking |-> FALSE]
    /\ CancelSpeech
    /\ UNCHANGED <<llama, stream, lm, chunker, trace>>

TtsSteps == TtsForwards \/ TtsSpeaks \/ TtsHears \/ TtsEnds \/ TtsInterrupt

(***************************************************************************)
(* The threads.                                                            *)
(***************************************************************************)
LlamaSteps == UNCHANGED <<sherpa, audio, lm, chunker, tts, trace>> /\ LlamaThread
SherpaSteps == UNCHANGED <<llama, stream, lm, chunker, tts, trace>> /\ SherpaThread

Quiet ==
    /\ lm.box = <<>> /\ lm.phase = "idle"
    /\ chunker.box = <<>> /\ ChunkerIdle
    /\ tts.box = <<>> /\ ~tts.speaking
    /\ llama.queue = <<>> /\ ~Working /\ sherpa.queue = <<>> /\ ~Synthesizing

\* Upstream has no more to say and everything has come to rest.
Rest ==
    /\ trace.turns = MaxTurns /\ trace.interrupts = MaxInterrupts /\ Quiet
    /\ UNCHANGED vars

System == LmSteps \/ ChunkerSteps \/ TtsSteps \/ LlamaSteps \/ SherpaSteps

Next == UserSpeaks \/ BargeIn \/ System \/ Rest

\* As long as a task or a thread can go on, one of them does: less than the executor and the
\* operating system promise, and enough, as each turn is a bounded amount of work.
Spec == Init /\ [][Next]_vars /\ WF_vars(System)

(***************************************************************************)
(* Properties.                                                             *)
(***************************************************************************)
\* However a generation ends -- final transcript, failed stream, Interrupt with frames of it
\* on their way -- the chunker's offset never outruns the next text (the assert of chunker.rs
\* 117), and the sentences of a reply are spoken from its first word on, in order, none
\* twice and none left out between two others.
SpeechInOrder ==
    /\ ChunkerIdle /\ HasData(chunker.box) /\ Head(chunker.box).kind \in {"partial", "final"}
         => OffsetInText(Head(chunker.box).text)
    /\ \A i \in 1..Len(trace.spoken) :
           LET sentence == trace.spoken[i]
           IN  IF i > 1 /\ trace.spoken[i - 1].turn = sentence.turn
               THEN sentence.from = trace.spoken[i - 1].to + 1
               ELSE /\ sentence.from = 1
                    /\ \A j \in 1..(i - 1) : trace.spoken[j].turn < sentence.turn

\* A stage takes the end of a stream for the end of the reply, or of the sentence; neither
\* worker ends a stream that is still read because an epoch was passed.
EndMeansComplete ==
    /\ lm.phase /= "idle" => ~stream.cut
    /\ tts.speaking => ~audio.cut

\* The workers' share of a barge-in: what they leave of a stream, of the prompt cache and of
\* the work they still do.
WorkIsCurrent == TypeOK /\ EndMeansComplete /\ CacheIsPrompt /\ OneLateDecode

\* Its last word is spoken, and with it, by SpeechInOrder, all of them.
SpokenWhole(turn) ==
    LET words == {i \in Words : \E k \in 1..Len(lm.convo) : lm.convo[k] = <<turn, i>>}
    IN  words = {} \/ \E k \in 1..Len(trace.spoken) :
                         trace.spoken[k].turn = turn /\ trace.spoken[k].to = Max(words)

\* A finished reply has entered the conversation and is spoken to its last word, or an
\* Interrupt came after it was announced: GenerationFinished is sent before the commit and
\* promises neither (stage.rs 277).
FinishedIsSpoken ==
    \A turn \in Turns :
        turn \in trace.finished ~>
            turn \in trace.cut \/ (turn \in trace.committed /\ SpokenWhole(turn))
=============================================================================
