------------------------------ MODULE ToolCalls ------------------------------
(***************************************************************************)
(* What the llama.cpp worker makes of the text it samples when it has been *)
(* given tools: CallInterceptor parts the decoded pieces, which end        *)
(* anywhere, into text to speak and the bodies of tool calls, and emit     *)
(* turns each into a delta of the stream.                                  *)
(*                                                                         *)
(* The delimiters are shorter than those of ChatMlXml and overlap as they  *)
(* do: a prefix of the one may begin the other, or be spoken after all.    *)
(***************************************************************************)
EXTENDS Naturals, Sequences, SequencesExt

CONSTANTS MaxPiece, MaxChars   \* bounds: characters in a token's piece, and in a generation

ASSUME PieceAssumption == MaxPiece \in Nat /\ MaxChars \in Nat

VARIABLES
    sampled,      \* history: the characters decoded in this generation
    interceptor,  \* CallInterceptor: [buffer, capturing]
    deltas,       \* what was emitted; adjacent text is one run
    generation    \* "running", "ended" by itself, or "stopped"
toolVars == <<sampled, interceptor, deltas, generation>>

OpenTag   == <<"<", "t", "t">>
CloseTag  == <<"<", "/">>
Alphabet  == {"<", "t", "/"}
Pieces    == UNION {[1..n -> Alphabet] : n \in 1..MaxPiece}

Spoken(chars) == [kind |-> "text", chars |-> chars]
Called(body)  == [kind |-> "call", chars |-> body]
Failed        == [kind |-> "error", chars |-> <<>>]

ToolInit ==
    /\ sampled = <<>>
    /\ interceptor = [buffer |-> <<>>, capturing |-> FALSE]
    /\ deltas = <<>>
    /\ generation = "running"

-----------------------------------------------------------------------------
\* str::find, 0 for None.
Find(chars, tag) ==
    LET at == {i \in 1..Len(chars) : IsPrefix(tag, SubSeq(chars, i, Len(chars)))}
    IN  IF at = {} THEN 0 ELSE CHOOSE i \in at : \A j \in at : i <= j

Before(chars, i) == SubSeq(chars, 1, i - 1)
Behind(chars, i) == SubSeq(chars, i, Len(chars))

\* Mutant: text goes out as it comes.
WithholdsNothing(chars) == 0

\* withheld: the longest trailing run that is a proper prefix of the open delimiter.
Withheld(chars) ==
    LET fits == {n \in 1..(Len(OpenTag) - 1) : IsSuffix(SubSeq(OpenTag, 1, n), chars)}
    IN  IF fits = {} THEN 0 ELSE CHOOSE n \in fits : \A m \in fits : m <= n

Puts(state, buffer, capturing, items) ==
    [buffer |-> buffer, capturing |-> capturing, out |-> state.out \o items]

\* One turn of push's loop; where push returns it changes nothing any more.
Cuts(state) ==
    LET buffer == state.buffer
        end    == Find(buffer, CloseTag)
        start  == Find(buffer, OpenTag)
        cut    == Len(buffer) - Withheld(buffer) + 1
    IN  CASE state.capturing /\ end = 0 -> state
          [] state.capturing /\ end # 0 ->
               Puts(state, Behind(buffer, end + Len(CloseTag)), FALSE, <<Called(Before(buffer, end))>>)
          [] ~state.capturing /\ start # 0 ->
               Puts(state, Behind(buffer, start + Len(OpenTag)), TRUE,
                    IF start > 1 THEN <<Spoken(Before(buffer, start))>> ELSE <<>>)
          [] OTHER ->
               Puts(state, Behind(buffer, cut), FALSE,
                    IF cut > 1 THEN <<Spoken(Before(buffer, cut))>> ELSE <<>>)

\* push
Pushed(state, piece) ==
    LET begin == [buffer |-> state.buffer \o piece, capturing |-> state.capturing, out |-> <<>>]
        after[n \in 0..(Len(begin.buffer) + 1)] == IF n = 0 THEN begin ELSE Cuts(after[n - 1])
    IN  after[Len(begin.buffer) + 1]

\* emit: a body that does not parse, and those in bad do not, is an error that stops the turn.
Emitted(to, items, bad) ==
    FoldLeft(LAMBDA sent, item :
        CASE sent # <<>> /\ Last(sent) = Failed -> sent
          [] item.kind = "call" /\ item.chars \in bad -> Append(sent, Failed)
          [] item.kind = "text" /\ sent # <<>> /\ Last(sent).kind = "text" ->
               Append(Front(sent), Spoken(Last(sent).chars \o item.chars))
          [] OTHER -> Append(sent, item), to, items)

\* A token that does not end the generation.
Samples ==
    /\ generation = "running"
    /\ \E piece \in Pieces, parses \in BOOLEAN :
         /\ Len(sampled) + Len(piece) <= MaxChars
         /\ LET p    == Pushed(interceptor, piece)
                bad  == IF parses THEN {} ELSE {p.out[i].chars : i \in DOMAIN p.out}
                sent == Emitted(deltas, p.out, bad)
            IN  /\ sampled' = sampled \o piece
                /\ interceptor' = [buffer |-> p.buffer, capturing |-> p.capturing]
                /\ deltas' = sent
                /\ generation' = IF sent # <<>> /\ Last(sent) = Failed THEN "stopped" ELSE "running"

\* The end of the generation, or of max_tokens: finish.
Finishes ==
    /\ generation = "running"
    /\ generation' = "ended"
    /\ deltas' = IF interceptor.capturing THEN Append(deltas, Failed)
                 ELSE IF interceptor.buffer # <<>>
                   THEN Emitted(deltas, <<Spoken(interceptor.buffer)>>, {}) ELSE deltas
    /\ interceptor' = [interceptor EXCEPT !.buffer = <<>>]
    /\ UNCHANGED sampled

\* The epoch has moved on, or nobody reads the stream: no tail is flushed.
IsCutOff ==
    /\ generation = "running"
    /\ generation' = "stopped"
    /\ UNCHANGED <<sampled, interceptor, deltas>>

ToolNext == Samples \/ Finishes \/ IsCutOff

ToolSpec == ToolInit /\ [][ToolNext]_toolVars

(***************************************************************************)
(* Properties.                                                             *)
(***************************************************************************)
Written(delta) == IF delta.kind = "call" THEN OpenTag \o delta.chars \o CloseTag ELSE delta.chars
Reassembled == FlattenSeq([i \in DOMAIN deltas |-> Written(deltas[i])])
                \o (IF interceptor.capturing THEN OpenTag ELSE <<>>) \o interceptor.buffer

\* However a generation's characters are cut into tokens: nothing of a call is spoken, not
\* even the first piece of its delimiter, and nothing spoken is taken into a call; nothing
\* is held back but what may still become a delimiter, and at the end nothing at all, unless
\* the generation ended inside a call and says so.
SplitIsExact ==
    generation # "stopped" =>
      /\ (\A i \in DOMAIN deltas : deltas[i] # Failed) => Reassembled = sampled
      /\ \A i \in DOMAIN deltas :
           Find(deltas[i].chars, IF deltas[i].kind = "call" THEN CloseTag ELSE OpenTag) = 0
      /\ IF interceptor.capturing THEN Find(interceptor.buffer, CloseTag) = 0
         ELSE IsStrictPrefix(interceptor.buffer, OpenTag)
      /\ generation = "ended" /\ interceptor.capturing => Last(deltas) = Failed
=============================================================================
