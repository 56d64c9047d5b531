----------------------------- MODULE SpokenText ------------------------------
(***************************************************************************)
(* What SentenceChunker makes of a transcript.  A text is counted in       *)
(* words: a record of the turn and of words, TRUE where one closes a       *)
(* sentence; a sentence is complete at such a word when something follows  *)
(* it.  The chunker of ReplyPath and that of SpokenErrand read by it.      *)
(***************************************************************************)
EXTENDS Naturals, Sequences, SequencesExt

\* The ends of the sentences complete in a text: a word must follow.
Ends(words) == {i \in 1..(Len(words) - 1) : words[i]}

\* Mutant: a final transcript says nothing that a partial before it did not.
SentencesWithoutTail(text, from, final) ==
    LET cut[n \in 0..Len(text.words)] ==
          IF n = 0 THEN <<>>
          ELSE IF n \in Ends(text.words) /\ n > from
          THEN Append(cut[n - 1], [turn |-> text.turn, to |-> n,
                                   from |-> (IF cut[n - 1] = <<>> THEN from ELSE Last(cut[n - 1]).to) + 1])
          ELSE cut[n - 1]
    IN  cut[Len(text.words)]

\* drain_sentences, and the flush of a final transcript: what of the text is complete
\* behind its first words.
Sentences(text, from, final) ==
    LET ends == Ends(text.words) \cup (IF final THEN {Len(text.words)} ELSE {})
        cut[n \in 0..Len(text.words)] ==
          IF n = 0 THEN <<>>
          ELSE IF n \in ends /\ n > from
          THEN Append(cut[n - 1], [turn |-> text.turn, to |-> n,
                                   from |-> (IF cut[n - 1] = <<>> THEN from ELSE Last(cut[n - 1]).to) + 1])
          ELSE cut[n - 1]
    IN  cut[Len(text.words)]
=============================================================================
