-------------------------- MODULE OfflineTranscript --------------------------
(***************************************************************************)
(* OfflineSherpaStt::end_utterance (pipecrab-stt-sherpa): the buffer of an *)
(* utterance is decoded in windows that overlap, and the text of each      *)
(* window is merged into the transcript, words at the seam heard twice     *)
(* being told by their likeness.                                           *)
(*                                                                         *)
(* The words of an utterance are numbered, all different, and long enough  *)
(* (four characters, also of a part) to be told by their beginning.        *)
(* The recogniser is external: it hears the words that lie wholly in its   *)
(* window, perhaps the beginning of one cut off by the window's end, and   *)
(* nothing of one cut off by its start; or it fails.                       *)
(***************************************************************************)
EXTENDS Naturals, Sequences, SequencesExt

CONSTANTS
    Granularity,       \* how finely a Duration divides the time of a sample
    WindowDurations,   \* the chunk_duration and chunk_overlap one may configure
    OverlapDurations,
    MaxSpoken,         \* bound on the words of an utterance
    WordLengths,       \* how many samples a word takes, and the silence before it
    Gaps

ASSUME WindowsAssumption == Granularity \in Nat \ {0}

VARIABLES
    windows,      \* Chunking: [samples, overlap]
    spoken,       \* the utterance: a sequence of [gap, len]
    from,         \* where the next window starts
    transcript,   \* a sequence of tokens, each the words written without a space between
    final,        \* the final event is out
    lossy         \* history: a window has failed

transcriptVars == <<windows, spoken, from, transcript, final, lossy>>

\* chunk_samples: the durations are compared, then rounded down.
Samples(duration) == duration \div Granularity
Configured ==
    {[samples |-> Samples(w), overlap |-> Samples(o)] :
        <<w, o>> \in {c \in WindowDurations \X OverlapDurations :
                         c[2] < c[1] /\ Samples(c[1]) > 0}}

TranscriptInit ==
    /\ windows \in Configured
    /\ spoken \in UNION {[1..n -> [gap : Gaps, len : WordLengths]] : n \in 0..MaxSpoken}
    /\ from = 0
    /\ transcript = <<>>
    /\ final = FALSE /\ lossy = FALSE

\* Where word k ends, and how long the buffer is.
EndOf(k) == FoldLeft(LAMBDA t, w : t + w.gap + w.len, 0, SubSeq(spoken, 1, k))
StartOf(k) == EndOf(k) - spoken[k].len
BufferLength == EndOf(Len(spoken))

WholeWord(k) == [word |-> k, whole |-> TRUE]
PartOf(k) == [word |-> k, whole |-> FALSE]

\* What the recogniser may make of a window.
Hypotheses(start, end) ==
    LET inside == {k \in DOMAIN spoken : StartOf(k) >= start /\ EndOf(k) <= end}
        cut == {k \in DOMAIN spoken : StartOf(k) >= start /\ StartOf(k) < end /\ EndOf(k) > end}
        heard == SetToSortSeq(inside, <)
        words == [i \in DOMAIN heard |-> <<WholeWord(heard[i])>>]
    IN  {words} \cup {Append(words, <<PartOf(k)>>) : k \in cut}

\* A token begins with another.
BeginsWith(token, other) ==
    LET n == Len(other)
    IN  /\ n <= Len(token)
        /\ \A i \in 1..n - 1 : token[i] = other[i]
        /\ other[n] \in {token[n], PartOf(token[n].word)}

\* normalized_tokens_match, and the longer of two that do.
Alike(left, right) == BeginsWith(left, right) \/ BeginsWith(right, left)
Longer(left, right) == IF BeginsWith(right, left) THEN right ELSE left

\* The longest end of left that is the beginning of right.
SeamOf(left, right) ==
    LET seams == {n \in 0..Min({Len(left), Len(right)}) :
                    \A i \in 1..n : Alike(left[Len(left) - n + i], right[i])}
    IN  Max(seams)

\* merge_unspaced_transcript: two texts without a space are one token, joined where the
\* end of the first is the beginning of the second.
Glued(left, right) ==
    IF Last(left) \in {right[1], PartOf(right[1].word)} THEN Front(left) \o right
    ELSE left \o right

\* merge_transcript
Merged(left, right) ==
    LET n == SeamOf(left, right)
        kept == Len(left) - n
    IN  CASE right = <<>> -> left
          [] left = <<>> -> right
          [] Len(left) = 1 /\ Len(right) = 1 -> <<Glued(left[1], right[1])>>
          [] OTHER ->
               SubSeq(left, 1, kept)
                 \o [i \in 1..n |-> Longer(left[kept + i], right[i])]
                 \o SubSeq(right, n + 1, Len(right))

\* Mutant: the windows lie side by side.
NextWindowBeside(end) == end

NextWindow(end) == end - windows.overlap

\* One window of the loop; a failure counts as an empty text.
DecodesWindow ==
    /\ ~final
    /\ LET end == Min({BufferLength, from + windows.samples})
       IN  /\ \/ /\ \E heard \in Hypotheses(from, end) : transcript' = Merged(transcript, heard)
                 /\ UNCHANGED lossy
              \/ lossy' = TRUE /\ UNCHANGED transcript
           /\ IF end = BufferLength THEN final' = TRUE /\ UNCHANGED from
              ELSE from' = NextWindow(end) /\ UNCHANGED final
    /\ UNCHANGED <<windows, spoken>>

TranscriptSpec == TranscriptInit /\ [][DecodesWindow]_transcriptVars /\ WF_transcriptVars(DecodesWindow)

(***************************************************************************)
(* Properties.                                                             *)
(***************************************************************************)
\* What README.md says of the offline flow: windows are merged by the words they repeat, so
\* the final says every word once, whole and in order, wherever the utterance was cut, as
\* long as none of its words is longer than the overlap.
RepeatsAreMerged ==
    /\ final /\ ~lossy
    /\ \A k \in DOMAIN spoken : spoken[k].len <= windows.overlap
    => FlattenSeq(transcript) = [k \in DOMAIN spoken |-> WholeWord(k)]

\* It does, unless two texts of one word each have met and were taken for a language that
\* is written without spaces.
TranscriptIsWhole == (\A i \in DOMAIN transcript : Len(transcript[i]) = 1) => RepeatsAreMerged

\* An utterance that has ended becomes a final, with every window a user may configure.
FinalComes == <>final
=============================================================================
