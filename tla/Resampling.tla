----------------------------- MODULE Resampling ------------------------------
(***************************************************************************)
(* ResamplerStage over RubatoSincResampler (pipecrab-audio): a stage that  *)
(* converts each chunk in decide_data and sends the result in perform.     *)
(* Its state, the pending frames of an incomplete block and the filter's   *)
(* history, belongs to one session: the audio of one format between two    *)
(* Interrupts.                                                             *)
(*                                                                         *)
(* Audio is its frames, numbered as they are captured.  The sinc filter is *)
(* external: the output of a block is the block, and the frames the filter *)
(* had seen before it.                                                     *)
(***************************************************************************)
EXTENDS Naturals, Sequences, SequencesExt

CONSTANTS
    Rates, ChannelCounts,  \* what captured chunks come in
    OutRate, OutChannels,  \* output_format
    ChunkLengths,          \* frames in a chunk
    BlockFrames,           \* BLOCK_FRAMES
    MaxCaptured            \* bound: frames captured

ASSUME FormatAssumption ==
    /\ Rates \subseteq Nat \ {0} /\ ChannelCounts \subseteq Nat \ {0}
    /\ OutRate \in Nat \ {0} /\ OutChannels \in Nat \ {0}
    /\ ChunkLengths \subseteq Nat
    /\ BlockFrames \in Nat \ {0}
    /\ MaxCaptured \in Nat

VARIABLES
    currentInput,  \* the format of the last chunk, or NoFormat
    rateState,     \* RateState, or NoRate: what it converts, history and pending frames
    emission,    \* perform: "idle", "sending" a converted chunk, "failing", "ended"
    converted,     \* the chunk decide_data has handed to perform
    captured,      \* how many frames have come in
    session        \* history: the frames before it, and the chunks it has sent
resamplerVars == <<currentInput, rateState, emission, converted, captured, session>>

Formats      == [rate : Rates, channels : ChannelCounts]
NoFormat     == [rate |-> 0, channels |-> 0]
NoRate       == [rate |-> 0, channels |-> 0, history |-> <<>>, pending |-> <<>>]
NoChunk      == [frames |-> <<>>, after |-> <<>>]
NewSession(before) == [before |-> before, sent |-> <<>>]

ResamplerInit ==
    /\ currentInput = NoFormat
    /\ rateState = NoRate
    /\ emission = "idle"
    /\ converted = NoChunk
    /\ captured = 0
    /\ session = NewSession(0)

-----------------------------------------------------------------------------
\* Channels are converted one by one if there are as many as in the output, and as their
\* average otherwise.
WorkingChannels(format) == IF format.channels = OutChannels THEN format.channels ELSE 1

NewRate(format) == [NoRate EXCEPT !.rate = format.rate, !.channels = WorkingChannels(format)]

\* Mutant: the filter is reset and the incomplete block stays.
ForgettingHistory(rate) == [rate EXCEPT !.history = <<>>]

\* RateState::reset; there may be none yet.
Forgotten(rate) == [rate EXCEPT !.history = <<>>, !.pending = <<>>]

\* resample's first step: audio of another format begins a session of its own.
Prepared(format) == IF currentInput = format THEN rateState ELSE Forgotten(rateState)

\* The rate state a conversion from this format runs on.
Matching(rate, format) ==
    IF rate.rate = format.rate /\ rate.channels = WorkingChannels(format)
      THEN rate ELSE NewRate(format)

\* The loop over whole blocks: what it takes from the pending frames, and what it leaves.
WholeBlocks(frames) == (Len(frames) \div BlockFrames) * BlockFrames
Taken(frames) == SubSeq(frames, 1, WholeBlocks(frames))
Left(frames)  == SubSeq(frames, WholeBlocks(frames) + 1, Len(frames))

\* Of the same rate a chunk is passed on, its channels remixed.
Passes(format) == format.rate = OutRate

\* An empty result is no chunk, unless nothing was to be done.
Sends(format, frames) ==
    format = [rate |-> OutRate, channels |-> OutChannels] \/ frames # <<>>

\* decide_data of a chunk of this format.
Convert(format, frames) ==
    LET prepared == Prepared(format)
        state    == IF Passes(format) THEN prepared ELSE Matching(prepared, format)
        waiting  == state.pending \o frames
        chunk    == IF Passes(format) THEN [frames |-> frames, after |-> <<>>]
                    ELSE [frames |-> Taken(waiting), after |-> state.history]
    IN  /\ rateState' = IF Passes(format) THEN state
                        ELSE [state EXCEPT !.history = @ \o Taken(waiting), !.pending = Left(waiting)]
        /\ IF Sends(format, chunk.frames)
             THEN emission' = "sending" /\ converted' = chunk
             ELSE UNCHANGED <<emission, converted>>

Captures(format, len) ==
    /\ emission = "idle"
    /\ captured + len <= MaxCaptured
    /\ captured' = captured + len
    /\ currentInput' = format
    /\ session' = IF currentInput \in {NoFormat, format} THEN session ELSE NewSession(captured)

DecideAudio ==
    \E format \in Formats, len \in ChunkLengths :
      /\ Captures(format, len)
      /\ Convert(format, [i \in 1..len |-> captured + i])

\* RateState::new refuses the rate, or the filter a block: those before it were consumed
\* for nothing.
DecideFails ==
    /\ \E format \in Formats, len \in ChunkLengths :
         /\ ~Passes(format)
         /\ Captures(format, len)
         /\ LET state   == Matching(Prepared(format), format)
                waiting == state.pending \o [i \in 1..len |-> captured + i]
            IN  \/ state # Prepared(format) /\ rateState' = Prepared(format)
                \/ \E k \in 1..(Len(waiting) \div BlockFrames) :
                     rateState' = [state EXCEPT
                       !.history = @ \o SubSeq(waiting, 1, (k - 1) * BlockFrames),
                       !.pending = SubSeq(waiting, k * BlockFrames + 1, Len(waiting))]
    /\ emission' = "failing"
    /\ UNCHANGED converted

\* validate_chunk: a rate or a channel count of zero, or a torn frame.
RejectChunk ==
    /\ emission = "idle"
    /\ emission' = "failing"
    /\ UNCHANGED <<currentInput, rateState, converted, captured, session>>

PerformSends ==
    /\ emission = "sending"
    /\ emission' = "idle"
    /\ session' = [session EXCEPT !.sent = Append(@, converted)]
    /\ converted' = NoChunk
    /\ UNCHANGED <<currentInput, rateState, captured>>

\* Any error is fatal.
PerformFails ==
    /\ emission = "failing"
    /\ emission' = "ended"
    /\ UNCHANGED <<currentInput, rateState, converted, captured, session>>

\* An Interrupt drops perform, then decide_system resets the backend.
ResetByInterrupt ==
    /\ emission # "ended"
    /\ currentInput' = NoFormat
    /\ rateState' = Forgotten(rateState)
    /\ emission' = "idle"
    /\ converted' = NoChunk
    /\ session' = NewSession(captured)
    /\ UNCHANGED captured

ResamplerNext ==
    \/ DecideAudio \/ DecideFails \/ RejectChunk
    \/ PerformSends \/ PerformFails \/ ResetByInterrupt

ResamplerSpec == ResamplerInit /\ [][ResamplerNext]_resamplerVars

(***************************************************************************)
(* Properties.                                                             *)
(***************************************************************************)
Chunks == IF emission = "sending" THEN Append(session.sent, converted) ELSE session.sent
FramesOf(chunks) == FlattenSeq([i \in DOMAIN chunks |-> chunks[i].frames])

\* reset "must discard buffered input and filter history so audio processed afterward is
\* independent of audio processed before": a session's chunks and the incomplete block
\* behind them are its frames, each once and in order, however they were cut into chunks
\* and whatever formats and Interrupts came before, and the filter has seen, at every chunk
\* it converts, those of the same session before it and no others.
SessionsAreIndependent ==
    emission \in {"idle", "sending"} =>
      /\ FramesOf(Chunks) \o rateState.pending
           = [i \in 1..(captured - session.before) |-> session.before + i]
      /\ Len(rateState.pending) < BlockFrames
      /\ currentInput # NoFormat /\ ~Passes(currentInput) =>
           \A i \in DOMAIN Chunks : Chunks[i].after = FramesOf(SubSeq(Chunks, 1, i - 1))

-----------------------------------------------------------------------------
(* Why they are: what the filter has seen is what the session has sent.    *)

ChunkRecord == [frames : Seq(Nat), after : Seq(Nat)]
ResamplerType ==
    /\ currentInput \in Formats \cup {NoFormat}
    /\ rateState \in [rate : Nat, channels : Nat, history : Seq(Nat), pending : Seq(Nat)]
    /\ emission \in {"idle", "sending", "failing", "ended"}
    /\ converted \in ChunkRecord
    /\ captured \in Nat
    /\ session \in [before : 0..captured, sent : Seq(ChunkRecord)]

\* Between the blocks it converts of a session, the filter is set for the session's format
\* and has seen what was sent of it; it has seen nothing when there is nothing to convert.
Filtering == currentInput # NoFormat /\ ~Passes(currentInput)
FilterFollowsSession ==
    emission \in {"idle", "sending"} =>
      /\ Filtering => /\ rateState.rate = currentInput.rate
                      /\ rateState.channels = WorkingChannels(currentInput)
                      /\ rateState.history = FramesOf(Chunks)
      /\ ~Filtering => rateState.history = <<>> /\ rateState.pending = <<>>
      /\ currentInput = NoFormat => emission = "idle" /\ session = NewSession(captured)

ResamplerInv == ResamplerType /\ SessionsAreIndependent /\ FilterFollowsSession
=============================================================================
