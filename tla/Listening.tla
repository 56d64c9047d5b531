------------------------------ MODULE Listening ------------------------------
(***************************************************************************)
(* What becomes of the user's voice, as one system to be checked: the      *)
(* resampler (Resampling), the voice-activity gate (VadGate), speech to    *)
(* text over the worker threads (SpeechToText), and what an offline worker *)
(* makes of an utterance (OfflineTranscript).  Each promises something of  *)
(* its own about the frames it is given, so a behaviour has one of them;   *)
(* the others rest in an initial state.                                    *)
(***************************************************************************)
EXTENDS SpeechToText, VadGate, OfflineTranscript, Resampling

VARIABLE part   \* which of them is modelled; it never changes

listeningVars == <<resamplerVars, vars, sttVars, transcriptVars, part>>

Resting ==
    /\ part # "stt" => caller = "anyone" /\ engine = "vad"
    /\ part # "offline" => spoken = <<>> /\ windows = CHOOSE w \in Configured : TRUE

ListeningInit ==
    /\ part \in {"resampler", "gate", "stt", "offline"}
    /\ ResamplerInit /\ Init /\ SttInit /\ TranscriptInit
    /\ Resting

ListeningNext ==
    \/ part = "resampler" /\ ResamplerNext /\ UNCHANGED <<vars, sttVars, transcriptVars, part>>
    \/ part = "gate" /\ Next /\ UNCHANGED <<resamplerVars, sttVars, transcriptVars, part>>
    \/ part = "stt" /\ SttNext /\ UNCHANGED <<resamplerVars, vars, transcriptVars, part>>
    \/ part = "offline" /\ DecodesWindow /\ UNCHANGED <<resamplerVars, vars, sttVars, part>>

\* The fairness of SpeechToText.
ListeningSpec ==
    /\ ListeningInit /\ [][ListeningNext]_listeningVars
    /\ WF_sttVars(part = "stt" /\ Worker /\ UNCHANGED <<caller, stageVars>>)
    /\ WF_sttVars(part = "stt" /\ (Return \/ Joined) /\ UNCHANGED <<caller, stageVars>>)
=============================================================================
