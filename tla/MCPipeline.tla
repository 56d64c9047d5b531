----------------------------- MODULE MCPipeline -----------------------------
(***************************************************************************)
(* A pipeline whose agent turns media into audio inside perform and        *)
(* forwards everything else (what AgentEcho, TtsStage and ResamplerStage   *)
(* do between them at the tail of the example).                            *)
(***************************************************************************)
EXTENDS Pipeline

MCAgentData ==
    [kind \in DataKinds |->
       IF kind = "media" THEN {[forward |-> FALSE, effects |-> <<"media", "media">>]}
       ELSE {Forward}]

MCAgentSystem == [kind \in SysKinds |-> {Forward}]
=============================================================================
