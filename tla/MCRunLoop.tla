----------------------------- MODULE MCRunLoop -----------------------------
(***************************************************************************)
(* The run loop of a stage that may decide anything, on a short input.     *)
(***************************************************************************)
EXTENDS RunLoop

Decide(forwards, effects) == {[forward |-> f, effects |-> e] : f \in forwards, e \in effects}

\* An edge is answered with an Interrupt and passed on behind it; a droppable frame
\* is forwarded, or turned into two others; a durable one is forwarded and acted on,
\* or starts I/O that sends nothing.
MCOnData ==
    [kind \in DataKinds |->
       CASE kind = "edge"    -> Decide({FALSE}, {<<"interrupt", "edge">>})
         [] kind = "media"   -> Decide({TRUE}, {<<>>}) \cup Decide({FALSE}, {<<"media", "media">>})
         [] kind = "durable" -> Decide({TRUE}, {<<"durable">>}) \cup Decide({FALSE}, {<<"io">>})]

\* An Interrupt passes on or is consumed; other frames pass on with an effect.
MCOnSystem ==
    [kind \in SysKinds |->
       CASE kind = "interrupt" -> Decide({TRUE, FALSE}, {<<>>})
         [] kind = "stop"      -> Decide({TRUE}, {<<>>})
         [] kind = "other"     -> Decide({TRUE}, {<<"media">>, <<"other">>})]
=============================================================================
