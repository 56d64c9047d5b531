------------------------------- MODULE Browser -------------------------------
(***************************************************************************)
(* The browser adapters, as one system to be checked: the engines          *)
(* (BrowserEngines), and a page's session with its audio (BrowserSession). *)
(* All of it is one thread; what a session and an engine have in common is *)
(* the event loop, which each leaves to any order.  A behaviour has one of *)
(* them; the others rest in an initial state.                              *)
(***************************************************************************)
EXTENDS BrowserEngines, BrowserSession

VARIABLE half   \* which of the two is modelled; it never changes

browserVars == <<engines, session, half>>

BrowserInit ==
    /\ half \in {"engine", "session"}
    /\ EnginesInit /\ SessionInit
    /\ half = "session" => engine = "lm"

BrowserNext ==
    \/ half = "engine" /\ EnginesNext /\ UNCHANGED <<session, half>>
    \/ half = "session" /\ SessionNext /\ UNCHANGED <<engines, half>>

\* The fairness of both.
BrowserSpec ==
    /\ BrowserInit /\ [][BrowserNext]_browserVars
    /\ EnginesFair /\ WF_session(half = "session" /\ EventLoop)

(***************************************************************************)
(* Properties.                                                             *)
(***************************************************************************)
\* A reply of the model is the stage's own and whole, and what a barge-in left running delays
\* it by a token.
RepliesAreWhole == BargeInCostsOneToken /\ CommittedIsWhole

\* Either direction of a session's audio is what was said since the last Interrupt, or since
\* the microphone was opened.
AudioIsCurrent == ScheduleIsCurrent /\ CaptureIsSafe
=============================================================================
