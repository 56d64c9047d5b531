------------------------------ MODULE AudioDevice ------------------------------
(***************************************************************************)
(* Both halves of pipecrab-audio-cpal.  They share the Signal's shape and  *)
(* nothing at run time; side says which one a behaviour is about.          *)
(***************************************************************************)
EXTENDS PlaybackDevice, CaptureDevice

VARIABLES side

deviceAndMic == <<deviceVars, capture, side>>

AudioInit == side \in {"playback", "capture"} /\ DeviceInit /\ CaptureInit

Playback(A) == side = "playback" /\ A /\ UNCHANGED <<side, capture>>
Capture(A)  == side = "capture" /\ A /\ UNCHANGED <<side, deviceVars>>

AudioNext == Playback(DeviceNext) \/ Capture(CaptureNext)

\* A task is polled when it is scheduled, a callback once begun returns, and the operating
\* system runs the stream's thread.  No device need call again.
AudioSpec ==
    /\ AudioInit /\ [][AudioNext]_deviceAndMic
    /\ WF_deviceAndMic(Playback(PumpSteps \/ Polling))
    /\ WF_deviceAndMic(Playback(DiscardRing \/ PlaySample \/ CallbackWakes))
    /\ WF_deviceAndMic(Playback(FailureWakes))
    /\ WF_deviceAndMic(Capture(Reading))
    /\ WF_deviceAndMic(Capture(WriteSample \/ CaptureWakes))
    /\ WF_deviceAndMic(Capture(StreamFailureWakes))
    /\ WF_deviceAndMic(Capture(StreamThread))

(***************************************************************************)
(* Properties.                                                             *)
(***************************************************************************)
\* Neither ring holds what it should not: after an Interrupt no stale sample is played, and of
\* the microphone's none is lost that the overrun does not count.
SamplesAreCurrent == NothingStaleInRing /\ CaptureInv

\* No wakeup is lost on either side of the bridge: ParkedResumes for a push into the
\* playback ring, CaptureResumes for a read of the capture ring.
NoWakeupLost == ParkedResumes /\ CaptureResumes
=============================================================================
