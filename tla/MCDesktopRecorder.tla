-------------------------- MODULE MCDesktopRecorder ---------------------------
(* Instances of DesktopRecorder for TLC, and what it implements.           *)
EXTENDS DesktopRecorder

MCLeftover == {-1, 0, 1}

\* How far the one recording of a recorder got, as AudioRecording sees it.
Stage ==
    IF failures > 0 THEN "failed"
    ELSE IF completions > 0 THEN "complete"
    ELSE IF ~is_started THEN "idle"
    ELSE IF state = "Stoped" THEN "stopping" ELSE "recording"

AR == INSTANCE AudioRecording
        WITH stage <- Stage, exact <- (source = "mic"), heard <- index,
             drawn <- drawn, errors <- errors

\* Whatever the four threads do, packets are drawn for the file in the order of
\* their capture, none is left out, each is written unless an error was reported
\* for it, and a recording from a microphone completes only when every packet
\* captured before stop() was drawn
\* (VideoEncoder.hpp:148-175, doc/non-functional/README.md:17-19).
ImplementsAudioRecording == AR!RecSpec

===============================================================================
