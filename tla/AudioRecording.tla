---------------------------- MODULE AudioRecording ----------------------------
(***************************************************************************)
(* What a recording promises about the sound: packets are drawn for the    *)
(* file in the order they were heard, each once, and a recording that      *)
(* completes has drawn all of them, whatever was still buffered when it    *)
(* was stopped.  One that is drawn is written, or an error was reported.   *)
(* A source that cannot be stopped at once (exact is FALSE) may be heard   *)
(* once more.  DesktopRecorder implements it.                              *)
(***************************************************************************)
EXTENDS Naturals, Sequences

VARIABLES
    stage,      \* "idle", "recording", "stopping", "complete" or "failed"
    exact,      \* does stopping the source wait for its last packet
    heard,      \* number of packets heard
    drawn,      \* the packets drawn, by number, each with whether it was written
    errors      \* number of failed writes reported

recVars == <<stage, exact, heard, drawn, errors>>

RecInit ==
    /\ stage = "idle"
    /\ exact \in BOOLEAN
    /\ heard = 0
    /\ drawn = <<>>
    /\ errors = 0

Begin ==
    /\ stage = "idle"
    /\ stage' = "recording"
    /\ UNCHANGED <<exact, heard, drawn, errors>>

\* A source that stops exactly is heard only while recording, or before the
\* recording has been accepted.
Hear ==
    /\ exact => stage \in {"idle", "recording", "failed"}
    /\ heard' = heard + 1
    /\ UNCHANGED <<stage, exact, drawn, errors>>

Draw(written) ==
    /\ stage \in {"recording", "stopping"}
    /\ Len(drawn) < heard
    /\ drawn' = Append(drawn, [number |-> Len(drawn) + 1, written |-> written])
    /\ UNCHANGED <<stage, exact, heard>>

Keep == Draw(TRUE) /\ UNCHANGED errors

\* A packet is dropped only with a report.
Drop == Draw(FALSE) /\ errors' = errors + 1

\* A picture could not be written.
Miss ==
    /\ stage \in {"recording", "stopping"}
    /\ errors' = errors + 1
    /\ UNCHANGED <<stage, exact, heard, drawn>>

\* The device was lost: another source takes over.
Degrade ==
    /\ exact' = FALSE
    /\ UNCHANGED <<stage, heard, drawn, errors>>

Stop ==
    /\ stage = "recording"
    /\ stage' = "stopping"
    /\ UNCHANGED <<exact, heard, drawn, errors>>

Complete ==
    /\ stage = "stopping"
    /\ exact => Len(drawn) = heard
    /\ stage' = "complete"
    /\ UNCHANGED <<exact, heard, drawn, errors>>

Fail ==
    /\ stage \in {"recording", "stopping"}
    /\ stage' = "failed"
    /\ UNCHANGED <<exact, heard, drawn, errors>>

RecNext == Begin \/ Hear \/ Keep \/ Drop \/ Miss \/ Degrade \/ Stop \/ Complete \/ Fail

RecSpec == RecInit /\ [][RecNext]_recVars

===============================================================================
