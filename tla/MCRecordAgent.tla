---------------------------- MODULE MCRecordAgent -----------------------------
(* Instances of RecordAgent for TLC, and what it implements.               *)
EXTENDS RecordAgent

\* How far each recording got, as RecordingSessions sees it.
Session(r) ==
    IF life[r] = "deleted" THEN "disposed"
    ELSE IF FileOpen(r) THEN "recording"
    ELSE IF phase[r] = "idle" THEN "none"
    ELSE IF phase[r] = "broken" THEN "abandoned"
    ELSE IF phase[r] = "saved" THEN "saved"
    ELSE "told"

RS == INSTANCE RecordingSessions WITH session <- [r \in Recorders |-> Session(r)]

\* To the main program the agent is a row of recordings that never overlap,
\* each told complete once, after its file is closed (MainForm.hpp:142-155).
ImplementsSessions == RS!SessionsSpec

===============================================================================
