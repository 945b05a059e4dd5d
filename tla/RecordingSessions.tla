-------------------------- MODULE RecordingSessions ---------------------------
(***************************************************************************)
(* What the recording agent promises the main program that uses it: one    *)
(* recording at a time, COMPLETED for a recording once and only when its   *)
(* file is closed, and no recorder kept in memory that was thrown away     *)
(* with its file open.  RecordAgent implements it.                         *)
(***************************************************************************)
EXTENDS Naturals

CONSTANT Recorders

VARIABLE session    \* per recorder, how far its recording got

Stage == {"none", "recording", "saved", "told", "abandoned", "disposed"}

SessionsInit == session = [r \in Recorders |-> "none"]

Move(r, from, to) ==
    /\ session[r] \in from
    /\ session' = [session EXCEPT ![r] = to]

\* The file is opened, while no other recording has one open.
Begin(r) ==
    /\ \A q \in Recorders : session[q] # "recording"
    /\ Move(r, {"none"}, "recording")

\* All that was captured is in the file, which is closed.
Save(r) == Move(r, {"recording"}, "saved")

\* COMPLETED is sent.
Tell(r) == Move(r, {"saved"}, "told")

\* The encoder failed: the file is closed where it was.
Abandon(r) == Move(r, {"recording"}, "abandoned")

\* The recorder is freed, after it completed or without having recorded.
Dispose(r) == Move(r, {"none", "told"}, "disposed")

SessionsNext ==
    \E r \in Recorders : Begin(r) \/ Save(r) \/ Tell(r) \/ Abandon(r) \/ Dispose(r)

SessionsSpec == SessionsInit /\ [][SessionsNext]_session

===============================================================================
