----------------------------- MODULE MCVideoQueue -----------------------------
(***************************************************************************)
(* VideoQueue on a small instance, one bitmap each in memory, beyond the   *)
(* limit and in a file, and what it implements.                            *)
(***************************************************************************)
EXTENDS VideoQueue

\* Two bitmaps were written to one file.
SomeShared == \E n \in Second : \E s, u \in spilled[n] : s # u

\* The bitmaps FrameQueue holds and delivers: where an entry is kept is hidden,
\* and one being read back has not left yet.
NoPlace(entries) == [i \in DOMAIN entries |-> [seq |-> entries[i].seq, tag |-> entries[i].tag]]
Numbers(entries) == [i \in DOMAIN entries |-> entries[i].seq]
Reading == IF taking.step = "read" THEN <<taking.entry>> ELSE <<>>

FQ == INSTANCE FrameQueue WITH
    frames <- NoPlace(Reading \o queue),
    sync <- audio_sync,
    mark <- audio_mark,
    delivered <- NoPlace(delivered),
    pictures <- Numbers(pictures),
    shared <- SomeShared,
    opened <- Started

\* Until it is started a second time, VideoQueue behaves as FrameQueue: whatever
\* the threads do between its locked operations looks like one atomic operation.
ImplementsFrameQueue ==
    /\ FQ!FQInit
    /\ [][FQ!FQNext \/ starts' > 1]_(FQ!fqVars)
===============================================================================
