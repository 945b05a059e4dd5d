------------------------------ MODULE FrameQueue ------------------------------
(***************************************************************************)
(* What the agent's VideoQueue promises the threads that share it, as      *)
(* doc/job-flow-02/README.md:24-30 describes it: bitmaps stamped with the  *)
(* audio mark come out once, in the order they went in, and only when the  *)
(* audio they belong to has been drawn.  Every operation is atomic here    *)
(* and where a bitmap is kept, in memory or in a file, is not visible.     *)
(* What is not promised, because the names of the files are not unique, is *)
(* in the open too: once two bitmaps share a file (shared), a stamp may    *)
(* come out with the picture of a younger bitmap.                          *)
(***************************************************************************)
EXTENDS Integers, Sequences, Functions

CONSTANTS
    MaxFrames,  \* bound: bitmaps offered
    MaxMark     \* bound: audio packets marked

VARIABLES
    frames,     \* the bitmaps held, oldest first
    sync,       \* mark of the last audio packet drawn
    mark,       \* mark of the last audio packet captured
    delivered,  \* the bitmaps handed to the encoder, in order
    pictures,   \* for each of them the number of the picture that was handed over
    shared,     \* two bitmaps were given one file
    opened      \* start() is over

taken == <<delivered, pictures>>
fqVars == <<frames, sync, mark, taken, shared, opened>>

\* A bitmap: its number in capture order and the audio mark stamped on it.
Frame == [seq : 1 .. MaxFrames, tag : -1 .. MaxMark]

FQInit ==
    /\ frames = <<>>
    /\ sync = -1
    /\ mark = -1
    /\ delivered = <<>>
    /\ pictures = <<>>
    /\ shared = FALSE
    /\ opened = FALSE

\* The queue is opened once, empty and with both marks reset.
Open ==
    /\ ~opened
    /\ opened' = TRUE
    /\ sync' = -1
    /\ mark' = -1
    /\ UNCHANGED <<frames, taken, shared>>

AdvanceMark ==
    /\ mark' \in mark + 1 .. MaxMark
    /\ UNCHANGED <<frames, sync, taken, shared, opened>>

AdvanceSync ==
    /\ opened
    /\ sync' \in sync + 1 .. MaxMark
    /\ UNCHANGED <<frames, mark, taken, shared, opened>>

\* A bitmap younger than every one before it enters, with a mark that was set
\* and is not older than theirs.
Offer(f) ==
    /\ opened
    /\ f.tag <= mark
    /\ \A g \in Range(frames) \cup Range(delivered) : f.seq > g.seq /\ f.tag >= g.tag
    /\ frames' = Append(frames, f)
    /\ UNCHANGED <<sync, mark, taken, shared, opened>>

\* From now on a file may hold the picture of a younger bitmap.
Share ==
    /\ shared' = TRUE
    /\ UNCHANGED <<frames, sync, mark, taken, opened>>

\* The oldest bitmap leaves when it is due.  It may be lost on the way (its
\* file cannot be read back) but never overtaken.  It is handed over with its
\* own picture, or a younger one out of a shared file.
Take ==
    /\ frames # <<>>
    /\ Head(frames).tag <= sync
    /\ frames' = Tail(frames)
    /\ \/ /\ delivered' = Append(delivered, Head(frames))
          /\ \E p \in Head(frames).seq .. MaxFrames :
              /\ p # Head(frames).seq => shared
              /\ pictures' = Append(pictures, p)
       \/ UNCHANGED taken
    /\ UNCHANGED <<sync, mark, shared, opened>>

FQNext ==
    \/ Open
    \/ AdvanceMark
    \/ AdvanceSync
    \/ \E f \in Frame : Offer(f)
    \/ Share
    \/ Take

FQSpec == FQInit /\ [][FQNext]_fqVars
===============================================================================
