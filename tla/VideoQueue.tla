------------------------------ MODULE VideoQueue ------------------------------
(***************************************************************************)
(* include/VideoQueue.hpp: the queue of captured bitmaps.  Four threads    *)
(* share it:                                                               *)
(*   - the desktop capture thread adds a bitmap (addBitmap), keeping it in *)
(*     memory or, when the queue is long, in a temporary JPEG file;        *)
(*   - the audio thread sets audio_mark_ (setAudioMark);                   *)
(*   - the encoder thread sets audio_sync_ (setAudioSync) and takes the    *)
(*     oldest bitmap that is due (getBitmap);                              *)
(*   - the UI thread empties it for a recording (start).                   *)
(* Only the std::queue inside is locked, one operation at a time, so a     *)
(* handler is as many steps as it has calls that another thread can get    *)
(* between.  The pixels are not modelled; the free memory, the free disk   *)
(* and the JPEG library answer in every way they can.  The error codes a   *)
(* handler passes to on_error_ leave the queue alone and are not modelled  *)
(* here.  Definitions marked "mutant" are wrong on purpose: each is the    *)
(* change of the one after it that a property must not survive.            *)
(***************************************************************************)
EXTENDS Integers, Sequences, FiniteSets

CONSTANTS
    MAX_BITMAP_COUNT,   \* bitmaps kept in memory before the files are used
    MaxFrames,          \* bound: bitmaps captured
    MaxMark,            \* bound: audio packets captured
    MaxSeconds,         \* bound: times the clock of the file names shows
    MaxStarts           \* bound: calls of start()

ASSUME CapacityAssumption == MAX_BITMAP_COUNT \in Nat
ASSUME BoundsAssumption ==
    /\ MaxFrames \in Nat
    /\ MaxMark \in Nat
    /\ MaxSeconds \in Nat
    /\ MaxStarts \in Nat

VARIABLES
    queue,        \* queue_: entries, oldest first
    audio_sync,   \* audio_sync_
    audio_mark,   \* audio_mark_
    files,        \* the temporary files: what each name holds, NoEntry if there is none
    spilled,      \* history: the bitmaps that were written to each name
    adding,       \* the capture thread in addBitmap: its step and its bitmap
    taking,       \* the encoder thread in getBitmap: its step and its entry
    jpeg,         \* what it has read of the entry's file, NoEntry before
    starting,     \* the UI thread in start(): its step
    starts,       \* how often start() was called
    index,        \* AudioCapture.index_: number of the last packet captured
    audio,        \* AudioCapture.queue_: numbers of the packets not drawn yet
    marking,      \* the audio thread in on_data: its step
    captured,     \* history: bitmaps passed to addBitmap
    delivered,    \* history: the entries for which getBitmap returned a bitmap
    pictures,     \* history: the bitmap it returned for each
    lost          \* history: bitmaps whose entry will never be delivered

adders  == <<adding, captured>>
takers  == <<taking, jpeg, delivered, pictures>>
disk == <<files, spilled>>
starters == <<starting, starts>>
marks == <<audio_sync, audio_mark>>
capture == <<index, audio, marking>>
vars == <<queue, audio_sync, audio_mark, disk, adding, takers, starting,
          starts, index, audio, marking, captured, lost>>

Place == {"memory", "file"}
Mark == -1 .. MaxMark
SeqNo == 0 .. MaxFrames
Second == 1 .. MaxSeconds
Name == 0 .. MaxSeconds
Entry == {e \in [seq : SeqNo, tag : Mark, at : Place, name : Name] :
              e.at = "file" => e.name \in Second}
AddStep == {"idle", "keep", "spill", "push"}
TakeStep == {"idle", "pop", "read"}
MarkStep == {"idle", "mark"}
StartStep == {"idle", "clear", "clear again", "reset"}

NoEntry == [seq |-> 0, tag |-> -1, at |-> "memory", name |-> 0]

\* Types: threads carry a step and the data of the call they are in.
TypeOK ==
    /\ queue \in Seq(Entry)
    /\ audio_sync \in Mark
    /\ audio_mark \in Mark
    /\ files \in [Second -> Entry]
    /\ spilled \in [Second -> SUBSET SeqNo]
    /\ adding \in [step : AddStep, frame : Entry]
    /\ taking \in [step : TakeStep, entry : Entry]
    /\ taking.step = "read" => taking.entry.at = "file"
    /\ jpeg \in Entry
    /\ starting \in StartStep
    /\ starts \in 0 .. MaxStarts
    /\ index \in 0 .. MaxMark
    /\ audio \in Seq(1 .. MaxMark)
    /\ marking \in MarkStep
    /\ captured \in SeqNo
    /\ delivered \in Seq(Entry)
    /\ pictures \in Seq(Entry)
    /\ lost \subseteq SeqNo

Init ==
    /\ queue = <<>>
    /\ audio_sync = -1
    /\ audio_mark = -1
    /\ files = [n \in Second |-> NoEntry]
    /\ spilled = [n \in Second |-> {}]
    /\ adding = [step |-> "idle", frame |-> NoEntry]
    /\ taking = [step |-> "idle", entry |-> NoEntry]
    /\ jpeg = NoEntry
    /\ starting = "idle"
    /\ starts = 0
    /\ index = 0
    /\ audio = <<>>
    /\ marking = "idle"
    /\ captured = 0
    /\ delivered = <<>>
    /\ pictures = <<>>
    /\ lost = {}

Lose(s) == lost' = lost \cup {s}
-------------------------------------------------------------------------------
(* start(): both clearing loops pop until the queue answers NULL, then the *)
(* marks are reset.  The files of the entries popped stay on the disk.     *)
(* MediaBuffer starts the audio before, which restarts the numbering and   *)
(* keeps the packets of an earlier recording.                              *)

StartCall ==
    /\ starting = "idle"
    /\ starts < MaxStarts
    /\ starts' = starts + 1
    /\ starting' = "clear"
    /\ index' = 0
    /\ UNCHANGED <<queue, marks, disk, adders, takers, audio, marking, lost>>

ClearOne ==
    /\ starting \in {"clear", "clear again"}
    /\ queue # <<>>
    /\ queue' = Tail(queue)
    /\ Lose(Head(queue).seq)
    /\ UNCHANGED <<marks, disk, adders, takers, starters, capture>>

ClearDone ==
    /\ starting \in {"clear", "clear again"}
    /\ queue = <<>>
    /\ starting' = IF starting = "clear" THEN "clear again" ELSE "reset"
    /\ UNCHANGED <<queue, marks, disk, adders, takers, starts, capture, lost>>

\* mutant: the mark is not reset
ResetSyncOnly ==
    /\ starting = "reset"
    /\ starting' = "idle"
    /\ audio_sync' = -1
    /\ UNCHANGED <<queue, audio_mark, disk, adders, takers, starts, capture, lost>>

ResetMarks ==
    /\ starting = "reset"
    /\ starting' = "idle"
    /\ audio_sync' = -1
    /\ audio_mark' = -1
    /\ UNCHANGED <<queue, disk, adders, takers, starts, capture, lost>>

\* The capture and encoder threads work for a recording MediaBuffer started.
Started == starts > 1 \/ (starts = 1 /\ starting = "idle")
-------------------------------------------------------------------------------
(* The two marks.  The audio thread numbers a packet and queues it, then   *)
(* sets the mark; the encoder thread draws the oldest packet and sets the  *)
(* sync to its number, so the sync may run ahead of the mark.              *)

CapturePacket ==
    /\ starts > 0
    /\ marking = "idle"
    /\ index < MaxMark
    /\ index' = index + 1
    /\ audio' = Append(audio, index + 1)
    /\ marking' = "mark"
    /\ UNCHANGED <<queue, marks, disk, adders, takers, starters, lost>>

SetAudioMark ==
    /\ marking = "mark"
    /\ marking' = "idle"
    /\ audio_mark' = index
    /\ UNCHANGED <<queue, audio_sync, disk, adders, takers, starters, index, audio, lost>>

SetAudioSync ==
    /\ Started
    /\ taking.step = "idle"
    /\ audio # <<>>
    /\ audio_sync' = Head(audio)
    /\ audio' = Tail(audio)
    /\ UNCHANGED <<queue, audio_mark, disk, adders, takers, starters, index, marking, lost>>
-------------------------------------------------------------------------------
(* addBitmap                                                               *)

\* mutant: the limit is not tested
RoomForEver == TRUE

\* The size of the queue decides between memory and file.
HasRoom == Len(queue) <= MAX_BITMAP_COUNT

AddBitmap ==
    /\ Started
    /\ adding.step = "idle"
    /\ captured < MaxFrames
    /\ captured' = captured + 1
    /\ adding' = [step  |-> IF HasRoom THEN "keep" ELSE "spill",
                  frame |-> [NoEntry EXCEPT !.seq = captured + 1]]
    /\ UNCHANGED <<queue, marks, disk, takers, starters, capture, lost>>

\* mutant: the return after the error is missing
AddBitmapLowMemoryGoesOn ==
    /\ Started
    /\ adding.step = "idle"
    /\ captured < MaxFrames
    /\ captured' = captured + 1
    /\ adding' = [step |-> "keep", frame |-> [NoEntry EXCEPT !.seq = captured + 1]]
    /\ Lose(captured + 1)
    /\ UNCHANGED <<queue, marks, disk, takers, starters, capture>>

\* has_enough_free_memory() is false: the bitmap is refused (and never freed).
AddBitmapLowMemory ==
    /\ Started
    /\ adding.step = "idle"
    /\ captured < MaxFrames
    /\ captured' = captured + 1
    /\ Lose(captured + 1)
    /\ UNCHANGED <<queue, marks, disk, adding, takers, starters, capture>>

Stamp(place, n) == [adding.frame EXCEPT !.tag = audio_mark, !.at = place, !.name = n]

\* setTag(audio_mark_) on the bitmap itself.
KeepInMemory ==
    /\ adding.step = "keep"
    /\ adding' = [step |-> "push", frame |-> Stamp("memory", 0)]
    /\ UNCHANGED <<queue, marks, disk, captured, takers, starters, capture, lost>>

\* The name of the file comes from getRandomString(64), which seeds its random
\* numbers with time(NULL) on every call: it is a function of the second, and a
\* file another bitmap was written to in the same second is overwritten.  The
\* clock may be set back, so that any second can come next.
WriteFile(n) ==
    /\ files' = [files EXCEPT ![n] = Stamp("file", n)]
    /\ spilled' = [spilled EXCEPT ![n] = @ \cup {adding.frame.seq}]

\* The bitmap is compressed into a file; an empty entry stands for it.
SpillToFile ==
    /\ adding.step = "spill"
    /\ \E n \in Second :
        /\ WriteFile(n)
        /\ adding' = [step |-> "push", frame |-> Stamp("file", n)]
    /\ UNCHANGED <<queue, marks, captured, takers, starters, capture, lost>>

\* No room on the disk, a failure of tjCompress2 or of fopen_s, which
\* save_bitmap_to_jpeg_file keeps to itself, or an exception before or after
\* the file is written: there will be no entry.
SpillFails ==
    /\ adding.step = "spill"
    /\ adding' = [step |-> "idle", frame |-> NoEntry]
    /\ \/ UNCHANGED disk
       \/ \E n \in Second : WriteFile(n)
    /\ Lose(adding.frame.seq)
    /\ UNCHANGED <<queue, marks, captured, takers, starters, capture>>

PushEntry ==
    /\ adding.step = "push"
    /\ queue' = Append(queue, adding.frame)
    /\ adding' = [step |-> "idle", frame |-> NoEntry]
    /\ UNCHANGED <<marks, disk, captured, takers, starters, capture, lost>>
-------------------------------------------------------------------------------
(* getBitmap                                                               *)

\* mutant: the marks are not compared
DueAlways == queue # <<>>

\* front() is there and its audio has been drawn.  Otherwise getBitmap
\* returns nullptr and nothing changes.
Due == queue # <<>> /\ Head(queue).tag <= audio_sync

PeekBitmap ==
    /\ Started
    /\ taking.step = "idle"
    /\ Due
    /\ taking' = [taking EXCEPT !.step = "pop"]
    /\ UNCHANGED <<queue, marks, disk, adders, jpeg, delivered, pictures, starters,
                   capture, lost>>

\* start() emptied the queue since front(): pop() returns NULL.
PopNothing ==
    /\ taking.step = "pop"
    /\ queue = <<>>
    /\ taking' = [step |-> "idle", entry |-> NoEntry]
    /\ UNCHANGED <<queue, marks, disk, adders, jpeg, delivered, pictures, starters,
                   capture, lost>>

\* mutant: front() where pop() is meant
FrontFromMemory ==
    /\ taking.step = "pop"
    /\ queue # <<>>
    /\ Head(queue).at = "memory"
    /\ delivered' = Append(delivered, Head(queue))
    /\ pictures' = Append(pictures, Head(queue))
    /\ taking' = [step |-> "idle", entry |-> NoEntry]
    /\ UNCHANGED <<queue, marks, disk, adders, jpeg, starters, capture, lost>>

PopFromMemory ==
    /\ taking.step = "pop"
    /\ queue # <<>>
    /\ Head(queue).at = "memory"
    /\ queue' = Tail(queue)
    /\ delivered' = Append(delivered, Head(queue))
    /\ pictures' = Append(pictures, Head(queue))
    /\ taking' = [step |-> "idle", entry |-> NoEntry]
    /\ UNCHANGED <<marks, disk, adders, jpeg, starters, capture, lost>>

PopFromFile ==
    /\ taking.step = "pop"
    /\ queue # <<>>
    /\ Head(queue).at = "file"
    /\ queue' = Tail(queue)
    /\ taking' = [step |-> "read", entry |-> Head(queue)]
    /\ UNCHANGED <<marks, disk, adders, jpeg, delivered, pictures, starters,
                   capture, lost>>

\* The file is read whole: what the name holds by now.
ReadFile ==
    /\ taking.step = "read"
    /\ jpeg = NoEntry
    /\ files[taking.entry.name] # NoEntry
    /\ jpeg' = files[taking.entry.name]
    /\ UNCHANGED <<queue, marks, disk, adders, taking, delivered, pictures, starters,
                   capture, lost>>

\* remove(), whose result is not looked at.
RemoveFile == files' \in {files, [files EXCEPT ![taking.entry.name] = NoEntry]}

\* The file is removed and its bitmap returned.
ReturnBitmap ==
    /\ taking.step = "read"
    /\ jpeg # NoEntry
    /\ RemoveFile
    /\ taking' = [step |-> "idle", entry |-> NoEntry]
    /\ jpeg' = NoEntry
    /\ delivered' = Append(delivered, taking.entry)
    /\ pictures' = Append(pictures, jpeg)
    /\ UNCHANGED <<queue, marks, spilled, adders, starters, capture, lost>>

\* The file is gone or fopen_s fails (what is there stays), or tjDecompress2
\* fails after the file was removed: getBitmap returns nullptr, as it does after
\* an exception.
ReadFileFails ==
    /\ taking.step = "read"
    /\ IF jpeg = NoEntry THEN UNCHANGED files ELSE RemoveFile
    /\ taking' = [step |-> "idle", entry |-> NoEntry]
    /\ jpeg' = NoEntry
    /\ Lose(taking.entry.seq)
    /\ UNCHANGED <<queue, marks, spilled, adders, delivered, pictures, starters, capture>>
-------------------------------------------------------------------------------
StartThread == StartCall \/ ClearOne \/ ClearDone \/ ResetMarks
CaptureThread ==
    \/ AddBitmap
    \/ AddBitmapLowMemory
    \/ KeepInMemory
    \/ SpillToFile
    \/ SpillFails
    \/ PushEntry
EncoderThread ==
    \/ SetAudioSync
    \/ PeekBitmap
    \/ PopNothing
    \/ PopFromMemory
    \/ PopFromFile
    \/ ReadFile
    \/ ReturnBitmap
    \/ ReadFileFails

AudioThread == CapturePacket \/ SetAudioMark

Next == StartThread \/ AudioThread \/ CaptureThread \/ EncoderThread

Spec == Init /\ [][Next]_vars
-------------------------------------------------------------------------------
(* Properties                                                              *)

InMemory == {i \in DOMAIN queue : queue[i].at = "memory"}

\* However adding, taking and starting interleave, at most one bitmap more
\* than MAX_BITMAP_COUNT is kept in memory: addBitmap tests size() > MAX before
\* it pushes, and the test and the push are two locked operations.
MemoryBound == Cardinality(InMemory) <= MAX_BITMAP_COUNT + 1

\* Another bitmap was written to the file of this entry.
Shared(e) == e.at = "file" /\ \E s, u \in spilled[e.name] : s # u

\* A bitmap leaves only after the audio packet it is stamped with was drawn
\* (job-flow-02/README.md:28-30): getBitmap tests front() and returns what a
\* later pop() gives, read back from its file or not.  Excepted are a bitmap
\* whose file another one was written to, and a second start() between front()
\* and pop(), which MainForm does not make.
AudioFirst ==
    starts <= 1 =>
        \A i \in DOMAIN pictures : pictures[i].tag <= audio_sync \/ Shared(delivered[i])

\* What the same lines of the documentation say of every bitmap: only those of
\* earlier audio are let out.  The code does not keep it: two bitmaps spilled
\* within a second share a file, and the later comes out for the earlier.
OnlyEarlier == starts <= 1 => \A i \in DOMAIN pictures : pictures[i].tag <= audio_sync

\* Bitmaps come out in capture order, none twice, whether they waited in memory
\* or in a file: the two kinds share one queue.  Only one read from a file that
\* two bitmaps were written to can overtake or come twice.
InOrder ==
    \A i, j \in DOMAIN pictures :
        i < j => pictures[i].seq < pictures[j].seq \/ Shared(delivered[i])

QueuedSeqs == {queue[i].seq : i \in DOMAIN queue}
DeliveredSeqs == {delivered[i].seq : i \in DOMAIN delivered}
AddingSeqs == IF adding.step = "idle" THEN {} ELSE {adding.frame.seq}
ReadingSeqs == IF taking.step = "read" THEN {taking.entry.seq} ELSE {}

\* Every bitmap handed to addBitmap is in exactly one place, with its entry: still
\* being added, queued, being read back, delivered or lost.  An entry for a file
\* has its file, with its own bitmap in it, from before it is queued until it is
\* read, unless another bitmap was written to the same name.
OncePlaced(s) ==
    Cardinality({p \in {"adding", "queued", "reading", "delivered", "lost"} :
        \/ p = "adding" /\ s \in AddingSeqs
        \/ p = "queued" /\ s \in QueuedSeqs
        \/ p = "reading" /\ s \in ReadingSeqs
        \/ p = "delivered" /\ s \in DeliveredSeqs
        \/ p = "lost" /\ s \in lost}) = 1

HasFile(e) == e.at = "file" => files[e.name] = e \/ Shared(e)

Conservation ==
    /\ \A s \in 1 .. captured : OncePlaced(s)
    /\ \A i \in DOMAIN queue : HasFile(queue[i])
    /\ adding.step = "push" => HasFile(adding.frame)
    /\ taking.step = "read" => HasFile(taking.entry)

===============================================================================
