--------------------------- MODULE DesktopRecorder ----------------------------
(***************************************************************************)
(* The recording pipeline: DesktopRecorder.hpp with MediaBuffer.hpp,       *)
(* AudioCapture.hpp, DesktopCapture.hpp and VideoEncoder.hpp.              *)
(*   - the UI thread calls start, stop, pause and resume;                  *)
(*   - the audio thread (the device's callback, or a timer when there is   *)
(*     no microphone) numbers packets, queues them and marks the time;     *)
(*   - the desktop thread runs the tasks of DesktopCapture's scheduler and *)
(*     adds bitmaps stamped with the mark;                                 *)
(*   - the encoder thread runs the tasks of VideoEncoder's scheduler, takes*)
(*     turns between bitmaps and packets, and drains after a stop.         *)
(* Bitmaps and packets are their numbers.  The bitmap queue is FrameQueue, *)
(* which VideoQueue.tla implements: atomic, but a bitmap may be refused or *)
(* lost, or come out with the picture of a younger one that was given the  *)
(* same file.  A write to the file that fails is reported as               *)
(* ERROR_IN_WRITTING_STREAM_FILE, and the recording goes on without it.    *)
(***************************************************************************)
EXTENDS Naturals, Integers, Sequences

CONSTANTS
    INTERVAL_AUDIO_COUNT_LIMIT,     \* getAudio calls between two reports
    VideoStep,      \* duration of a bitmap
    AudioStep,      \* duration of a packet
    Leftover,       \* what the next_pts of the pictures may hold beyond that of
                    \* the sound when a VideoCreater is made: nothing sets them
    MaxPackets,     \* bound: packets captured
    MaxFrames,      \* bound: bitmaps captured
    MaxStarts,      \* bound: calls of start() that reach the media
    MaxPauses,      \* bound: calls of pause()
    MaxErrors,      \* bound: writes to the file that fail
    MaxFailures     \* bound: exceptions in the encoder

ASSUME RecorderAssumption ==
    /\ INTERVAL_AUDIO_COUNT_LIMIT \in Nat \ {0}
    /\ VideoStep \in Nat \ {0}
    /\ AudioStep \in Nat \ {0}
    /\ Leftover \subseteq Int
    /\ {MaxPackets, MaxFrames, MaxStarts, MaxPauses, MaxErrors, MaxFailures} \subseteq Nat

VARIABLES
    state,          \* DesktopRecorder.state_
    ui,             \* the UI thread: where it is in start() or stop()
    source,         \* what drives the audio: the microphone, the timer, or the
                    \* microphone for which the timer has stood in
    capturing,      \* the stream is open, or the timer's scheduler started
    hearing,        \* the audio thread in on_data()
    index,          \* AudioCapture.index_
    audio,          \* AudioCapture.queue_
    audio_mark,     \* VideoQueue.audio_mark_
    audio_sync,     \* VideoQueue.audio_sync_
    bitmaps,        \* VideoQueue.queue_
    frames,         \* counter of the bitmaps captured
    dtasks,         \* DesktopCapture: tasks
    shooting,       \* DesktopCapture: "off", "on" (started) or about to capture
    is_started,     \* VideoEncoder.is_started_
    etasks,         \* VideoEncoder: tasks
    encoder,        \* videoCreater_: "none", "open", or "draining" in do_stop()
    video_pts,      \* next_pts of the pictures, in bitmaps
    audio_pts,      \* next_pts of the sound, in packets
    drawn,          \* history: the packets drawn for the file, and whether the
                    \* write of each succeeded
    shown,          \* history: for each bitmap copied to bitmap_, the picture
                    \* and the stamp of the entry it was taken for
    errors,         \* calls of on_error_ for a write that failed
    polls,          \* interval_audio_count_
    starts,         \* counter of the bound MaxStarts
    pauses,         \* counter of the bound MaxPauses
    failures,       \* counter of the bound MaxFailures
    completions     \* calls of on_completed_

control == <<state, ui, starts, pauses>>
sound == <<source, capturing, hearing, index, audio>>
desktop == <<dtasks, shooting, frames>>
marks == <<audio_mark, audio_sync>>
file == <<encoder, video_pts, audio_pts, drawn, shown, errors>>
tasking == <<is_started, etasks>>
counts == <<polls, failures, completions>>
vars == <<control, sound, desktop, marks, bitmaps, file, tasking, polls,
          failures, completions>>

Bitmap == [seq : 1 .. MaxFrames, tag : -1 .. MaxPackets]
Packet == [number : 1 .. MaxPackets, written : BOOLEAN]
Task == {"START", "STOP"}

TypeOK ==
    /\ state \in {"Started", "Stoped", "Paused"}
    /\ ui \in {"idle", "audio started", "media started", "media stopped"}
    /\ source \in {"mic", "timer", "stand-in"}
    /\ capturing \in BOOLEAN
    /\ hearing \in {"idle", "data", "mark"}
    /\ index \in 0 .. MaxPackets
    /\ audio \in Seq(1 .. MaxPackets)
    /\ audio_mark \in -1 .. MaxPackets
    /\ audio_sync \in -1 .. MaxPackets
    /\ bitmaps \in Seq(Bitmap)
    /\ frames \in 0 .. MaxFrames
    /\ dtasks \in Seq(Task)
    /\ shooting \in {"off", "on", "shot"}
    /\ is_started \in BOOLEAN
    /\ etasks \in Seq(Task)
    /\ encoder \in {"none", "open", "draining"}
    /\ video_pts \in Int
    /\ audio_pts \in Nat
    /\ drawn \in Seq(Packet)
    /\ shown \in Seq(Bitmap)
    /\ errors \in 0 .. MaxErrors
    /\ polls \in 0 .. INTERVAL_AUDIO_COUNT_LIMIT - 1
    /\ starts \in 0 .. MaxStarts
    /\ pauses \in 0 .. MaxPauses
    /\ failures \in 0 .. MaxFailures
    /\ completions \in 0 .. MaxStarts

Init ==
    /\ state = "Stoped"
    /\ ui = "idle"
    /\ source \in {"mic", "timer"}
    /\ capturing = FALSE
    /\ hearing = "idle"
    /\ index = 0
    /\ audio = <<>>
    /\ audio_mark = -1
    /\ audio_sync = -1
    /\ bitmaps = <<>>
    /\ frames = 0
    /\ dtasks = <<>>
    /\ shooting = "off"
    /\ is_started = FALSE
    /\ etasks = <<>>
    /\ encoder = "none"
    /\ video_pts = 0
    /\ audio_pts = 0
    /\ drawn = <<>>
    /\ shown = <<>>
    /\ errors = 0
    /\ polls = 0
    /\ starts = 0
    /\ pauses = 0
    /\ failures = 0
    /\ completions = 0
-------------------------------------------------------------------------------
(* start(): the audio, then the bitmap queue and the desktop, then the     *)
(* encoder.  MediaBuffer.start() does not ask whether the encoder is busy. *)

\* start() of a recorder that is paused is its resume(), of one that is started
\* an error.
MayStart == ui = "idle" /\ state = "Stoped" /\ starts < MaxStarts

\* DesktopCapture's start() and stop() add a task.
TellDesktop(task) == dtasks' = Append(dtasks, task)

StartAudio ==
    /\ MayStart
    /\ starts' = starts + 1
    /\ index' = 0
    /\ capturing' = TRUE
    /\ ui' = "audio started"
    /\ UNCHANGED <<state, pauses, source, hearing, audio, desktop, marks, bitmaps, file,
                   tasking, counts>>

\* The microphone does not open.
StartAudioFails ==
    /\ MayStart
    /\ source # "timer"
    /\ starts' = starts + 1
    /\ index' = 0
    /\ UNCHANGED <<state, ui, pauses, source, capturing, hearing, audio, desktop, marks,
                   bitmaps, file, tasking, counts>>

StartVideo ==
    /\ ui = "audio started"
    /\ ui' = "media started"
    /\ bitmaps' = <<>>
    /\ audio_mark' = -1
    /\ audio_sync' = -1
    /\ TellDesktop("START")
    /\ UNCHANGED <<state, starts, pauses, sound, shooting, frames, file, tasking,
                   counts>>

StartEncoder ==
    /\ ui = "media started"
    /\ ~is_started
    /\ is_started' = TRUE
    /\ etasks' = Append(etasks, "START")
    /\ state' = "Started"
    /\ ui' = "idle"
    /\ UNCHANGED <<starts, pauses, sound, desktop, marks, bitmaps, file, counts>>

\* MediaBuffer.stop(): Pa_CloseStream waits for the callback, the timer's
\* stop() for nothing; the desktop gets a task.
StopMedia ==
    /\ source = "mic" => hearing = "idle"
    /\ capturing' = FALSE
    /\ TellDesktop("STOP")
    /\ UNCHANGED <<source, hearing, index, audio, shooting, frames>>

\* The encoder still drains the recording before, or the file does not open.
StartEncoderFails ==
    /\ ui = "media started"
    /\ StopMedia
    /\ state' = "Stoped"
    /\ ui' = "idle"
    /\ UNCHANGED <<starts, pauses, marks, bitmaps, file, tasking, counts>>
-------------------------------------------------------------------------------
(* stop(), pause(), resume()                                               *)

Stop ==
    /\ ui = "idle"
    /\ state # "Stoped"
    /\ StopMedia
    /\ state' = "Stoped"
    /\ ui' = "media stopped"
    /\ UNCHANGED <<starts, pauses, marks, bitmaps, file, tasking, counts>>

\* mutant: the encoder is not told
StopEncoderForgotten ==
    /\ ui = "media stopped"
    /\ ui' = "idle"
    /\ UNCHANGED <<state, starts, pauses, sound, desktop, marks, bitmaps, file, tasking,
                   counts>>

StopEncoder ==
    /\ ui = "media stopped"
    /\ etasks' = Append(etasks, "STOP")
    /\ ui' = "idle"
    /\ UNCHANGED <<state, starts, pauses, sound, desktop, marks, bitmaps, file,
                   is_started, counts>>

Pause ==
    /\ ui = "idle"
    /\ state = "Started"
    /\ pauses < MaxPauses
    /\ pauses' = pauses + 1
    /\ StopMedia
    /\ state' = "Paused"
    /\ UNCHANGED <<ui, starts, marks, bitmaps, file, tasking, counts>>

\* mutant: the desktop is not started again
ResumeSoundOnly ==
    /\ ui = "idle"
    /\ state = "Paused"
    /\ state' = "Started"
    /\ capturing' = TRUE
    /\ UNCHANGED <<ui, starts, pauses, source, hearing, index, audio, desktop, marks,
                   bitmaps, file, tasking, counts>>

\* The microphone is opened again; if it is gone, the timer of silent packets
\* stands in.  From then on its thread may be in on_data() whatever is closed.
ResumeAudio ==
    /\ capturing' = TRUE
    /\ source' \in IF source = "mic" THEN {"mic", "stand-in"} ELSE {source}

Resume ==
    /\ ui = "idle"
    /\ state = "Paused"
    /\ state' = "Started"
    /\ ResumeAudio
    /\ TellDesktop("START")
    /\ UNCHANGED <<ui, starts, pauses, hearing, index, audio, shooting, frames, marks,
                   bitmaps, file, tasking, counts>>

UIThread ==
    \/ StartAudio
    \/ StartAudioFails
    \/ StartVideo
    \/ StartEncoder
    \/ StartEncoderFails
    \/ Stop
    \/ StopEncoder
    \/ Pause
    \/ Resume
-------------------------------------------------------------------------------
(* on_data(): the callback comes, the packet is numbered and queued, the   *)
(* mark is set.                                                            *)

DataComes ==
    /\ capturing
    /\ hearing = "idle"
    /\ index < MaxPackets
    /\ hearing' = "data"
    /\ UNCHANGED <<control, source, capturing, index, audio, desktop, marks, bitmaps,
                   file, tasking, counts>>

PushPacket ==
    /\ hearing = "data"
    /\ hearing' = "mark"
    /\ index' = index + 1
    /\ audio' = Append(audio, index + 1)
    /\ UNCHANGED <<control, source, capturing, desktop, marks, bitmaps, file, tasking,
                   counts>>

SetAudioMark ==
    /\ hearing = "mark"
    /\ hearing' = "idle"
    /\ audio_mark' = index
    /\ UNCHANGED <<control, source, capturing, index, audio, desktop, audio_sync,
                   bitmaps, file, tasking, counts>>

AudioThread == DataComes \/ PushPacket \/ SetAudioMark
-------------------------------------------------------------------------------
(* DesktopCapture: the scheduler empties its queue of tasks, then captures *)
(* once if it is started, also when a task came in between.                *)

DesktopTask ==
    /\ shooting # "shot"
    /\ dtasks # <<>>
    /\ shooting' = IF Head(dtasks) = "START" THEN "on" ELSE "off"
    /\ dtasks' = Tail(dtasks)
    /\ UNCHANGED <<control, sound, frames, marks, bitmaps, file, tasking, counts>>

DesktopRepeat ==
    /\ shooting = "on"
    /\ dtasks = <<>>
    /\ frames < MaxFrames
    /\ shooting' = "shot"
    /\ UNCHANGED <<control, sound, dtasks, frames, marks, bitmaps, file, tasking,
                   counts>>

\* A bitmap is captured and queued, or refused by the queue.
Shoot ==
    /\ shooting = "shot"
    /\ shooting' = "on"
    /\ frames' = frames + 1
    /\ bitmaps' \in {bitmaps, Append(bitmaps, [seq |-> frames + 1, tag |-> audio_mark])}
    /\ UNCHANGED <<control, sound, dtasks, marks, file, tasking, counts>>

DesktopThread == DesktopTask \/ DesktopRepeat \/ Shoot
-------------------------------------------------------------------------------
(* VideoEncoder: its scheduler empties the queue of tasks, then repeats.   *)
(* A repeat that overlaps a task being added is taken before it.           *)

EncoderStart ==
    /\ encoder # "draining"
    /\ etasks # <<>>
    /\ Head(etasks) = "START"
    /\ etasks' = Tail(etasks)
    /\ encoder' = "open"
    /\ video_pts' \in Leftover
    /\ audio_pts' = 0
    /\ drawn' = <<>>
    /\ shown' = <<>>
    /\ UNCHANGED <<control, sound, desktop, marks, bitmaps, errors, is_started, counts>>

\* do_stop(): with a file the drain begins, without one it returns.
EncoderStop ==
    /\ encoder # "draining"
    /\ etasks # <<>>
    /\ Head(etasks) = "STOP"
    /\ etasks' = Tail(etasks)
    /\ encoder' = IF encoder = "open" THEN "draining" ELSE "none"
    /\ UNCHANGED <<control, sound, desktop, marks, bitmaps, video_pts, audio_pts, drawn,
                   shown, errors, is_started, counts>>

\* do_repeat() and the loop of do_stop() do the same until the audio is gone.
Encoding == encoder = "draining" \/ (encoder = "open" /\ etasks = <<>>)

\* mutant: the units of the two time stamps are mixed
TurnByCount == video_pts <= audio_pts

isVideoTurn == video_pts * VideoStep <= audio_pts * AudioStep

\* mutant: a bitmap is taken whatever its stamp
AnyBitmap == bitmaps # <<>>

BitmapDue == bitmaps # <<>> /\ Head(bitmaps).tag <= audio_sync

\* VideoEncoder hands a write that returned false to on_error_ and goes on.
WriteFails == errors < MaxErrors /\ errors' = errors + 1

\* VideoCreater.writeBitmap(): next_pts grows, and the picture is encoded.  No
\* frame can be allocated, or the one allocated not be written to: the time stamp
\* stays.  The picture cannot be encoded or written: it has grown.
WriteBitmap ==
    \/ video_pts' = video_pts + 1 /\ UNCHANGED errors
    \/ video_pts' \in {video_pts, video_pts + 1} /\ WriteFails

\* VideoCreater.do_writeAudioPacket(): the same.  A packet that is not written is
\* not offered again.
WriteAudioPacket(n) ==
    \E written \in BOOLEAN :
        /\ drawn' = Append(drawn, [number |-> n, written |-> written])
        /\ IF written
           THEN audio_pts' = audio_pts + 1 /\ UNCHANGED errors
           ELSE audio_pts' \in {audio_pts, audio_pts + 1} /\ WriteFails

\* The bitmap leaves the queue for bitmap_.  Its file may hold a picture that was
\* taken later, of a bitmap that is queued, refused or being added; or it cannot
\* be read, and nothing is copied.
TakeBitmap ==
    /\ bitmaps' = Tail(bitmaps)
    /\ \/ \E p \in Head(bitmaps).seq .. (frames + IF shooting = "shot" THEN 1 ELSE 0) :
              shown' = Append(shown, [seq |-> p, tag |-> Head(bitmaps).tag])
       \/ UNCHANGED shown

\* What is in bitmap_ is written: the bitmap that is due, or the one before once
\* more.
EncodeBitmap ==
    /\ Encoding
    /\ isVideoTurn
    /\ IF BitmapDue THEN TakeBitmap ELSE UNCHANGED <<bitmaps, shown>>
    /\ WriteBitmap
    /\ UNCHANGED <<control, sound, desktop, marks, encoder, audio_pts, drawn, tasking,
                   counts>>

\* fire_packets_in_buffer_event(): every so many calls of getAudio the packets
\* left in the buffer (Len(audio')) are reported, also when there are none.
CountPoll == polls' = (polls + 1) % INTERVAL_AUDIO_COUNT_LIMIT

TakeAudio == audio # <<>> /\ audio' = Tail(audio)

EncodeAudio ==
    /\ Encoding
    /\ ~isVideoTurn
    /\ TakeAudio
    /\ CountPoll
    /\ audio_sync' = Head(audio)
    /\ WriteAudioPacket(Head(audio))
    /\ UNCHANGED <<control, source, capturing, hearing, index, desktop, audio_mark,
                   bitmaps, encoder, video_pts, shown, tasking, failures, completions>>

\* No packet yet: do_repeat() comes again.
NoAudio ==
    /\ Encoding
    /\ encoder = "open"
    /\ ~isVideoTurn
    /\ audio = <<>>
    /\ CountPoll
    /\ UNCHANGED <<control, sound, desktop, marks, bitmaps, file, tasking, failures,
                   completions>>

Complete ==
    /\ CountPoll
    /\ is_started' = FALSE
    /\ encoder' = "none"
    /\ completions' = completions + 1
    /\ UNCHANGED <<control, sound, desktop, marks, bitmaps, video_pts, audio_pts, drawn,
                   shown, errors, etasks, failures>>

\* mutant: the drain ends at the first turn of a bitmap that finds none
EndDrainEarly ==
    /\ encoder = "draining"
    /\ \/ ~isVideoTurn /\ audio = <<>>
       \/ isVideoTurn /\ ~BitmapDue
    /\ Complete

\* The drain finds no packet: the file is closed and on_completed_ is called.
EndDrain ==
    /\ encoder = "draining"
    /\ ~isVideoTurn
    /\ audio = <<>>
    /\ Complete

\* An exception in do_repeat(): the file is closed, the scheduler goes on.
EncodingFails ==
    /\ Encoding
    /\ encoder = "open"
    /\ failures < MaxFailures
    /\ failures' = failures + 1
    /\ encoder' = "none"
    /\ is_started' = FALSE
    /\ UNCHANGED <<control, sound, desktop, marks, bitmaps, video_pts, audio_pts, drawn,
                   shown, errors, etasks, polls, completions>>

EncoderWorks ==
    \/ EncoderStart
    \/ EncoderStop
    \/ EncodeBitmap
    \/ EncodeAudio
    \/ NoAudio
    \/ EndDrain

EncoderThread == EncoderWorks \/ EncodingFails
-------------------------------------------------------------------------------
Next == UIThread \/ AudioThread \/ DesktopThread \/ EncoderThread

Spec == Init /\ [][Next]_vars

\* The threads are scheduled; a packet that has come is queued.  Nobody has to
\* pause, stop or speak, but a call of the UI thread returns.
FairSpec ==
    /\ Spec
    /\ WF_vars(EncoderWorks)
    /\ WF_vars(DesktopTask \/ Shoot)
    /\ WF_vars(PushPacket \/ SetAudioMark)
    /\ WF_vars(StartVideo \/ StartEncoder \/ StartEncoderFails \/ StopEncoder)
-------------------------------------------------------------------------------
(* Properties                                                              *)

\* The time stamps by which the turns of picture and sound are decided, once
\* within one step of each other, stay so through pauses, failing writes and the
\* drain, for the whole recording.
InStep ==
    /\ video_pts * VideoStep - audio_pts * AudioStep <= VideoStep
    /\ audio_pts * AudioStep - video_pts * VideoStep <= AudioStep

LipSync == [][encoder # "none" /\ InStep => InStep']_vars

\* A bitmap has its turn only after every packet up to the one it is stamped with
\* was drawn, in order, and is written to the file, unless a write failed and was
\* reported (job-flow-02/README.md:28-30); for one start of the recorder.  The
\* picture itself may be that of a younger bitmap (VideoQueue.tla, OnlyEarlier).
SoundBeforePicture ==
    starts = 1 =>
        \A i \in DOMAIN shown : \A n \in 1 .. shown[i].tag :
            /\ n \in DOMAIN drawn
            /\ drawn[n].number = n
            /\ drawn[n].written \/ errors > 0

\* Between calls of the UI thread, the last task the desktop has been given
\* agrees with the state, and so does the audio.
TaskFor(b) == IF b THEN "START" ELSE "STOP"
MediaFollowState ==
    ui = "idle" =>
        /\ capturing <=> state = "Started"
        /\ dtasks # <<>> => dtasks[Len(dtasks)] = TaskFor(state = "Started")
        /\ dtasks = <<>> => (shooting # "off" <=> state = "Started")

\* A recording that is stopped completes, however much is still buffered and
\* though some writes fail, unless the encoder throws before.  (Writes that fail
\* for ever are the subject of DrainEnds in MediaFile.tla.)
StopCompletes ==
    state = "Stoped" /\ ui = "idle" /\ is_started /\ failures = 0
        ~> completions > 0 \/ failures > 0

===============================================================================
