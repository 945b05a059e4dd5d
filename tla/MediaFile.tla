------------------------------- MODULE MediaFile -------------------------------
(***************************************************************************)
(* From the options of START to the file that is closed: StartOption reads *)
(* the options, MediaBuffer starts the desktop with some of them,          *)
(* VideoEncoder opens a VideoCreater with others, and the encoder's thread *)
(* copies the bitmaps of the first into the picture of the second.         *)
(*                                                                         *)
(* RecordAgent has the order of the messages, DesktopRecorder the order of *)
(* bitmaps and packets; here are the sizes, what FFmpeg allocates, and the *)
(* failures of every step.                                                 *)
(***************************************************************************)
EXTENDS Integers, Sequences

CONSTANTS
    Sizes,        \* sizes that a message may ask for: records [w, h]
    Screen,       \* the size of the screen
    CELL,         \* bitmaps are as wide as a multiple of it (BITMAP_CELL_WIDTH)
    Leftover,     \* what next_pts may hold when a VideoCreater is made
    VideoStep, AudioStep,  \* the time of a picture and of a packet
    MaxStarts, MaxPackets, MaxBitmaps, MaxFailures  \* bounds

ASSUME MediaFileAssumption ==
    /\ Sizes \cup {Screen} \subseteq [w : Nat, h : Nat]
    /\ {CELL, VideoStep, AudioStep} \subseteq Nat \ {0}
    /\ Leftover \subseteq Nat
    /\ {MaxStarts, MaxPackets, MaxBitmaps, MaxFailures} \subseteq Nat

VARIABLES
    ui,           \* the UI thread: idle, or the step of START it comes to
    starts,
    asked,        \* what START asked for, and whether it was understood
    creater,      \* option_creater_: its width and height
    desktop,      \* option_desktop_: its width and height
    tasks,        \* the tasks of the desktop's scheduler
    camera,       \* DesktopCapture: is it on, and the size of its bitmaps
    bitmaps,      \* pixels of the bitmaps that wait for the encoder
    held,         \* what the VideoCreater holds of FFmpeg
    leaked,       \* contexts and frames that nobody can free
    hardware,     \* using_hw_encoder_
    file,         \* the file on the disk: up to which step of a file it has come
    encoder,      \* VideoEncoder's thread
    stopping,     \* is TASK_STOP in its queue?
    bitmap,       \* bitmap_: the pixels allocated
    copied,       \* the pixels last copied into it
    packets,      \* audio packets that wait for the encoder
    heard,        \* audio packets so far
    video_pts, audio_pts,  \* next_pts of the streams
    failures

options == <<asked, creater, desktop>>
capture == <<tasks, camera, bitmaps>>
ffmpeg == <<held, leaked, hardware, file>>
encoding == <<encoder, stopping, bitmap, copied>>
streams == <<packets, heard, video_pts, audio_pts>>
vars == <<ui, starts, options, capture, ffmpeg, encoding, streams, failures>>

Zero == [w |-> 0, h |-> 0]

Init ==
    /\ ui = "idle" /\ starts = 0
    /\ asked = [understood |-> FALSE, size |-> Zero]
    /\ creater = Zero /\ desktop = Zero
    /\ tasks = <<>> /\ camera = [on |-> FALSE, size |-> Zero] /\ bitmaps = <<>>
    /\ held = {} /\ leaked = 0 /\ hardware = FALSE /\ file = "none"
    /\ encoder = "none" /\ stopping = FALSE /\ bitmap = 0 /\ copied = 0
    /\ packets = 0 /\ heard = 0 /\ video_pts = 0 /\ audio_pts = 0
    /\ failures = 0

MayFail == failures < MaxFailures
Failed == failures' = failures + 1

-----------------------------------------------------------------------------
(* StartOption.  A field that is missing, or of another type, throws.      *)

Fields == {"left", "top", "width", "height", "window-handle"}

\* A JSON text with a screen type, without one ("none") or with an unknown one
\* ("other"), of which one field at most is missing.
Messages ==
    [type : {"none", "region", "full", "window", "other"},
     size : Sizes,
     fields : {Fields} \cup {Fields \ {f} : f \in Fields}]

Has(m, names) == names \subseteq m.fields

\* loadVideoCreaterOption(): the size as far as it was read.
CreaterSize(m) ==
    CASE m.type = "full" -> Screen
      [] m.type = "region" \/ (m.type = "window" /\ Has(m, {"window-handle"})) ->
            [w |-> IF Has(m, {"width"}) THEN m.size.w ELSE creater.w,
             h |-> IF Has(m, {"width", "height"}) THEN m.size.h ELSE creater.h]
      [] OTHER -> creater

CreaterRead(m) ==
    \/ m.type \in {"full", "other"}
    \/ /\ m.type \in {"region", "window"} /\ Has(m, {"width", "height"})
       /\ m.type = "window" => Has(m, {"window-handle"})

\* loadDesktopCaptureOption(), after the other two: it starts from zero, and
\* reads the position before the size.
DesktopSize(m) ==
    CASE m.type = "full" -> Screen
      [] m.type \in {"region", "window"} /\ Has(m, {"left", "top"}) -> m.size
      [] OTHER -> Zero

DesktopRead(m) == m.type \in {"full", "other"} \/ Has(m, {"left", "top"})

\* What the client asked for, when it named a type the agent knows.
AskedSize(m) == IF m.type = "full" THEN Screen ELSE m.size

\* wm_start(): an error of the parser is reported, and the start goes on.
Parse(m) ==
    /\ creater' = CreaterSize(m)
    /\ desktop' = IF CreaterRead(m) THEN DesktopSize(m) ELSE desktop
    /\ asked' = [understood |-> CreaterRead(m) /\ DesktopRead(m) /\ m.type # "other",
                 size |-> AskedSize(m)]

ParseFails == asked' = [asked EXCEPT !.understood = FALSE] /\ UNCHANGED <<creater, desktop>>

Start ==
    /\ ui = "idle" /\ encoder = "none" /\ starts < MaxStarts
    /\ starts' = starts + 1
    /\ ParseFails \/ \E m \in Messages : Parse(m)
    /\ ui' = "start media"
    /\ stopping' = FALSE
    /\ UNCHANGED <<capture, ffmpeg, encoder, bitmap, copied, streams, failures>>

-----------------------------------------------------------------------------
(* MediaBuffer::start() and VideoEncoder::start()                          *)

\* A new recorder, its desktop and its buffers; a microphone may refuse.
StartMedia ==
    /\ ui = "start media"
    /\ packets' = 0
    /\ \/ /\ tasks' = <<[task |-> "start", size |-> desktop]>>
          /\ ui' = "open" /\ UNCHANGED failures
       \/ /\ MayFail /\ Failed
          /\ tasks' = <<>> /\ ui' = "idle"
    /\ camera' = [on |-> FALSE, size |-> Zero] /\ bitmaps' = <<>>
    /\ UNCHANGED <<starts, options, ffmpeg, encoding, heard, video_pts, audio_pts>>

GivesUp == Failed /\ ui' = "give up"

\* open(): the format is found by the name of the file.
AllocOutput ==
    /\ ui = "open"
    /\ video_pts' \in Leftover /\ audio_pts' \in Leftover
    /\ \/ held' = {"oc"} /\ hardware' \in BOOLEAN /\ ui' = "open video" /\ UNCHANGED failures
       \/ MayFail /\ GivesUp /\ held' \in {{}, {"oc"}} /\ UNCHANGED hardware
    /\ file' = "none"
    /\ UNCHANGED <<starts, options, capture, leaked, encoding, packets, heard>>

Unowned == IF "context" \in held THEN 1 ELSE 0

\* open_video(): the context of an earlier attempt is overwritten.
OpenVideo ==
    /\ ui = "open video"
    /\ creater.w > 0 /\ creater.h > 0
    /\ leaked' = leaked + Unowned
    /\ held' = held \cup {"context", "sws"}
    /\ ui' = "add video stream"
    /\ UNCHANGED <<starts, options, capture, hardware, file, encoding, streams, failures>>

\* The codec may fail, and refuses a picture without pixels; after the one of
\* the graphics card comes the one of FFmpeg.
OpenVideoFails ==
    /\ ui = "open video"
    /\ MayFail \/ creater.w = 0 \/ creater.h = 0
    /\ leaked' = leaked + Unowned
    /\ held' \in {held \ {"context"}, held \cup {"context"}}
    /\ Failed
    /\ hardware' = FALSE
    /\ ui' = IF hardware THEN "open video" ELSE "give up"
    /\ UNCHANGED <<starts, options, capture, file, encoding, streams>>

\* A step of open() that takes `more` and goes on, or fails and keeps `kept`.
OpenStep(step, more, kept, next) ==
    /\ ui = step
    /\ \/ held' = held \cup more /\ ui' = next /\ UNCHANGED failures
       \/ MayFail /\ GivesUp /\ held' \in {held, held \cup kept}
    /\ UNCHANGED <<starts, options, capture, leaked, hardware, encoding, streams>>

\* The stream takes the context over, also when its parameters cannot be copied.
AddVideoStream ==
    /\ ui = "add video stream"
    /\ LET owned == (held \ {"context"}) \cup {"video"}
       IN  \/ held' = owned /\ ui' = "add audio stream" /\ UNCHANGED failures
           \/ MayFail /\ GivesUp /\ held' \in {held, owned}
    /\ UNCHANGED <<starts, options, capture, leaked, hardware, file, encoding, streams>>

AddAudioStream ==
    OpenStep("add audio stream", {"audio"}, {}, "open audio") /\ UNCHANGED file

\* It may fail before the resampler is there or after.
OpenAudio ==
    OpenStep("open audio", {"swr"}, {"swr"}, "open file") /\ UNCHANGED file

OpenFile ==
    /\ OpenStep("open file", {"pb"}, {}, "write header")
    /\ file' = IF "pb" \in held' THEN "created" ELSE file

\* is_opened_ is set when the header is written.
WriteHeader ==
    /\ OpenStep("write header", {"header"}, {}, "add task")
    /\ file' = IF "header" \in held' THEN "header" ELSE file

AddTask ==
    /\ ui = "add task"
    /\ encoder' = "starting"
    /\ ui' = "idle"
    /\ UNCHANGED <<starts, options, capture, ffmpeg, stopping, bitmap, copied, streams, failures>>

\* av_write_trailer() may fail, as on a full disk; close() does not look.
Trailed == IF "header" \in held THEN {"complete", "cut short"} ELSE {file}

\* mutant: the trailer is forgotten
CloseWithoutTrailer ==
    /\ held' = {}
    /\ leaked' = leaked + Unowned
    /\ UNCHANGED file

\* mutant: the streams are left to the context of the format
CloseWithoutStreams ==
    /\ held' = held \cap {"video", "audio", "sws", "swr"}
    /\ leaked' = leaked + Unowned
    /\ file' \in Trailed

\* close(), which the destructor calls: what the streams own is freed.
Close ==
    /\ held' = {}
    /\ leaked' = leaked + Unowned
    /\ file' \in Trailed

GiveUp ==
    /\ ui = "give up"
    /\ Close
    /\ tasks' = Append(tasks, [task |-> "stop", size |-> Zero])
    /\ ui' = "idle"
    /\ UNCHANGED <<starts, options, camera, bitmaps, hardware, encoding, streams, failures>>

\* stop(): the media and then the encoder.
Stop ==
    /\ ui = "idle" /\ encoder # "none" /\ ~stopping
    /\ tasks' = Append(tasks, [task |-> "stop", size |-> Zero])
    /\ stopping' = TRUE
    /\ UNCHANGED <<ui, starts, options, camera, bitmaps, ffmpeg, encoder, bitmap, copied, streams, failures>>

UI ==
    \/ Start \/ StartMedia \/ AllocOutput \/ OpenVideo \/ OpenVideoFails
    \/ AddVideoStream \/ AddAudioStream \/ OpenAudio \/ OpenFile \/ WriteHeader
    \/ AddTask \/ GiveUp \/ Stop

-----------------------------------------------------------------------------
(* The desktop's thread, and the packets of the microphone.                *)

RoundedUp(n, cell) == ((n + cell - 1) \div cell) * cell

\* getBitmapSize() of VideoCreater.
PictureSize(size) == RoundedUp(size.w, CELL) * RoundedUp(size.h, 2)

\* mutant: the height is left as it is
BitmapSizeAsAsked(size) == RoundedUp(size.w, CELL) * size.h

\* getBitmapSize() of DesktopCaptureOption.
BitmapSize(size) == RoundedUp(size.w, CELL) * RoundedUp(size.h, 2)

DesktopTask ==
    /\ tasks # <<>>
    /\ camera' = [on |-> Head(tasks).task = "start", size |-> Head(tasks).size]
    /\ tasks' = Tail(tasks)
    /\ UNCHANGED <<ui, starts, options, bitmaps, ffmpeg, encoding, streams, failures>>

Capture ==
    /\ camera.on /\ Len(bitmaps) < MaxBitmaps
    /\ bitmaps' = Append(bitmaps, BitmapSize(camera.size))
    /\ UNCHANGED <<ui, starts, options, tasks, camera, ffmpeg, encoding, streams, failures>>

Hear ==
    /\ encoder # "none" /\ ~stopping /\ heard < MaxPackets
    /\ heard' = heard + 1 /\ packets' = packets + 1
    /\ UNCHANGED <<ui, starts, options, capture, ffmpeg, encoding, video_pts, audio_pts, failures>>

-----------------------------------------------------------------------------
(* The encoder's thread                                                    *)

DoStart ==
    /\ encoder = "starting"
    /\ bitmap' = PictureSize(creater) /\ copied' = 0
    /\ encoder' = "recording"
    /\ UNCHANGED <<ui, starts, options, capture, ffmpeg, stopping, streams, failures>>

\* After an exception do_stop() returns at once.
DoStop ==
    /\ stopping /\ encoder = "recording"
    /\ encoder' = "draining"
    /\ UNCHANGED <<ui, starts, options, capture, ffmpeg, stopping, bitmap, copied, streams, failures>>

isVideoTurn == video_pts * VideoStep <= audio_pts * AudioStep
Writing == encoder \in {"recording", "draining"}

\* alloc_picture() and alloc_audio_frame(), twice each: where one fails, what was
\* allocated of the two frames is left to nobody.
AllocPictureFails == MayFail /\ Failed /\ leaked' \in leaked .. leaked + 2
AllocAudioFrameFails == MayFail /\ Failed /\ leaked' \in leaked .. leaked + 2

\* A picture that cannot be allocated leaves the time where it is, one that
\* cannot be encoded or written does not.
Picture ==
    \/ video_pts' = video_pts + 1 /\ UNCHANGED <<leaked, failures>>
    \/ MayFail /\ Failed /\ video_pts' = video_pts + 1 /\ UNCHANGED leaked
    \/ AllocPictureFails /\ UNCHANGED video_pts

\* mutant: without a bitmap nothing is written
WriteBitmapIfAny ==
    /\ Writing /\ isVideoTurn
    /\ IF bitmaps = <<>>
       THEN UNCHANGED <<bitmaps, copied, leaked, failures, video_pts>>
       ELSE Picture /\ copied' = Head(bitmaps) /\ bitmaps' = Tail(bitmaps)
    /\ UNCHANGED <<ui, starts, options, tasks, camera, held, hardware, file, encoder,
                   stopping, bitmap, packets, heard, audio_pts>>

\* The bitmap that is due, or the picture before once more.
WriteBitmap ==
    /\ Writing /\ isVideoTurn
    /\ \/ bitmaps # <<>> /\ copied' = Head(bitmaps) /\ bitmaps' = Tail(bitmaps)
       \/ UNCHANGED <<copied, bitmaps>>
    /\ Picture
    /\ UNCHANGED <<ui, starts, options, tasks, camera, held, hardware, file, encoder,
                   stopping, bitmap, packets, heard, audio_pts>>

WriteAudioPacket ==
    /\ Writing /\ ~isVideoTurn /\ packets > 0
    /\ packets' = packets - 1
    /\ \/ audio_pts' = audio_pts + 1 /\ UNCHANGED <<leaked, failures>>
       \/ MayFail /\ Failed /\ audio_pts' = audio_pts + 1 /\ UNCHANGED leaked
       \/ AllocAudioFrameFails /\ UNCHANGED audio_pts
    /\ UNCHANGED <<ui, starts, options, capture, held, hardware, file, encoding, heard, video_pts>>

EndDrain ==
    /\ encoder = "draining" /\ ~isVideoTurn /\ packets = 0
    /\ Close
    /\ encoder' = "none" /\ bitmap' = 0 /\ copied' = 0
    /\ UNCHANGED <<ui, starts, options, capture, hardware, stopping, streams, failures>>

\* An exception in do_repeat(): nothing completes the recording any more.
EncodingFails ==
    /\ encoder = "recording" /\ MayFail /\ Failed
    /\ Close
    /\ encoder' = "broken" /\ bitmap' = 0 /\ copied' = 0
    /\ UNCHANGED <<ui, starts, options, capture, hardware, stopping, streams>>

Encoder == DoStart \/ DoStop \/ WriteBitmap \/ WriteAudioPacket \/ EndDrain

Next == UI \/ DesktopTask \/ Capture \/ Hear \/ Encoder \/ EncodingFails

Spec == Init /\ [][Next]_vars

\* A START that was begun goes on, and the encoder's thread runs.
FairSpec == Spec /\ WF_vars(ui # "idle" /\ UI) /\ WF_vars(Encoder)

-----------------------------------------------------------------------------
(* Properties                                                              *)

AtRest == encoder \in {"none", "broken"} /\ ui \in {"idle", "start media", "open"}

\* A bitmap fills the encoder's picture exactly, although its size comes from
\* other options, on another thread, by another formula: memcpy() in
\* VideoEncoder::writeBitmap() takes it from the bitmap.  So it is when START
\* was understood and named a known screen type, whatever the ones before left.
BitmapFits == asked.understood /\ copied > 0 => copied = bitmap /\ bitmap = PictureSize(asked.size)

\* Whatever step of open() failed, nothing stays open between recordings, and
\* each failure has leaked two objects of FFmpeg at most.
NothingLeftOpen == (AtRest => held = {}) /\ leaked <= 2 * failures

\* The encoder writes between a header and a trailer: while it runs the file has
\* the one and not the other, and a file that was given a header is not left
\* without an attempt at its trailer, also when the encoder throws.  What an
\* attempt that failed leaves is cut short, and nobody is told.
FileCompleted ==
    /\ encoder \in {"starting", "recording", "draining"} => file = "header"
    /\ AtRest => file # "header"

\* A recording that is stopped is closed, although pictures that cannot be
\* allocated do not advance the time, unless they fail for ever.
DrainEnds == encoder = "draining" ~> encoder = "none"

=============================================================================
