---------------------------- MODULE MediaFileProofs ----------------------------
(***************************************************************************)
(* Theorems about MediaFile, for any sizes that START may ask for, any     *)
(* screen and any number of starts, bitmaps, packets and failures.         *)
(***************************************************************************)
EXTENDS MediaFile, SequenceTheorems, TLAPS

\* START was understood: both options hold what it asked for.
OptionsAgree == asked.understood => creater = desktop /\ asked.size = desktop

StartTask == [task |-> "start", size |-> desktop]
StopTask == [task |-> "stop", size |-> Zero]

\* From StartMedia on, all that the desktop does is of the size of its options.
DesktopSized ==
    ui # "start media" =>
        /\ tasks \in Seq({StartTask, StopTask})
        /\ camera.on => camera.size = desktop
        /\ bitmaps \in Seq({BitmapSize(desktop)})

\* The encoder writes only while the UI thread is idle and the options stay.
EncoderSized ==
    /\ encoder # "none" => ui = "idle"
    /\ copied # 0 => encoder \in {"recording", "draining"} /\ copied = BitmapSize(desktop)
    /\ encoder \in {"recording", "draining"} => bitmap = PictureSize(creater)

FileHeaded ==
    /\ file = "header" => "header" \in held
    /\ ui = "add task" \/ encoder \in {"starting", "recording", "draining"} => file = "header"

\* Each failure pays for two leaks; a context that is still held has been paid
\* for, but for the one that the attempt at hand has just made.
Paid(l, u, f) == l \in Nat /\ u \in Nat /\ f \in Nat /\ l + u <= 2 * f

LeaksPaid ==
    /\ Paid(leaked, 0, failures)
    /\ ui # "add video stream" => Paid(leaked, Unowned, failures)

FileInv ==
    /\ OptionsAgree /\ DesktopSized /\ EncoderSized
    /\ FileHeaded /\ (AtRest => held = {}) /\ LeaksPaid
-------------------------------------------------------------------------------
LEMMA Sequenced ==
    ASSUME NEW S
    PROVE  /\ <<>> \in Seq(S)
           /\ \A e \in S : <<e>> \in Seq(S) /\ \A s \in Seq(S) : Append(s, e) \in Seq(S)
           /\ \A s \in Seq(S) : s # <<>> => Tail(s) \in Seq(S) /\ Head(s) \in S
OBVIOUS

LEMMA InitFile == Init => FileInv
<1> SUFFICES ASSUME Init PROVE FileInv
    OBVIOUS
<1>1. OptionsAgree
    BY DEF Init, OptionsAgree
<1>2. DesktopSized
    <2>1. tasks = <<>> /\ bitmaps = <<>> /\ ~camera.on
        BY DEF Init
    <2>2. <<>> \in Seq({StartTask, StopTask}) /\ <<>> \in Seq({BitmapSize(desktop)})
        BY Sequenced
    <2> QED
        BY <2>1, <2>2 DEF DesktopSized
<1>3. EncoderSized
    BY DEF Init, EncoderSized
<1>4. FileHeaded /\ (AtRest => held = {}) /\ LeaksPaid
    BY DEF Init, FileHeaded, LeaksPaid, Unowned, Paid
<1> QED
    BY <1>1, <1>2, <1>3, <1>4 DEF FileInv

\* What was understood is in both options: by the three parsers, each type of
\* screen reads the same size into them or throws.
LEMMA ParsedAlike ==
    ASSUME NEW m \in Messages, Parse(m)
    PROVE  OptionsAgree'
<1> SUFFICES ASSUME CreaterRead(m), DesktopRead(m), m.type # "other"
             PROVE  creater' = desktop' /\ asked'.size = desktop'
    BY DEF Parse, OptionsAgree
<1>1. creater' = CreaterSize(m) /\ desktop' = DesktopSize(m) /\ asked'.size = AskedSize(m)
    BY DEF Parse
<1>2. m.type \in {"none", "region", "full", "window", "other"} /\ m.size \in [w : Nat, h : Nat]
    BY MediaFileAssumption DEF Messages
<1>3. m.size = [w |-> m.size.w, h |-> m.size.h]
    BY <1>2
<1>4. CASE m.type = "full"
    BY <1>1, <1>4 DEF CreaterSize, DesktopSize, AskedSize
<1>5. CASE m.type = "region" \/ m.type = "window"
    <2>1. Has(m, {"width", "height"}) /\ Has(m, {"left", "top"}) /\ (m.type = "window" => Has(m, {"window-handle"}))
        BY <1>5 DEF CreaterRead, DesktopRead
    <2>2. Has(m, {"width"})
        BY <2>1 DEF Has
    <2>3. CreaterSize(m) = [w |-> m.size.w, h |-> m.size.h]
        BY <1>5, <2>1, <2>2 DEF CreaterSize
    <2>4. DesktopSize(m) = m.size /\ AskedSize(m) = m.size
        BY <1>5, <2>1 DEF DesktopSize, AskedSize
    <2> QED
        BY <1>1, <1>3, <2>3, <2>4
<1>6. m.type \in {"region", "full", "window"}
    BY <1>2 DEF CreaterRead
<1> QED
    BY <1>4, <1>5, <1>6

\* Nothing of the sizes changes but what the desktop and the encoder do.
LEMMA SizesKept ==
    ASSUME OptionsAgree, DesktopSized, EncoderSized, UNCHANGED <<options, tasks, camera, bitmaps, encoder, bitmap, copied>>,
           ui' # "start media", encoder # "none" => ui' = "idle", ui # "start media"
    PROVE  OptionsAgree' /\ DesktopSized' /\ EncoderSized'
BY DEF OptionsAgree, DesktopSized, EncoderSized, options, StartTask, StopTask, BitmapSize, PictureSize, RoundedUp

LEMMA SizesStep == FileInv /\ Next => OptionsAgree' /\ DesktopSized' /\ EncoderSized'
<1> SUFFICES ASSUME FileInv, Next PROVE OptionsAgree' /\ DesktopSized' /\ EncoderSized'
    OBVIOUS
<1>i. OptionsAgree /\ DesktopSized /\ EncoderSized
    BY DEF FileInv
<1>s. ASSUME UNCHANGED options
      PROVE  /\ OptionsAgree' /\ StartTask' = StartTask /\ StopTask' = StopTask
             /\ BitmapSize(desktop)' = BitmapSize(desktop) /\ PictureSize(creater)' = PictureSize(creater)
             /\ creater' = creater /\ desktop' = desktop
    BY <1>i, <1>s DEF options, OptionsAgree, StartTask, StopTask, BitmapSize, PictureSize, RoundedUp
<1>1. CASE Start
    <2>1. OptionsAgree'
        <3>1. CASE ParseFails
            BY <3>1 DEF ParseFails, OptionsAgree
        <3>2. CASE \E m \in Messages : Parse(m)
            BY <3>2, ParsedAlike
        <3> QED
            BY <1>1, <3>1, <3>2 DEF Start
    <2>2. ui' = "start media" /\ encoder = "none" /\ UNCHANGED <<encoder, copied>>
        BY <1>1 DEF Start
    <2> QED
        BY <1>i, <2>1, <2>2 DEF DesktopSized, EncoderSized
<1>2. CASE StartMedia
    <2>1. /\ UNCHANGED <<options, encoder, bitmap, copied>> /\ ui = "start media" /\ bitmaps' = <<>> /\ ~camera'.on
          /\ tasks' = <<>> \/ tasks' = <<StartTask>>
        BY <1>2 DEF StartMedia, encoding, StartTask
    <2>2. tasks' \in Seq({StartTask', StopTask'})
        <3>1. <<>> \in Seq({StartTask, StopTask}) /\ <<StartTask>> \in Seq({StartTask, StopTask})
            BY Sequenced
        <3> QED
            BY <1>s, <2>1, <3>1
    <2>3. bitmaps' \in Seq({BitmapSize(desktop)'})
        BY <2>1, Sequenced
    <2>4. encoder = "none" /\ copied = 0
        BY <1>i, <2>1 DEF EncoderSized
    <2> QED
        BY <1>s, <2>1, <2>2, <2>3, <2>4 DEF DesktopSized, EncoderSized
<1>3. CASE AllocOutput \/ OpenVideo \/ OpenVideoFails \/ AddVideoStream \/ AddAudioStream \/ OpenAudio \/ OpenFile
           \/ WriteHeader
    <2>1. /\ UNCHANGED <<options, tasks, camera, bitmaps, encoder, bitmap, copied>>
          /\ ui \notin {"idle", "start media"} /\ ui' # "start media"
        BY <1>3 DEF AllocOutput, OpenVideo, OpenVideoFails, AddVideoStream, AddAudioStream, OpenAudio, OpenFile,
           WriteHeader, OpenStep, GivesUp, capture, encoding
    <2> QED
        BY <1>i, <2>1, SizesKept DEF EncoderSized
<1>4. CASE AddTask
    <2>1. /\ UNCHANGED <<options, tasks, camera, bitmaps, bitmap, copied>> /\ ui = "add task" /\ ui' = "idle"
          /\ encoder' = "starting"
        BY <1>4 DEF AddTask, capture
    <2>2. copied = 0
        BY <1>i, <2>1 DEF EncoderSized
    <2> QED
        BY <1>i, <1>s, <2>1, <2>2 DEF DesktopSized, EncoderSized
<1>5. CASE GiveUp \/ Stop
    <2>1. /\ UNCHANGED <<options, camera, bitmaps, encoder, bitmap, copied>> /\ ui # "start media" /\ ui' = "idle"
          /\ tasks' = Append(tasks, StopTask)
        BY <1>5 DEF GiveUp, Stop, StopTask, encoding
    <2>2. tasks' \in Seq({StartTask, StopTask})
        BY <1>i, <2>1, Sequenced DEF DesktopSized
    <2> QED
        BY <1>i, <1>s, <2>1, <2>2 DEF DesktopSized, EncoderSized
<1>6. CASE DesktopTask
    <2>1. /\ UNCHANGED <<ui, options, bitmaps, encoder, bitmap, copied>> /\ tasks # <<>> /\ tasks' = Tail(tasks)
          /\ camera'.on = (Head(tasks).task = "start") /\ camera'.size = Head(tasks).size
        BY <1>6 DEF DesktopTask, encoding
    <2>2. ASSUME ui # "start media"
          PROVE  tasks' \in Seq({StartTask, StopTask}) /\ (camera'.on => camera'.size = desktop)
        <3>1. tasks \in Seq({StartTask, StopTask})
            BY <1>i, <2>2 DEF DesktopSized
        <3>2. tasks' \in Seq({StartTask, StopTask}) /\ Head(tasks) \in {StartTask, StopTask}
            BY <2>1, <3>1, Sequenced
        <3>3. /\ StartTask.size = desktop /\ StopTask.task = "stop"
            BY DEF StartTask, StopTask
        <3> QED
            BY <2>1, <3>2, <3>3
    <2> QED
        BY <1>i, <1>s, <2>1, <2>2 DEF DesktopSized, EncoderSized
<1>7. CASE Capture
    <2>1. /\ UNCHANGED <<ui, options, tasks, camera, encoder, bitmap, copied>> /\ camera.on
          /\ bitmaps' = Append(bitmaps, BitmapSize(camera.size))
        BY <1>7 DEF Capture, encoding
    <2>2. ASSUME ui # "start media" PROVE bitmaps' \in Seq({BitmapSize(desktop)})
        <3>1. bitmaps \in Seq({BitmapSize(desktop)}) /\ camera.size = desktop
            BY <1>i, <2>1, <2>2 DEF DesktopSized
        <3> QED
            BY <2>1, <3>1
    <2> QED
        BY <1>i, <1>s, <2>1, <2>2 DEF DesktopSized, EncoderSized
<1>8. CASE Hear
    <2>1. UNCHANGED <<ui, options, tasks, camera, bitmaps, encoder, bitmap, copied>> /\ encoder # "none"
        BY <1>8 DEF Hear, capture, encoding
    <2> QED
        BY <1>i, <2>1, SizesKept DEF EncoderSized
<1>9. CASE DoStart
    <2>1. /\ UNCHANGED <<ui, options, tasks, camera, bitmaps>> /\ encoder = "starting" /\ encoder' = "recording"
          /\ bitmap' = PictureSize(creater) /\ copied' = 0
        BY <1>9 DEF DoStart, capture
    <2> QED
        BY <1>i, <1>s, <2>1 DEF DesktopSized, EncoderSized
<1>10. CASE DoStop
    <2>1. /\ UNCHANGED <<ui, options, tasks, camera, bitmaps, bitmap, copied>>
          /\ encoder = "recording" /\ encoder' = "draining"
        BY <1>10 DEF DoStop, capture
    <2> QED
        BY <1>i, <1>s, <2>1 DEF DesktopSized, EncoderSized
<1>11. CASE WriteBitmap
    <2>1. /\ UNCHANGED <<ui, options, tasks, camera, encoder, bitmap>> /\ encoder \in {"recording", "draining"}
          /\ \/ bitmaps # <<>> /\ copied' = Head(bitmaps) /\ bitmaps' = Tail(bitmaps)
             \/ UNCHANGED <<copied, bitmaps>>
        BY <1>11 DEF WriteBitmap, Writing
    <2>2. ui = "idle" /\ bitmaps \in Seq({BitmapSize(desktop)})
        BY <1>i, <2>1 DEF DesktopSized, EncoderSized
    <2>3. bitmaps' \in Seq({BitmapSize(desktop)}) /\ (copied' = copied \/ copied' = BitmapSize(desktop))
        BY <2>1, <2>2
    <2> QED
        BY <1>i, <1>s, <2>1, <2>3 DEF DesktopSized, EncoderSized
<1>12. CASE WriteAudioPacket
    <2>1. UNCHANGED <<ui, options, tasks, camera, bitmaps, encoder, bitmap, copied>> /\ encoder # "none"
        BY <1>12 DEF WriteAudioPacket, Writing, capture, encoding
    <2> QED
        BY <1>i, <2>1, SizesKept DEF EncoderSized
<1>13. CASE EndDrain \/ EncodingFails
    <2>1. /\ UNCHANGED <<ui, options, tasks, camera, bitmaps>> /\ encoder \in {"draining", "recording"}
          /\ encoder' \in {"none", "broken"} /\ copied' = 0
        BY <1>13 DEF EndDrain, EncodingFails, capture
    <2> QED
        BY <1>i, <1>s, <2>1 DEF DesktopSized, EncoderSized
<1> QED
    BY <1>1, <1>2, <1>3, <1>4, <1>5, <1>6, <1>7, <1>8, <1>9, <1>10, <1>11, <1>12, <1>13 DEF Next, UI, Encoder
-------------------------------------------------------------------------------
(* What is open, and what has leaked                                       *)

LEMMA Owned == Unowned \in {0, 1} /\ ("context" \notin held => Unowned = 0)
BY DEF Unowned

LEMMA OwnedNext == Unowned' \in {0, 1} /\ ("context" \notin held' => Unowned' = 0)
BY DEF Unowned

LEMMA PaidMore ==
    ASSUME NEW l, NEW u, NEW f, Paid(l, u, f)
    PROVE  /\ Paid(l, 0, f) /\ Paid(l + u, 0, f)
           /\ Paid(l, 0, f + 1) /\ Paid(l, u, f + 1) /\ Paid(l + u, 0, f + 1)
           /\ \A v \in {0, 1} : Paid(l, v, f + 1) /\ Paid(l + u, v, f + 1)
           /\ \A k \in l .. l + 2 : Paid(k, u, f + 1) /\ Paid(k, 0, f + 1)
BY DEF Paid

LEMMA CloseStep ==
    ASSUME FileInv, Close, ui # "add video stream", (failures' = failures \/ failures' = failures + 1),
           ui' = "idle", encoder' \in {"none", "broken"}
    PROVE  FileHeaded' /\ held' = {} /\ LeaksPaid'
<1>1. held' = {} /\ leaked' = leaked + Unowned /\ file' \in IF "header" \in held THEN {"complete", "cut short"} ELSE {file}
    BY DEF Close, Trailed
<1>2. FileHeaded'
    BY <1>1 DEF FileInv, FileHeaded
<1>3. Unowned' = 0
    BY <1>1, OwnedNext
<1>4. Paid(leaked + Unowned, 0, failures) /\ Paid(leaked + Unowned, 0, failures + 1)
    BY PaidMore DEF FileInv, LeaksPaid
<1> QED
    BY <1>1, <1>2, <1>3, <1>4 DEF LeaksPaid

\* A step of open() that neither makes nor takes over a context.
LEMMA OpenStepKeeps ==
    ASSUME FileInv, UNCHANGED leaked, ui # "add video stream", ui' \notin {"idle", "start media", "open", "add video stream"},
           (failures' = failures \/ failures' = failures + 1), held \subseteq held', "context" \in held' => "context" \in held,
           file' = "header" => "header" \in held', ui' = "add task" => file' = "header", encoder' = "none"
    PROVE  FileHeaded' /\ (AtRest' => held' = {}) /\ LeaksPaid'
<1>1. FileHeaded' /\ ~AtRest'
    BY DEF FileHeaded, AtRest
<1>2. Paid(leaked, Unowned, failures)
    BY DEF FileInv, LeaksPaid
<1>3. Unowned' = Unowned
    BY DEF Unowned
<1>4. Paid(leaked', 0, failures') /\ Paid(leaked', Unowned', failures')
    BY <1>2, <1>3, PaidMore
<1> QED
    BY <1>1, <1>4 DEF LeaksPaid

LEMMA OpenedStep == FileInv /\ Next => FileHeaded' /\ (AtRest' => held' = {}) /\ LeaksPaid'
<1> SUFFICES ASSUME FileInv, Next PROVE FileHeaded' /\ (AtRest' => held' = {}) /\ LeaksPaid'
    OBVIOUS
<1>i. /\ FileHeaded /\ LeaksPaid
      /\ AtRest => held = {}
      /\ encoder # "none" => ui = "idle"
    BY DEF FileInv, EncoderSized
<1>n. Paid(leaked, 0, failures) /\ (ui # "add video stream" => Paid(leaked, Unowned, failures))
    BY <1>i DEF LeaksPaid
<1>u. ASSUME UNCHANGED <<held, leaked, failures, file>>, ui # "add video stream", AtRest' => AtRest,
             ui' # "add task",
             encoder' \in {"starting", "recording", "draining"} =>
                 encoder \in {"starting", "recording", "draining"} \/ ui = "add task"
      PROVE  FileHeaded' /\ (AtRest' => held' = {}) /\ LeaksPaid'
    BY <1>i, <1>u DEF FileHeaded, LeaksPaid, Unowned
<1>1. CASE Start \/ AddTask \/ Stop \/ DesktopTask \/ Capture \/ Hear \/ DoStart \/ DoStop
    <2>1. UNCHANGED <<held, leaked, failures, file>>
        BY <1>1 DEF Start, AddTask, Stop, DesktopTask, Capture, Hear, DoStart, DoStop, ffmpeg
    <2>2. CASE DesktopTask \/ Capture \/ Hear
        <3>1. UNCHANGED <<ui, encoder>>
            BY <2>2 DEF DesktopTask, Capture, Hear, encoding
        <3> QED
            BY <1>i, <2>1, <3>1 DEF FileHeaded, LeaksPaid, Unowned, AtRest
    <2>3. CASE Start \/ AddTask \/ Stop \/ DoStart \/ DoStop
        <3>1. ui # "add video stream" /\ (AtRest' => AtRest)
            BY <1>i, <2>3 DEF Start, AddTask, Stop, DoStart, DoStop, AtRest
        <3>2. /\ ui' # "add task"
              /\ encoder' \in {"starting", "recording", "draining"} =>
                     encoder \in {"starting", "recording", "draining"} \/ ui = "add task"
            BY <1>i, <2>3 DEF Start, AddTask, Stop, DoStart, DoStop
        <3> QED
            BY <1>u, <2>1, <3>1, <3>2
    <2> QED
        BY <1>1, <2>2, <2>3
<1>2. CASE StartMedia
    <2>1. /\ UNCHANGED <<held, leaked, file, encoder>> /\ ui = "start media" /\ (failures' = failures \/ failures' = failures + 1)
          /\ ui' \in {"open", "idle"}
        BY <1>2 DEF StartMedia, Failed, ffmpeg, encoding
    <2>2. AtRest' => AtRest
        BY <2>1 DEF AtRest
    <2>3. Unowned' = Unowned
        BY <2>1 DEF Unowned
    <2>4. LeaksPaid'
        BY <1>n, <2>1, <2>3, PaidMore DEF LeaksPaid
    <2> QED
        BY <1>i, <2>1, <2>2, <2>4 DEF FileHeaded
<1>3. CASE AllocOutput
    <2>1. /\ UNCHANGED leaked /\ "context" \notin held' /\ file' = "none" /\ ui = "open" /\ encoder' = "none"
          /\ ui' \in {"open video", "give up"} /\ (failures' = failures \/ failures' = failures + 1)
        BY <1>i, <1>3 DEF AllocOutput, GivesUp, Failed, encoding
    <2>2. Unowned' = 0
        BY <2>1 DEF Unowned
    <2>3. LeaksPaid'
        BY <1>n, <2>1, <2>2, PaidMore DEF LeaksPaid
    <2> QED
        BY <2>1, <2>3 DEF FileHeaded, AtRest
<1>4. CASE OpenVideo
    <2>1. /\ leaked' = leaked + Unowned /\ ui = "open video" /\ ui' = "add video stream" /\ held \subseteq held'
          /\ UNCHANGED <<file, failures>> /\ encoder' = "none"
        BY <1>i, <1>4 DEF OpenVideo, encoding
    <2>2. LeaksPaid'
        BY <1>n, <2>1, OwnedNext, PaidMore DEF LeaksPaid
    <2> QED
        BY <1>i, <2>1, <2>2 DEF FileHeaded, AtRest
<1>5. CASE OpenVideoFails
    <2>1. /\ leaked' = leaked + Unowned /\ ui = "open video" /\ ui' \in {"open video", "give up"}
          /\ "header" \in held => "header" \in held'
          /\ UNCHANGED file /\ failures' = failures + 1 /\ encoder' = "none"
        BY <1>i, <1>5 DEF OpenVideoFails, Failed, encoding
    <2>2. LeaksPaid'
        BY <1>n, <2>1, OwnedNext, PaidMore DEF LeaksPaid
    <2> QED
        BY <1>i, <2>1, <2>2 DEF FileHeaded, AtRest
<1>6. CASE AddVideoStream
    <2>1. /\ UNCHANGED <<leaked, file>> /\ ui = "add video stream" /\ ui' \in {"add audio stream", "give up"}
          /\ "header" \in held => "header" \in held'
          /\ \/ "context" \notin held' /\ UNCHANGED failures
             \/ failures' = failures + 1
          /\ encoder' = "none"
        BY <1>i, <1>6 DEF AddVideoStream, GivesUp, Failed, encoding
    <2>2. LeaksPaid'
        BY <1>n, <2>1, OwnedNext, PaidMore DEF LeaksPaid
    <2> QED
        BY <1>i, <2>1, <2>2 DEF FileHeaded, AtRest
<1>7. CASE AddAudioStream \/ OpenAudio \/ OpenFile \/ WriteHeader
    <2>1. /\ UNCHANGED leaked /\ ui # "add video stream" /\ (failures' = failures \/ failures' = failures + 1)
          /\ ui' \notin {"idle", "start media", "open", "add video stream"}
          /\ held \subseteq held' /\ ("context" \in held' => "context" \in held) /\ encoder' = "none"
        BY <1>i, <1>7 DEF AddAudioStream, OpenAudio, OpenFile, WriteHeader, OpenStep, GivesUp, Failed, encoding
    <2>2. \/ UNCHANGED file \/ file' = "created" \/ (file' = "header" /\ "header" \in held')
        BY <1>7 DEF AddAudioStream, OpenAudio, OpenFile, WriteHeader
    <2>3. ui' = "add task" => file' = "header"
        BY <1>7 DEF AddAudioStream, OpenAudio, OpenFile, WriteHeader, OpenStep, GivesUp
    <2>4. file' = "header" => "header" \in held'
        BY <1>i, <2>1, <2>2 DEF FileHeaded
    <2> QED
        BY <2>1, <2>3, <2>4, OpenStepKeeps
<1>8. CASE GiveUp \/ EndDrain \/ EncodingFails
    <2>1. /\ Close /\ ui # "add video stream" /\ (failures' = failures \/ failures' = failures + 1)
          /\ ui' = "idle" /\ encoder' \in {"none", "broken"}
        BY <1>8, <1>i DEF GiveUp, EndDrain, EncodingFails, Failed, encoding
    <2> QED
        BY <2>1, CloseStep
<1>9. CASE WriteBitmap \/ WriteAudioPacket
    <2>1. /\ UNCHANGED <<ui, encoder, held, file>> /\ encoder \in {"recording", "draining"}
          /\ \/ leaked' = leaked /\ (failures' = failures \/ failures' = failures + 1)
             \/ leaked' \in leaked .. leaked + 2 /\ failures' = failures + 1
        BY <1>9 DEF WriteBitmap, WriteAudioPacket, Writing, Picture, AllocPictureFails, AllocAudioFrameFails, Failed,
           encoding
    <2>2. Unowned' = Unowned /\ ~AtRest' /\ ui = "idle"
        BY <1>i, <2>1 DEF Unowned, AtRest
    <2>3. LeaksPaid'
        BY <1>n, <2>1, <2>2, PaidMore DEF LeaksPaid
    <2> QED
        BY <1>i, <2>1, <2>2, <2>3 DEF FileHeaded
<1> QED
    BY <1>1, <1>2, <1>3, <1>4, <1>5, <1>6, <1>7, <1>8, <1>9 DEF Next, UI, Encoder
-------------------------------------------------------------------------------
(* The theorems                                                            *)

\* The sizes, what is open and what has leaked, together.
THEOREM FileInvariant == Spec => []FileInv
<1>1. Init => FileInv
    BY InitFile
<1>2. FileInv /\ [Next]_vars => FileInv'
    <2>1. FileInv /\ Next => FileInv'
        BY SizesStep, OpenedStep DEF FileInv
    <2>2. FileInv /\ UNCHANGED vars => FileInv'
        BY DEF FileInv, vars, options, capture, ffmpeg, encoding, streams, OptionsAgree, DesktopSized, EncoderSized,
           FileHeaded, LeaksPaid, AtRest, Unowned, StartTask, StopTask, BitmapSize, PictureSize, RoundedUp
    <2> QED
        BY <2>1, <2>2
<1> QED
    BY <1>1, <1>2, PTL DEF Spec

\* For every size that START may ask for, and any alignment of the bitmaps, what
\* writeBitmap() copies is as large as the picture it copies it to.
THEOREM CopyFits == Spec => []BitmapFits
<1>1. FileInv => BitmapFits
    <2> SUFFICES ASSUME FileInv, asked.understood, copied > 0
                 PROVE  copied = bitmap /\ bitmap = PictureSize(asked.size)
        BY DEF BitmapFits
    <2>1. creater = desktop /\ asked.size = desktop
        BY DEF FileInv, OptionsAgree
    <2>2. copied = BitmapSize(desktop) /\ bitmap = PictureSize(creater)
        BY DEF FileInv, EncoderSized
    <2>3. BitmapSize(desktop) = PictureSize(desktop)
        BY DEF BitmapSize, PictureSize
    <2> QED
        BY <2>1, <2>2, <2>3
<1> QED
    BY <1>1, FileInvariant, PTL

\* Whatever steps of open() and of the encoder fail, close() has freed what was
\* open when the recorder rests, and leaks are at most two for a failure.
THEOREM NothingStaysOpen == Spec => []NothingLeftOpen
<1>1. FileInv => NothingLeftOpen
    <2>1. Paid(leaked, 0, failures) => leaked <= 2 * failures
        BY DEF Paid
    <2> QED
        BY <2>1 DEF FileInv, LeaksPaid, NothingLeftOpen
<1> QED
    BY <1>1, FileInvariant, PTL

\* Whatever fails, pictures and packets are written between a header and a
\* trailer, and no file with a header is left without an attempt at its trailer.
THEOREM HeaderAndTrailer == Spec => []FileCompleted
<1>1. FileInv => FileCompleted
    BY DEF FileInv, FileHeaded, FileCompleted
<1> QED
    BY <1>1, FileInvariant, PTL

===============================================================================
