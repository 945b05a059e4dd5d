------------------------ MODULE DesktopRecorderProofs -------------------------
(***************************************************************************)
(* Theorems about DesktopRecorder, for any durations of bitmaps and        *)
(* packets, any content of the time stamps that are never initialised, and *)
(* any number of starts, pauses, packets, bitmaps, writes that fail and    *)
(* exceptions; and                                                         *)
(* about KeepAlive, the watch on the main program in the same class.       *)
(***************************************************************************)
EXTENDS MCDesktopRecorder, KeepAlive, SequenceTheorems, TLAPS

\* What is checked before a step and holds until it.
Ready ==
    /\ hearing = "data" => index < MaxPackets
    /\ shooting = "shot" => frames < MaxFrames

\* start() has begun and has not reached the encoder.
Starting == ui \in {"audio started", "media started"}
Waits(tasks) == \E i \in DOMAIN tasks : tasks[i] = "START"
Single(tasks) == \A i, j \in DOMAIN tasks : tasks[i] = "START" /\ tasks[j] = "START" => i = j
Pending == Waits(etasks)

\* is_started_ is set exactly while the encoder has a recording before it or
\* under way, and there is one: each completes, or fails, at most one start().
OneRecording ==
    /\ is_started <=> (encoder # "none" \/ Pending)
    /\ encoder # "none" => ~Pending
    /\ Single(etasks)
    /\ completions + failures + (IF is_started THEN 1 ELSE 0) + (IF Starting THEN 1 ELSE 0) <= starts

\* The last task decides what the desktop will do.
DesktopTold(b) ==
    /\ dtasks # <<>> => dtasks[Len(dtasks)] = TaskFor(b)
    /\ dtasks = <<>> => (shooting # "off" <=> b)

MediaInv ==
    /\ ui # "idle" => state = "Stoped"
    /\ capturing <=> (state = "Started" \/ Starting)
    /\ DesktopTold(state = "Started" \/ ui = "media started")

\* In the first recording the packets are numbered through from the file to
\* queue_, and neither bitmaps nor audio_sync_ are ahead of the file.
FirstInv ==
    /\ starts = 0 => /\ ~capturing /\ hearing = "idle" /\ index = 0 /\ audio = <<>>
                     /\ ~is_started /\ ~Starting /\ drawn = <<>>
                     /\ state = "Stoped"
    /\ starts <= 1 =>
        /\ index = Len(drawn) + Len(audio)
        /\ \A i \in 1 .. Len(audio) : audio[i] = Len(drawn) + i
        /\ audio_sync <= Len(drawn)
        /\ \A i \in 1 .. Len(shown) : shown[i].tag <= Len(drawn)
        /\ Starting \/ Pending => drawn = <<>>

\* In the first recording the packets are drawn as they are numbered, and one
\* that is not written was reported.
DrawnInv ==
    starts <= 1 =>
        \A i \in 1 .. Len(drawn) : drawn[i].number = i /\ (drawn[i].written \/ errors > 0)

DRInv == TypeOK /\ Ready /\ OneRecording /\ MediaInv /\ FirstInv /\ DrawnInv
-------------------------------------------------------------------------------
(* Sequences                                                               *)

LEMMA Pushed ==
    ASSUME NEW S, NEW s \in Seq(S), NEW e \in S
    PROVE  /\ Append(s, e) \in Seq(S) /\ Len(Append(s, e)) = Len(s) + 1 /\ Len(s) \in Nat
           /\ \A i \in 1 .. Len(s) : Append(s, e)[i] = s[i]
           /\ Append(s, e)[Len(s) + 1] = e
           /\ DOMAIN s = 1 .. Len(s) /\ DOMAIN Append(s, e) = 1 .. Len(s) + 1
<1>1. Append(s, e) \in Seq(S) /\ Len(Append(s, e)) = Len(s) + 1
    BY AppendProperties
<1>2. Len(s) \in Nat /\ DOMAIN s = 1 .. Len(s) /\ DOMAIN Append(s, e) = 1 .. Len(Append(s, e))
    BY <1>1, LenProperties
<1> QED
    BY <1>1, <1>2, AppendProperties

LEMMA Popped ==
    ASSUME NEW S, NEW s \in Seq(S), s # <<>>
    PROVE  /\ Tail(s) \in Seq(S) /\ Head(s) \in S /\ Head(s) = s[1]
           /\ Len(s) \in Nat \ {0} /\ Len(Tail(s)) = Len(s) - 1
           /\ \A i \in 1 .. Len(s) - 1 : Tail(s)[i] = s[i + 1]
           /\ DOMAIN s = 1 .. Len(s) /\ DOMAIN Tail(s) = 1 .. Len(s) - 1
OBVIOUS

LEMMA Bounds ==
    /\ INTERVAL_AUDIO_COUNT_LIMIT \in Nat \ {0} /\ MaxPackets \in Nat /\ MaxFrames \in Nat
    /\ MaxStarts \in Nat /\ MaxPauses \in Nat /\ MaxErrors \in Nat /\ MaxFailures \in Nat
BY RecorderAssumption

\* What TypeOK says of the numbers.
LEMMA Numbers ==
    ASSUME TypeOK
    PROVE  /\ index \in Nat /\ index <= MaxPackets /\ audio_mark \in Int /\ audio_sync \in Int
           /\ frames \in Nat /\ frames <= MaxFrames /\ polls \in Nat
           /\ starts \in Nat /\ starts <= MaxStarts /\ pauses \in Nat /\ pauses <= MaxPauses
           /\ failures \in Nat /\ failures <= MaxFailures
           /\ errors \in Nat /\ errors <= MaxErrors
           /\ completions \in Nat /\ completions <= MaxStarts
           /\ video_pts \in Int /\ audio_pts \in Nat
<1>1. /\ index \in 0 .. MaxPackets /\ audio_mark \in -1 .. MaxPackets /\ audio_sync \in -1 .. MaxPackets
      /\ frames \in 0 .. MaxFrames /\ polls \in 0 .. INTERVAL_AUDIO_COUNT_LIMIT - 1
      /\ starts \in 0 .. MaxStarts /\ pauses \in 0 .. MaxPauses
      /\ failures \in 0 .. MaxFailures /\ completions \in 0 .. MaxStarts /\ errors \in 0 .. MaxErrors
      /\ video_pts \in Int /\ audio_pts \in Nat
    BY DEF TypeOK
<1> QED
    BY <1>1, Bounds

\* Ranges, one at a time.
LEMMA Within == \A m \in Nat :
    /\ 0 \in 0 .. m /\ -1 \in -1 .. m
    /\ \A n \in Nat : (n <= m => n \in 0 .. m /\ n \in -1 .. m)
                    /\ (n < m => n + 1 \in 1 .. m /\ n + 1 \in 0 .. m)
OBVIOUS

LEMMA InitRecorder == Init => DRInv
<1> SUFFICES ASSUME Init PROVE DRInv
    OBVIOUS
<1> USE DEF Init
<1>e. /\ \A S : <<>> \in Seq(S)
      /\ Len(<<>>) = 0 /\ DOMAIN <<>> = {}
    OBVIOUS
<1>1. TypeOK
    <2>1. /\ audio \in Seq(1 .. MaxPackets) /\ drawn \in Seq(Packet) /\ bitmaps \in Seq(Bitmap)
          /\ shown \in Seq(Bitmap) /\ dtasks \in Seq(Task) /\ etasks \in Seq(Task)
        BY <1>e
    <2>2. /\ index \in 0 .. MaxPackets /\ audio_mark \in -1 .. MaxPackets /\ audio_sync \in -1 .. MaxPackets
          /\ frames \in 0 .. MaxFrames
        BY RecorderAssumption
    <2>3. /\ polls \in 0 .. INTERVAL_AUDIO_COUNT_LIMIT - 1 /\ starts \in 0 .. MaxStarts
          /\ pauses \in 0 .. MaxPauses /\ failures \in 0 .. MaxFailures /\ completions \in 0 .. MaxStarts
          /\ errors \in 0 .. MaxErrors
        BY RecorderAssumption
    <2>4. video_pts \in Int /\ audio_pts \in Nat
        OBVIOUS
    <2>5. capturing \in BOOLEAN /\ is_started \in BOOLEAN
        OBVIOUS
    <2>6. /\ state = "Stoped" /\ ui = "idle" /\ source \in {"mic", "timer"} /\ hearing = "idle"
          /\ shooting = "off" /\ encoder = "none"
        OBVIOUS
    <2> HIDE DEF Init
    <2> QED
        BY <2>1, <2>2, <2>3, <2>4, <2>5, <2>6 DEF TypeOK
<1>2. ~Pending /\ ~Starting
    BY <1>e DEF Pending, Waits, Starting
<1>3. Ready /\ MediaInv
    BY <1>2 DEF Ready, MediaInv, DesktopTold, TaskFor
<1>4. OneRecording
    <2>1. encoder = "none" /\ completions = 0 /\ starts = 0 /\ DOMAIN etasks = {}
        BY <1>e
    <2>2. ~is_started
        OBVIOUS
    <2> QED
        BY <1>2, <2>1, <2>2 DEF OneRecording, Single
<1>5. FirstInv
    <2>1. state = "Stoped" /\ index = 0 /\ audio_sync = -1 /\ Len(drawn) = 0 /\ Len(audio) = 0 /\ Len(shown) = 0 /\ drawn = <<>>
          /\ audio = <<>> /\ hearing = "idle"
        BY <1>e
    <2>2. ~is_started /\ ~capturing
        OBVIOUS
    <2> HIDE DEF Init
    <2> QED
        BY <1>2, <2>1, <2>2 DEF FirstInv
<1>6. DrawnInv
    <2>1. Len(drawn) = 0
        BY <1>e
    <2> QED
        BY <2>1 DEF DrawnInv
<1> QED
    BY <1>1, <1>3, <1>4, <1>5, <1>6 DEF DRInv
-------------------------------------------------------------------------------
(* Types                                                                   *)

LEMMA UITypes == DRInv /\ UIThread => TypeOK'
<1> SUFFICES ASSUME DRInv, UIThread PROVE TypeOK'
    OBVIOUS
<1>i. TypeOK
    BY DEF DRInv
<1> USE DEF control, sound, desktop, marks, file, tasking, counts
<1>s. dtasks \in Seq(Task) /\ etasks \in Seq(Task) /\ "START" \in Task /\ "STOP" \in Task
    BY <1>i DEF TypeOK, Task
<1>t. /\ \A task \in Task : Append(dtasks, task) \in Seq(Task) /\ Append(etasks, task) \in Seq(Task)
      /\ <<>> \in Seq(Bitmap)
    <2>1. ASSUME NEW task \in Task PROVE Append(dtasks, task) \in Seq(Task) /\ Append(etasks, task) \in Seq(Task)
        BY <1>s, Pushed
    <2>2. <<>> \in Seq(Bitmap)
        OBVIOUS
    <2> QED
        BY <2>1, <2>2
<1>n. -1 \in -1 .. MaxPackets /\ 0 \in 0 .. MaxPackets
    BY Bounds, Within
<1>m. ASSUME StopMedia
      PROVE  /\ capturing' = FALSE /\ dtasks' \in Seq(Task)
             /\ UNCHANGED <<source, hearing, index, audio, shooting, frames>>
    BY <1>m, <1>s, <1>t DEF StopMedia, TellDesktop
<1>1. CASE StartAudio \/ StartAudioFails
    <2>1. starts' \in 0 .. MaxStarts
        BY <1>1, <1>i, Bounds, Numbers, Within DEF StartAudio, StartAudioFails, MayStart
    <2>2. capturing' \in BOOLEAN
        BY <1>1, <1>i DEF StartAudio, StartAudioFails, TypeOK
    <2>3. ui' \in {"idle", "audio started"} /\ source' \in {"mic", "timer", "stand-in"}
        BY <1>1, <1>i DEF StartAudio, StartAudioFails, MayStart, TypeOK
    <2> QED
        BY <1>1, <1>i, <1>n, <2>1, <2>2, <2>3, ZenonT(60) DEF StartAudio, StartAudioFails, TypeOK
<1>2. CASE StartVideo
    BY <1>2, <1>i, <1>s, <1>t, <1>n, ZenonT(60) DEF StartVideo, TellDesktop, TypeOK
<1>3. CASE StartEncoder
    BY <1>3, <1>i, <1>s, <1>t, ZenonT(60) DEF StartEncoder, TypeOK
<1>4. CASE StartEncoderFails
    BY <1>4, <1>i, <1>m, ZenonT(60) DEF StartEncoderFails, TypeOK
<1>5. CASE Stop
    BY <1>5, <1>i, <1>m, ZenonT(60) DEF Stop, TypeOK
<1>6. CASE StopEncoder
    BY <1>6, <1>i, <1>s, <1>t, ZenonT(60) DEF StopEncoder, TypeOK
<1>7. CASE Pause
    <2>1. pauses' \in 0 .. MaxPauses
        BY <1>7, <1>i, Bounds, Numbers, Within DEF Pause
    <2> QED
        BY <1>7, <1>i, <1>m, <2>1, ZenonT(60) DEF Pause, TypeOK
<1>8. CASE Resume
    <2>1. source' \in {"mic", "timer", "stand-in"}
        BY <1>8, <1>i DEF Resume, ResumeAudio, TypeOK
    <2> QED
        BY <1>8, <1>i, <1>s, <1>t, <2>1, ZenonT(60) DEF Resume, ResumeAudio, TellDesktop, TypeOK
<1> QED
    BY <1>1, <1>2, <1>3, <1>4, <1>5, <1>6, <1>7, <1>8 DEF UIThread

LEMMA CaptureTypes == DRInv /\ (AudioThread \/ DesktopThread) => TypeOK'
<1> SUFFICES ASSUME DRInv, AudioThread \/ DesktopThread PROVE TypeOK'
    OBVIOUS
<1>i. TypeOK
    BY DEF DRInv
<1> USE DEF control, sound, desktop, marks, file, tasking, counts
<1>1. CASE DataComes
    BY <1>1, <1>i, ZenonT(60) DEF DataComes, TypeOK
<1>2. CASE PushPacket
    <2>1. index + 1 \in 1 .. MaxPackets /\ index + 1 \in 0 .. MaxPackets
        BY <1>2, <1>i, Bounds, Numbers, Within DEF PushPacket, Ready, DRInv
    <2>2. Append(audio, index + 1) \in Seq(1 .. MaxPackets)
        BY <1>i, <2>1, Pushed DEF TypeOK
    <2> QED
        BY <1>2, <1>i, <2>1, <2>2, ZenonT(60) DEF PushPacket, TypeOK
<1>3. CASE SetAudioMark
    <2>1. index \in -1 .. MaxPackets
        BY <1>i, Bounds, Numbers, Within
    <2> QED
        BY <1>3, <1>i, <2>1, ZenonT(60) DEF SetAudioMark, TypeOK
<1>4. CASE DesktopTask
    <2>1. Tail(dtasks) \in Seq(Task)
        BY <1>4, <1>i, Popped DEF DesktopTask, TypeOK
    <2> QED
        BY <1>4, <1>i, <2>1, ZenonT(60) DEF DesktopTask, TypeOK
<1>5. CASE DesktopRepeat
    BY <1>5, <1>i, ZenonT(60) DEF DesktopRepeat, TypeOK
<1>6. CASE Shoot
    <2>1. frames + 1 \in 1 .. MaxFrames /\ frames + 1 \in 0 .. MaxFrames
        BY <1>6, <1>i, Bounds, Numbers, Within DEF Shoot, Ready, DRInv
    <2>2. [seq |-> frames + 1, tag |-> audio_mark] \in Bitmap
        <3>1. audio_mark \in -1 .. MaxPackets
            BY <1>i DEF TypeOK
        <3> QED
            BY <2>1, <3>1 DEF Bitmap
    <2>3. bitmaps' \in Seq(Bitmap)
        <3>1. bitmaps \in Seq(Bitmap)
            BY <1>i DEF TypeOK
        <3>2. Append(bitmaps, [seq |-> frames + 1, tag |-> audio_mark]) \in Seq(Bitmap)
            BY <2>2, <3>1, Pushed
        <3> QED
            BY <1>6, <3>1, <3>2 DEF Shoot
    <2> QED
        BY <1>6, <1>i, <2>1, <2>3, ZenonT(60) DEF Shoot, TypeOK
<1> QED
    BY <1>1, <1>2, <1>3, <1>4, <1>5, <1>6 DEF AudioThread, DesktopThread

LEMMA PollTypes == CountPoll /\ polls \in Nat => polls' \in 0 .. INTERVAL_AUDIO_COUNT_LIMIT - 1
BY Bounds DEF CountPoll

\* The picture for a bitmap that leaves the queue.
LEMMA Taken ==
    ASSUME TypeOK, Ready, BitmapDue, TakeBitmap
    PROVE  /\ bitmaps' \in Seq(Bitmap) /\ shown' \in Seq(Bitmap)
           /\ Head(bitmaps).tag \in Int /\ Head(bitmaps).tag <= audio_sync
           /\ \/ shown' = shown
              \/ /\ Len(shown') = Len(shown) + 1
                 /\ shown'[Len(shown) + 1].tag = Head(bitmaps).tag
                 /\ \A k \in 1 .. Len(shown) : shown'[k] = shown[k]
<1>1. bitmaps # <<>> /\ Head(bitmaps).tag <= audio_sync /\ bitmaps \in Seq(Bitmap) /\ shown \in Seq(Bitmap)
    BY DEF BitmapDue, TypeOK
<1>2. Tail(bitmaps) \in Seq(Bitmap) /\ Head(bitmaps) \in Bitmap
    BY <1>1, Popped
<1>3. Head(bitmaps).tag \in Int /\ Head(bitmaps).tag \in -1 .. MaxPackets /\ Head(bitmaps).seq \in 1 .. MaxFrames
    BY <1>2, Bounds DEF Bitmap
<1>4. CASE shown' = shown
    BY <1>1, <1>2, <1>3, <1>4 DEF TakeBitmap
<1>5. ASSUME NEW p \in Head(bitmaps).seq .. (frames + IF shooting = "shot" THEN 1 ELSE 0),
             shown' = Append(shown, [seq |-> p, tag |-> Head(bitmaps).tag])
      PROVE  /\ shown' \in Seq(Bitmap) /\ Len(shown') = Len(shown) + 1
             /\ shown'[Len(shown) + 1].tag = Head(bitmaps).tag
             /\ \A k \in 1 .. Len(shown) : shown'[k] = shown[k]
    <2>1. frames + (IF shooting = "shot" THEN 1 ELSE 0) \in 0 .. MaxFrames
        BY Bounds, Numbers DEF Ready
    <2>2. p \in 1 .. MaxFrames
        BY <1>3, <1>5, <2>1, Bounds
    <2>3. [seq |-> p, tag |-> Head(bitmaps).tag] \in Bitmap
        BY <1>3, <2>2 DEF Bitmap
    <2> QED
        BY <1>1, <1>5, <2>3, Pushed
<1> QED
    BY <1>1, <1>2, <1>3, <1>4, <1>5 DEF TakeBitmap

\* The packet that is drawn, written or not.
LEMMA Written ==
    ASSUME TypeOK, NEW n \in 1 .. MaxPackets, WriteAudioPacket(n)
    PROVE  /\ drawn' \in Seq(Packet) /\ audio_pts' \in {audio_pts, audio_pts + 1}
           /\ errors' \in 0 .. MaxErrors /\ errors' >= errors
           /\ Len(drawn') = Len(drawn) + 1 /\ Len(drawn) \in Nat
           /\ \A k \in 1 .. Len(drawn) : drawn'[k] = drawn[k]
           /\ drawn'[Len(drawn) + 1].number = n
           /\ drawn'[Len(drawn) + 1].written \/ errors' > 0
<1>1. PICK written \in BOOLEAN :
        /\ drawn' = Append(drawn, [number |-> n, written |-> written])
        /\ IF written
           THEN audio_pts' = audio_pts + 1 /\ UNCHANGED errors
           ELSE audio_pts' \in {audio_pts, audio_pts + 1} /\ WriteFails
    BY DEF WriteAudioPacket
<1>2. [number |-> n, written |-> written] \in Packet /\ drawn \in Seq(Packet)
    BY DEF Packet, TypeOK
<1>3. errors' \in 0 .. MaxErrors /\ errors' >= errors /\ (written \/ errors' > 0)
    <2>1. (written /\ errors' = errors) \/ (~written /\ errors < MaxErrors /\ errors' = errors + 1)
        BY <1>1 DEF WriteFails
    <2>2. CASE written /\ errors' = errors
        BY <2>2, Numbers, Bounds
    <2>3. CASE ~written /\ errors < MaxErrors /\ errors' = errors + 1
        <3>1. ~written
            BY <2>3
        <3>2. errors < MaxErrors /\ errors' = errors + 1 /\ errors \in Nat
            BY <2>3, Numbers
        <3>3. errors' \in 0 .. MaxErrors /\ errors' >= errors /\ errors' > 0
            BY <3>2, Bounds
        <3> QED
            BY <3>1, <3>3
    <2> QED
        BY <2>1, <2>2, <2>3
<1>4. audio_pts' \in {audio_pts, audio_pts + 1}
    BY <1>1
<1> QED
    BY <1>1, <1>2, <1>3, <1>4, Pushed

LEMMA EncoderTypes == DRInv /\ EncoderThread => TypeOK'
<1> SUFFICES ASSUME DRInv, EncoderThread PROVE TypeOK'
    OBVIOUS
<1>i. TypeOK
    BY DEF DRInv
<1> USE DEF control, sound, desktop, marks, file, tasking, counts
<1>p. ASSUME CountPoll PROVE polls' \in 0 .. INTERVAL_AUDIO_COUNT_LIMIT - 1
    <2>1. polls \in Nat
        BY <1>i, Numbers
    <2> QED
        BY <1>p, <2>1, PollTypes
<1>t. ASSUME etasks # <<>> PROVE Tail(etasks) \in Seq(Task)
    BY <1>t, <1>i, Popped DEF TypeOK
<1>1. CASE EncoderStart
    <2>1. video_pts' \in Int /\ audio_pts' \in Nat
        BY <1>1, RecorderAssumption DEF EncoderStart
    <2>2. drawn' \in Seq(Packet) /\ shown' \in Seq(Bitmap)
        BY <1>1 DEF EncoderStart
    <2>3. encoder' = "open" /\ etasks' \in Seq(Task)
        BY <1>1, <1>t DEF EncoderStart
    <2> QED
        <3>1. UNCHANGED <<control, sound, desktop, marks, bitmaps, errors, is_started, counts>>
            BY <1>1 DEF EncoderStart
        <3> QED
            BY <1>i, <2>1, <2>2, <2>3, <3>1, ZenonT(60) DEF TypeOK
<1>2. CASE EncoderStop
    <2>1. encoder' \in {"none", "open", "draining"}
        BY <1>2 DEF EncoderStop
    <2>2. etasks' \in Seq(Task)
        BY <1>2, <1>t DEF EncoderStop
    <2> QED
        BY <1>2, <1>i, <2>1, <2>2, ZenonT(60) DEF EncoderStop, TypeOK
<1>w. errors' = errors \/ WriteFails => errors' \in 0 .. MaxErrors
    BY <1>i, Bounds, Numbers DEF WriteFails
<1>3. CASE EncodeBitmap
    <2>1. video_pts' \in Int /\ errors' \in 0 .. MaxErrors
        BY <1>3, <1>i, <1>w, Numbers DEF EncodeBitmap, WriteBitmap
    <2>2. bitmaps' \in Seq(Bitmap) /\ shown' \in Seq(Bitmap)
        <3>1. CASE BitmapDue
            <4>1. TakeBitmap
                BY <1>3, <3>1 DEF EncodeBitmap
            <4> QED
                BY <3>1, <4>1, Taken DEF DRInv
        <3>2. CASE ~BitmapDue
            BY <1>3, <1>i, <3>2 DEF EncodeBitmap, TypeOK
        <3> QED
            BY <3>1, <3>2
    <2> QED
        <3>1. UNCHANGED <<control, sound, desktop, marks, encoder, audio_pts, drawn, tasking, counts>>
            BY <1>3 DEF EncodeBitmap
        <3>2. drawn' \in Seq(Packet) /\ audio' \in Seq(1 .. MaxPackets)
              /\ dtasks' \in Seq(Task) /\ etasks' \in Seq(Task)
            BY <1>i, <3>1 DEF TypeOK
        <3>3. /\ capturing' \in BOOLEAN /\ is_started' \in BOOLEAN /\ audio_pts' \in Nat
              /\ failures' \in 0 .. MaxFailures /\ completions' \in 0 .. MaxStarts
              /\ polls' \in 0 .. INTERVAL_AUDIO_COUNT_LIMIT - 1
              /\ starts' \in 0 .. MaxStarts /\ pauses' \in 0 .. MaxPauses /\ frames' \in 0 .. MaxFrames
            BY <1>i, <3>1 DEF TypeOK
        <3>4. /\ state' = state /\ ui' = ui /\ source' = source /\ hearing' = hearing
              /\ index' = index /\ audio_mark' = audio_mark /\ audio_sync' = audio_sync
              /\ shooting' = shooting /\ encoder' = encoder
            BY <3>1
        <3> HIDE DEF control, sound, desktop, marks, file, tasking, counts
        <3> QED
            BY <1>i, <2>1, <2>2, <3>2, <3>3, <3>4, ZenonT(60) DEF TypeOK
<1>4. CASE EncodeAudio
    <2>1. audio # <<>> /\ audio' = Tail(audio) /\ audio_sync' = Head(audio) /\ WriteAudioPacket(Head(audio))
        BY <1>4 DEF EncodeAudio, TakeAudio
    <2>2. Tail(audio) \in Seq(1 .. MaxPackets) /\ Head(audio) \in 1 .. MaxPackets
        BY <1>i, <2>1, Popped DEF TypeOK
    <2>3. drawn' \in Seq(Packet) /\ audio_pts' \in {audio_pts, audio_pts + 1} /\ errors' \in 0 .. MaxErrors
        BY <1>i, <2>1, <2>2, Written
    <2>4. audio_sync' \in -1 .. MaxPackets /\ audio_pts' \in Nat
        <3>1. \A n \in 1 .. MaxPackets : n \in -1 .. MaxPackets
            BY Bounds
        <3>2. audio_pts \in Nat
            BY <1>i, Numbers
        <3> QED
            BY <2>1, <2>2, <2>3, <3>1, <3>2
    <2>5. polls' \in 0 .. INTERVAL_AUDIO_COUNT_LIMIT - 1
        BY <1>4, <1>p DEF EncodeAudio
    <2> QED
        <3>1. audio' \in Seq(1 .. MaxPackets) /\ drawn' \in Seq(Packet)
            BY <2>1, <2>2, <2>3
        <3>2. UNCHANGED <<control, source, capturing, hearing, index, desktop, audio_mark,
                          bitmaps, encoder, video_pts, shown, tasking, failures, completions>>
            BY <1>4 DEF EncodeAudio
        <3>3. /\ bitmaps' \in Seq(Bitmap) /\ shown' \in Seq(Bitmap)
              /\ dtasks' \in Seq(Task) /\ etasks' \in Seq(Task)
            BY <1>i, <3>2 DEF TypeOK
        <3>4. /\ capturing' \in BOOLEAN /\ is_started' \in BOOLEAN /\ video_pts' \in Int
              /\ failures' \in 0 .. MaxFailures /\ completions' \in 0 .. MaxStarts
              /\ starts' \in 0 .. MaxStarts /\ pauses' \in 0 .. MaxPauses /\ frames' \in 0 .. MaxFrames
            BY <1>i, <3>2 DEF TypeOK
        <3>5. /\ state' = state /\ ui' = ui /\ source' = source /\ hearing' = hearing
              /\ index' = index /\ audio_mark' = audio_mark /\ shooting' = shooting /\ encoder' = encoder
            BY <3>2
        <3> HIDE DEF control, sound, desktop, marks, file, tasking, counts
        <3> QED
            BY <1>i, <2>3, <2>4, <2>5, <3>1, <3>3, <3>4, <3>5, ZenonT(60) DEF TypeOK
<1>5. CASE NoAudio
    <2>1. polls' \in 0 .. INTERVAL_AUDIO_COUNT_LIMIT - 1
        BY <1>5, <1>p DEF NoAudio
    <2>2. UNCHANGED <<control, sound, desktop, marks, bitmaps, file, tasking, failures, completions>>
        BY <1>5 DEF NoAudio
    <2>3. /\ state' = state /\ ui' = ui /\ source' = source /\ hearing' = hearing
          /\ shooting' = shooting /\ encoder' = encoder
        BY <2>2
    <2>4. /\ index' = index /\ audio_mark' = audio_mark /\ audio_sync' = audio_sync
          /\ capturing' \in BOOLEAN /\ is_started' \in BOOLEAN
        BY <1>i, <2>2 DEF TypeOK
    <2>5. /\ bitmaps' \in Seq(Bitmap) /\ shown' \in Seq(Bitmap)
          /\ dtasks' \in Seq(Task) /\ etasks' \in Seq(Task)
          /\ audio' \in Seq(1 .. MaxPackets) /\ drawn' \in Seq(Packet)
        BY <1>i, <2>2 DEF TypeOK
    <2>6. /\ failures' \in 0 .. MaxFailures /\ completions' \in 0 .. MaxStarts
          /\ starts' \in 0 .. MaxStarts /\ pauses' \in 0 .. MaxPauses /\ frames' \in 0 .. MaxFrames
          /\ video_pts' \in Int /\ audio_pts' \in Nat /\ errors' \in 0 .. MaxErrors
        BY <1>i, <2>2 DEF TypeOK
    <2> HIDE DEF control, sound, desktop, marks, file, tasking, counts
    <2> QED
        BY <1>i, <2>1, <2>3, <2>4, <2>5, <2>6, ZenonT(60) DEF TypeOK
<1>6. CASE EndDrain
    <2>1. completions' \in 0 .. MaxStarts
        <3>1. encoder = "draining" /\ completions' = completions + 1
            BY <1>6 DEF EndDrain, Complete
        <3>2. is_started
            BY <3>1 DEF OneRecording, DRInv
        <3>3. completions + 1 <= starts
            <4>1. completions + failures + 1 + (IF Starting THEN 1 ELSE 0) <= starts
                BY <3>2 DEF OneRecording, DRInv
            <4> QED
                BY <1>i, <4>1, Numbers
        <3> QED
            BY <1>i, <3>1, <3>3, Bounds, Numbers, Within
    <2> QED
        BY <1>6, <1>i, <1>p, <2>1, ZenonT(60) DEF EndDrain, Complete, TypeOK
<1>7. CASE EncodingFails
    <2>1. failures' \in 0 .. MaxFailures
        BY <1>7, <1>i, Bounds, Numbers, Within DEF EncodingFails
    <2> QED
        BY <1>7, <1>i, <2>1, ZenonT(60) DEF EncodingFails, TypeOK
<1> QED
    BY <1>1, <1>2, <1>3, <1>4, <1>5, <1>6, <1>7 DEF EncoderThread, EncoderWorks
-------------------------------------------------------------------------------
(* What is checked before a step                                           *)

LEMMA StillReady == DRInv /\ Next => Ready'
<1> SUFFICES ASSUME DRInv, Next PROVE Ready'
    OBVIOUS
<1>i. Ready
    BY DEF DRInv
<1>1. CASE UIThread
    <2>1. UNCHANGED <<hearing, shooting, frames>>
        BY <1>1 DEF UIThread, StartAudio, StartAudioFails, StartVideo, StartEncoder, StartEncoderFails, Stop,
           StopEncoder, Pause, Resume, StopMedia, TellDesktop, sound, desktop
    <2>2. index' = index \/ (index' = 0 /\ MayStart)
        BY <1>1 DEF UIThread, StartAudio, StartAudioFails, StartVideo, StartEncoder, StartEncoderFails, Stop,
           StopEncoder, Pause, Resume, StopMedia, TellDesktop, sound, desktop
    <2>3. hearing = "data" => 0 < MaxPackets
        BY <1>i, Numbers, Bounds DEF Ready, DRInv
    <2> QED
        BY <1>i, <2>1, <2>2, <2>3 DEF Ready
<1>2. CASE DataComes
    BY <1>i, <1>2 DEF DataComes, Ready, desktop
<1>3. CASE PushPacket \/ SetAudioMark
    BY <1>i, <1>3 DEF PushPacket, SetAudioMark, Ready, desktop
<1>4. CASE DesktopTask \/ DesktopRepeat \/ Shoot
    BY <1>i, <1>4 DEF DesktopTask, DesktopRepeat, Shoot, Ready, sound
<1>5. CASE EncoderThread
    BY <1>i, <1>5 DEF EncoderThread, EncoderWorks, EncoderStart, EncoderStop, EncodeBitmap, EncodeAudio, NoAudio,
       EndDrain, Complete, EncodingFails, Ready, sound, desktop
<1> QED
    BY <1>1, <1>2, <1>3, <1>4, <1>5 DEF Next, AudioThread, DesktopThread
-------------------------------------------------------------------------------
(* One recording at a time                                                 *)

LEMMA TaskQueue ==
    ASSUME NEW s \in Seq(Task), Single(s)
    PROVE  /\ Waits(Append(s, "START")) /\ (~Waits(s) => Single(Append(s, "START")))
           /\ (Waits(Append(s, "STOP")) <=> Waits(s)) /\ Single(Append(s, "STOP"))
           /\ s # <<>> => /\ Single(Tail(s))
                          /\ Head(s) = "START" => Waits(s) /\ ~Waits(Tail(s))
                          /\ Head(s) # "START" => (Waits(Tail(s)) <=> Waits(s))
<1>0. Len(s) \in Nat /\ DOMAIN s = 1 .. Len(s)
    OBVIOUS
<1>1. ASSUME NEW e \in Task
      PROVE  /\ \A i \in 1 .. Len(s) : Append(s, e)[i] = s[i]
             /\ Append(s, e)[Len(s) + 1] = e /\ DOMAIN Append(s, e) = 1 .. Len(s) + 1
    BY Pushed
<1>2. Waits(Append(s, "START")) /\ (~Waits(s) => Single(Append(s, "START")))
    <2>1. "START" \in Task
        BY DEF Task
    <2>2. Waits(Append(s, "START"))
        BY <1>0, <1>1, <2>1 DEF Waits
    <2>3. ASSUME ~Waits(s) PROVE Single(Append(s, "START"))
        BY <1>0, <1>1, <2>1, <2>3 DEF Waits, Single
    <2> QED
        BY <2>2, <2>3
<1>3. (Waits(Append(s, "STOP")) <=> Waits(s)) /\ Single(Append(s, "STOP"))
    <2>1. "STOP" \in Task
        BY DEF Task
    <2> QED
        BY <1>0, <1>1, <2>1 DEF Waits, Single
<1>4. ASSUME s # <<>>
      PROVE  /\ Single(Tail(s))
             /\ Head(s) = "START" => Waits(s) /\ ~Waits(Tail(s))
             /\ Head(s) # "START" => (Waits(Tail(s)) <=> Waits(s))
    <2>1. /\ Head(s) = s[1] /\ Len(s) \in Nat \ {0} /\ DOMAIN Tail(s) = 1 .. Len(s) - 1
          /\ \A i \in 1 .. Len(s) - 1 : Tail(s)[i] = s[i + 1]
        BY <1>4, Popped
    <2>2. Single(Tail(s))
        BY <1>0, <2>1 DEF Single
    <2>3. Waits(Tail(s)) => Waits(s)
        BY <1>0, <2>1 DEF Waits
    <2>4. ASSUME Head(s) = "START" PROVE Waits(s) /\ ~Waits(Tail(s))
        BY <1>0, <2>1, <2>4 DEF Waits, Single
    <2>5. ASSUME Head(s) # "START", Waits(s) PROVE Waits(Tail(s))
        <3>1. PICK i \in 1 .. Len(s) : s[i] = "START"
            BY <1>0, <2>5 DEF Waits
        <3>2. i - 1 \in 1 .. Len(s) - 1 /\ (i - 1) + 1 = i
            BY <2>1, <2>5, <3>1
        <3> QED
            BY <2>1, <3>1, <3>2 DEF Waits
    <2> QED
        BY <2>2, <2>3, <2>4, <2>5
<1> QED
    BY <1>2, <1>3, <1>4

LEMMA StillOne == DRInv /\ Next => OneRecording'
<1> SUFFICES ASSUME DRInv, Next PROVE OneRecording'
    OBVIOUS
<1>i. /\ is_started <=> (encoder # "none" \/ Waits(etasks))
      /\ encoder # "none" => ~Waits(etasks)
      /\ Single(etasks)
      /\ completions + failures + (IF is_started THEN 1 ELSE 0) + (IF Starting THEN 1 ELSE 0) <= starts
    BY DEF DRInv, OneRecording, Pending
<1>n. completions \in Nat /\ failures \in Nat /\ starts \in Nat
    BY Numbers DEF DRInv
<1>q. etasks \in Seq(Task)
    BY DEF DRInv, TypeOK
<1> USE DEF OneRecording, Pending
<1>1. CASE StartAudio \/ StartAudioFails
    <2>1. /\ UNCHANGED <<is_started, encoder, etasks, completions, failures>> /\ starts' = starts + 1 /\ ~Starting
        BY <1>1 DEF StartAudio, StartAudioFails, MayStart, Starting, file, tasking, counts
    <2> QED
        BY <1>i, <1>n, <2>1
<1>2. CASE UNCHANGED <<is_started, encoder, etasks, completions, failures, starts>> /\ (Starting' => Starting)
    BY <1>i, <1>n, <1>2
<1>3. CASE StartEncoder
    <2>1. /\ ~is_started /\ is_started' /\ etasks' = Append(etasks, "START") /\ Starting /\ ~Starting'
          /\ UNCHANGED <<encoder, completions, failures, starts>>
        BY <1>3 DEF StartEncoder, Starting, file, counts
    <2>2. Waits(etasks') /\ Single(etasks')
        BY <1>i, <1>q, <2>1, TaskQueue
    <2> QED
        BY <1>i, <1>n, <2>1, <2>2
<1>4. CASE StopEncoder
    <2>1. /\ etasks' = Append(etasks, "STOP") /\ ~Starting' /\ ~Starting
          /\ UNCHANGED <<is_started, encoder, completions, failures, starts>>
        BY <1>4 DEF StopEncoder, Starting, file, counts
    <2>2. (Waits(etasks') <=> Waits(etasks)) /\ Single(etasks')
        BY <1>i, <1>q, <2>1, TaskQueue
    <2> QED
        BY <1>i, <1>n, <2>1, <2>2
<1>5. CASE EncoderStart
    <2>1. /\ etasks # <<>> /\ Head(etasks) = "START" /\ etasks' = Tail(etasks) /\ encoder' = "open"
          /\ UNCHANGED <<is_started, completions, failures, starts, ui>>
        BY <1>5 DEF EncoderStart, control, counts
    <2>2. Waits(etasks) /\ ~Waits(etasks') /\ Single(etasks')
        BY <1>i, <1>q, <2>1, TaskQueue
    <2> QED
        BY <1>i, <1>n, <2>1, <2>2 DEF Starting
<1>6. CASE EncoderStop
    <2>1. /\ etasks # <<>> /\ Head(etasks) = "STOP" /\ etasks' = Tail(etasks)
          /\ encoder' # "none" => encoder # "none"
          /\ encoder # "draining" /\ encoder' = IF encoder = "open" THEN "draining" ELSE "none"
          /\ UNCHANGED <<is_started, completions, failures, starts, ui>>
        BY <1>6 DEF EncoderStop, control, counts
    <2>2. (Waits(etasks') <=> Waits(etasks)) /\ Single(etasks')
        BY <1>i, <1>q, <2>1, TaskQueue
    <2>3. encoder' # "none" <=> encoder # "none"
        BY <2>1 DEF DRInv, TypeOK
    <2> QED
        BY <1>i, <1>n, <2>1, <2>2, <2>3 DEF Starting
<1>7. CASE EndDrain
    <2>1. /\ encoder = "draining" /\ ~is_started' /\ encoder' = "none" /\ completions' = completions + 1
          /\ UNCHANGED <<etasks, starts, ui, failures>>
        BY <1>7 DEF EndDrain, Complete, control
    <2>2. is_started /\ ~Waits(etasks') /\ Single(etasks') /\ (Starting' <=> Starting)
        BY <1>i, <2>1 DEF Starting
    <2>3. completions + failures + 1 + (IF Starting THEN 1 ELSE 0) <= starts
        BY <1>i, <2>2
    <2>4. completions' + failures' + 0 + (IF Starting' THEN 1 ELSE 0) <= starts'
        BY <1>n, <2>1, <2>2, <2>3
    <2> QED
        BY <2>1, <2>2, <2>4
<1>8. CASE EncodingFails
    <2>1. /\ encoder = "open" /\ ~is_started' /\ encoder' = "none" /\ failures' = failures + 1
          /\ UNCHANGED <<etasks, starts, ui, completions>>
        BY <1>8 DEF EncodingFails, control
    <2>2. is_started /\ ~Waits(etasks') /\ Single(etasks') /\ (Starting' <=> Starting)
        BY <1>i, <2>1 DEF Starting
    <2>3. completions + failures + 1 + (IF Starting THEN 1 ELSE 0) <= starts
        BY <1>i, <2>2
    <2>4. completions' + failures' + 0 + (IF Starting' THEN 1 ELSE 0) <= starts'
        BY <1>n, <2>1, <2>2, <2>3
    <2> QED
        BY <2>1, <2>2, <2>4
<1>9. CASE EncodeBitmap \/ EncodeAudio \/ NoAudio
    BY <1>2, <1>9 DEF EncodeBitmap, EncodeAudio, NoAudio, WriteAudioPacket, WriteBitmap, Starting, control, tasking,
       counts, file
<1>10. CASE AudioThread \/ DesktopThread
    BY <1>2, <1>10 DEF AudioThread, DesktopThread, DataComes, PushPacket, SetAudioMark, DesktopTask, DesktopRepeat,
       Shoot, Starting, control, tasking, counts, file
<1>11. CASE StartVideo \/ StartEncoderFails \/ Stop \/ Pause \/ Resume
    BY <1>2, <1>11 DEF StartVideo, StartEncoderFails, Stop, Pause, Resume, Starting, tasking, counts, file
<1> QED
    BY <1>1, <1>3, <1>4, <1>5, <1>6, <1>7, <1>8, <1>9, <1>10, <1>11
       DEF Next, UIThread, EncoderThread, EncoderWorks
-------------------------------------------------------------------------------
(* The media follow the state                                              *)

LEMMA DesktopPushed ==
    ASSUME TypeOK, NEW b \in BOOLEAN, TellDesktop(TaskFor(b))
    PROVE  DesktopTold(b)'
<1>1. dtasks \in Seq(Task) /\ TaskFor(b) \in Task /\ dtasks' = Append(dtasks, TaskFor(b))
    BY DEF TypeOK, TaskFor, Task, TellDesktop
<1>2. /\ Len(dtasks') = Len(dtasks) + 1 /\ dtasks'[Len(dtasks) + 1] = TaskFor(b) /\ Len(dtasks) \in Nat
      /\ dtasks' \in Seq(Task)
    BY <1>1, Pushed
<1>3. dtasks' # <<>>
    BY <1>2
<1> QED
    BY <1>2, <1>3 DEF DesktopTold

LEMMA DesktopPopped ==
    ASSUME TypeOK, NEW b \in BOOLEAN, DesktopTold(b), DesktopTask
    PROVE  DesktopTold(b)'
<1>1. /\ dtasks \in Seq(Task) /\ dtasks # <<>> /\ dtasks' = Tail(dtasks)
      /\ shooting' = IF Head(dtasks) = "START" THEN "on" ELSE "off"
    BY DEF TypeOK, DesktopTask
<1>2. /\ Head(dtasks) = dtasks[1] /\ Len(dtasks) \in Nat \ {0} /\ Len(dtasks') = Len(dtasks) - 1
      /\ \A i \in 1 .. Len(dtasks) - 1 : dtasks'[i] = dtasks[i + 1]
      /\ dtasks' \in Seq(Task)
    BY <1>1, Popped
<1>3. dtasks[Len(dtasks)] = TaskFor(b)
    BY <1>1 DEF DesktopTold
<1>4. CASE Len(dtasks) = 1
    <2>1. dtasks' = <<>> /\ Head(dtasks) = TaskFor(b)
        BY <1>2, <1>3, <1>4
    <2> QED
        BY <1>1, <2>1 DEF DesktopTold, TaskFor
<1>5. CASE Len(dtasks) # 1
    <2>1. /\ dtasks' # <<>> /\ Len(dtasks) - 1 \in 1 .. Len(dtasks) - 1
          /\ (Len(dtasks) - 1) + 1 = Len(dtasks)
        BY <1>2, <1>5
    <2>2. dtasks'[Len(dtasks')] = TaskFor(b)
        BY <1>2, <1>3, <2>1
    <2> QED
        BY <2>1, <2>2 DEF DesktopTold
<1> QED
    BY <1>4, <1>5

LEMMA StillMedia == DRInv /\ Next => MediaInv'
<1> SUFFICES ASSUME DRInv, Next PROVE MediaInv'
    OBVIOUS
<1>i. /\ TypeOK
      /\ ui # "idle" => state = "Stoped"
      /\ capturing <=> (state = "Started" \/ Starting)
      /\ DesktopTold(state = "Started" \/ ui = "media started")
    BY DEF DRInv, MediaInv
<1>p. ASSUME UNCHANGED <<dtasks, shooting>>, NEW b \in BOOLEAN, DesktopTold(b) PROVE DesktopTold(b)'
    BY <1>p DEF DesktopTold
<1>c. capturing \in BOOLEAN
    BY <1>i DEF TypeOK
<1>m. ASSUME StopMedia PROVE ~capturing' /\ DesktopTold(FALSE)'
    <2>1. TellDesktop(TaskFor(FALSE)) /\ ~capturing'
        BY <1>m DEF StopMedia, TaskFor
    <2> QED
        BY <1>i, <2>1, DesktopPushed
<1>1. CASE StartAudio
    <2>1. /\ UNCHANGED <<state, dtasks, shooting>> /\ state = "Stoped" /\ ui = "idle" /\ ui' = "audio started"
          /\ capturing'
        BY <1>1 DEF StartAudio, MayStart, desktop
    <2>2. DesktopTold(FALSE)'
        BY <1>i, <1>p, <2>1
    <2> QED
        BY <2>1, <2>2 DEF MediaInv, Starting
<1>2. CASE StartVideo
    <2>1. /\ UNCHANGED <<state, capturing>> /\ ui = "audio started" /\ ui' = "media started"
          /\ TellDesktop(TaskFor(TRUE))
        BY <1>2 DEF StartVideo, TaskFor, sound
    <2>2. DesktopTold(TRUE)'
        BY <1>i, <2>1, DesktopPushed
    <2> QED
        BY <1>i, <2>1, <2>2 DEF MediaInv, Starting
<1>3. CASE StartEncoder
    <2>1. /\ UNCHANGED <<capturing, dtasks, shooting>> /\ ui = "media started" /\ ui' = "idle"
          /\ state' = "Started"
        BY <1>3 DEF StartEncoder, sound, desktop
    <2>2. DesktopTold(TRUE)'
        BY <1>i, <1>p, <2>1
    <2> QED
        BY <1>i, <2>1, <2>2 DEF MediaInv, Starting
<1>4. CASE StartEncoderFails \/ Stop
    <2>1. StopMedia /\ state' = "Stoped" /\ ui' \in {"idle", "media stopped"}
        BY <1>4 DEF StartEncoderFails, Stop
    <2> QED
        BY <1>m, <2>1 DEF MediaInv, Starting
<1>5. CASE Pause
    <2>1. StopMedia /\ state' = "Paused" /\ ui' = "idle"
        BY <1>5 DEF Pause
    <2> QED
        BY <1>m, <2>1 DEF MediaInv, Starting
<1>6. CASE StopEncoder
    <2>1. /\ UNCHANGED <<state, capturing, dtasks, shooting>> /\ ui = "media stopped" /\ ui' = "idle"
          /\ state = "Stoped"
        BY <1>i, <1>6 DEF StopEncoder, sound, desktop
    <2>2. DesktopTold(FALSE)'
        BY <1>i, <1>p, <2>1
    <2> QED
        BY <1>i, <2>1, <2>2 DEF MediaInv, Starting
<1>7. CASE Resume
    <2>1. TellDesktop(TaskFor(TRUE)) /\ capturing' /\ state' = "Started" /\ ui' = "idle"
        BY <1>7 DEF Resume, ResumeAudio, TaskFor
    <2>2. DesktopTold(TRUE)'
        BY <1>i, <2>1, DesktopPushed
    <2> QED
        BY <2>1, <2>2 DEF MediaInv
<1>u. ASSUME UNCHANGED <<state, ui, capturing>>, DesktopTold(state = "Started" \/ ui = "media started")'
      PROVE  MediaInv'
    BY <1>i, <1>u DEF MediaInv, Starting
<1>8. CASE DesktopTask
    <2>1. UNCHANGED <<state, ui, capturing>>
        BY <1>8 DEF DesktopTask, control, sound
    <2> DEFINE b == state = "Started" \/ ui = "media started"
    <2>3. DesktopTold(b)'
        <3>1. b \in BOOLEAN /\ b' = b
            BY <2>1
        <3> QED
            BY <1>i, <1>8, <2>1, DesktopPopped DEF DesktopTold
    <2> QED
        BY <1>u, <2>1, <2>3
<1>9. CASE DesktopRepeat \/ Shoot
    <2>1. /\ UNCHANGED <<state, ui, capturing, dtasks>> /\ shooting # "off" /\ shooting' # "off"
        BY <1>9 DEF DesktopRepeat, Shoot, control, sound
    <2> QED
        BY <1>i, <1>u, <2>1 DEF DesktopTold
<1>10. CASE UNCHANGED <<state, ui, capturing, dtasks, shooting>>
    BY <1>i, <1>u, <1>10 DEF DesktopTold
<1>11. CASE AudioThread \/ EncoderThread \/ StartAudioFails
    BY <1>10, <1>11 DEF AudioThread, DataComes, PushPacket, SetAudioMark, EncoderThread, EncoderWorks, EncoderStart,
       EncoderStop, EncodeBitmap, EncodeAudio, NoAudio, EndDrain, Complete, EncodingFails, StartAudioFails,
       control, sound, desktop
<1> QED
    BY <1>1, <1>2, <1>3, <1>4, <1>5, <1>6, <1>7, <1>8, <1>9, <1>11 DEF Next, UIThread, DesktopThread
-------------------------------------------------------------------------------
(* The first recording                                                     *)

\* FirstInv from what it says before and after.
LEMMA FirstSame ==
    ASSUME DRInv, UNCHANGED <<index, audio, drawn, audio_sync, shown>>, starts' \in {starts, starts + 1},
           starts' = 0 => ~capturing' /\ hearing' = "idle" /\ ~is_started' /\ ~Starting' /\ state' = "Stoped",
           starts' <= 1 /\ (Starting' \/ Pending') => drawn = <<>>
    PROVE  FirstInv'
<1>1. starts \in Nat
    BY Numbers DEF DRInv
<1>2. starts' = 0 => starts = 0
    BY <1>1
<1>3. starts' <= 1 => starts <= 1
    BY <1>1
<1>4. FirstInv
    BY DEF DRInv
<1>5. starts' = 0 => index' = 0 /\ audio' = <<>> /\ drawn' = <<>>
    BY <1>2, <1>4 DEF FirstInv
<1>6. starts' <= 1 =>
        /\ index' = Len(drawn') + Len(audio')
        /\ \A k \in 1 .. Len(audio') : audio'[k] = Len(drawn') + k
        /\ audio_sync' <= Len(drawn')
        /\ \A k \in 1 .. Len(shown') : shown'[k].tag <= Len(drawn')
    BY <1>3, <1>4 DEF FirstInv
<1> QED
    BY <1>5, <1>6 DEF FirstInv

LEMMA Untouched ==
    ASSUME DRInv, UNCHANGED <<index, audio, drawn, audio_sync, shown, starts>>,
           starts = 0 => ~capturing' /\ hearing' = "idle" /\ ~is_started' /\ state' = "Stoped",
           Starting' => Starting, Pending' => Pending
    PROVE  FirstInv'
<1>1. FirstInv
    BY DEF DRInv
<1>2. starts' = 0 => ~Starting'
    BY <1>1 DEF FirstInv
<1>3. starts' <= 1 /\ (Starting' \/ Pending') => drawn = <<>>
    BY <1>1 DEF FirstInv
<1> QED
    BY <1>2, <1>3, FirstSame

\* While packets are written, start() of the recording is over and there was one.
LEMMA Encoded == DRInv /\ starts <= 1 /\ encoder # "none" => starts = 1 /\ ~Starting /\ ~Pending
<1> SUFFICES ASSUME DRInv, starts <= 1, encoder # "none" PROVE starts = 1 /\ ~Starting /\ ~Pending
    OBVIOUS
<1>1. is_started /\ ~Pending
    BY DEF DRInv, OneRecording
<1>2. completions + failures + 1 + (IF Starting THEN 1 ELSE 0) <= starts
    BY <1>1 DEF DRInv, OneRecording
<1>3. completions \in Nat /\ failures \in Nat /\ starts \in Nat
    BY Numbers DEF DRInv
<1> QED
    BY <1>1, <1>2, <1>3

LEMMA UIFirst == DRInv /\ UIThread => FirstInv'
<1> SUFFICES ASSUME DRInv, UIThread PROVE FirstInv'
    OBVIOUS
<1>f. FirstInv
    BY DEF DRInv
<1>n. starts \in Nat
    BY Numbers DEF DRInv
<1>0. starts = 0 => /\ ~capturing /\ hearing = "idle" /\ index = 0 /\ audio = <<>> /\ ~is_started /\ ~Starting
                    /\ drawn = <<>> /\ state = "Stoped"
    BY <1>f DEF FirstInv
<1>1. CASE StartAudio \/ StartAudioFails
    <2>1. /\ UNCHANGED <<audio, drawn, audio_sync, shown>> /\ starts' = starts + 1 /\ index' = 0
        BY <1>1 DEF StartAudio, StartAudioFails, MayStart, file, marks
    <2>2. CASE starts = 0
        BY <1>0, <1>n, <2>1, <2>2, FirstSame
    <2>3. CASE starts # 0
        BY <1>n, <2>1, <2>3 DEF FirstInv
    <2> QED
        BY <2>2, <2>3
<1>2. CASE StartVideo
    <2>1. /\ UNCHANGED <<state, capturing, hearing, index, audio, is_started, drawn, shown, starts, etasks>>
          /\ audio_sync' = -1 /\ Starting /\ Starting'
        BY <1>2 DEF StartVideo, Starting, sound, file, tasking
    <2>2. drawn \in Seq(Packet) /\ starts # 0
        BY <1>0, <2>1 DEF DRInv, TypeOK
    <2>3. Len(drawn) \in Nat
        BY <2>2
    <2>4. -1 <= Len(drawn)
        BY <2>3
    <2>5. starts <= 1 =>
            /\ index = Len(drawn) + Len(audio) /\ \A k \in 1 .. Len(audio) : audio[k] = Len(drawn) + k
            /\ \A k \in 1 .. Len(shown) : shown[k].tag <= Len(drawn)
            /\ drawn = <<>>
        BY <1>f, <2>1 DEF FirstInv
    <2> QED
        BY <2>1, <2>2, <2>4, <2>5 DEF FirstInv
<1>3. CASE StartEncoder
    <2>1. /\ UNCHANGED <<capturing, hearing, index, audio, audio_sync, drawn, shown, starts>> /\ Starting /\ ~Starting'
        BY <1>3 DEF StartEncoder, Starting, sound, file, marks
    <2>2. starts # 0 /\ (starts <= 1 => drawn = <<>>)
        BY <1>0, <1>f, <2>1 DEF FirstInv
    <2> QED
        BY <2>1, <2>2, FirstSame
<1>m. ASSUME StopMedia PROVE ~capturing' /\ UNCHANGED <<hearing, index, audio>>
    BY <1>m DEF StopMedia
<1>4. CASE StartEncoderFails \/ Stop \/ Pause
    <2>1. StopMedia /\ UNCHANGED <<audio_sync, drawn, shown, is_started, etasks, starts>> /\ ~Starting'
        BY <1>4 DEF StartEncoderFails, Stop, Pause, Starting, file, marks, tasking, counts
    <2>2. starts # 0
        BY <1>0, <1>4 DEF StartEncoderFails, Stop, Pause, Starting
    <2> QED
        BY <1>m, <2>1, <2>2, Untouched DEF Pending
<1>5. CASE StopEncoder
    <2>1. /\ UNCHANGED <<state, capturing, hearing, index, audio, audio_sync, drawn, shown, starts, is_started>>
          /\ ~Starting' /\ etasks' = Append(etasks, "STOP")
        BY <1>5 DEF StopEncoder, Starting, sound, file, marks
    <2>2. Pending' => Pending
        BY <2>1, TaskQueue DEF Pending, DRInv, OneRecording, TypeOK
    <2> QED
        BY <1>0, <2>1, <2>2, Untouched
<1>6. CASE Resume
    <2>1. /\ UNCHANGED <<hearing, index, audio, audio_sync, drawn, shown, starts, is_started, etasks>>
          /\ Starting' => Starting
        BY <1>6 DEF Resume, Starting, file, marks, tasking
    <2>2. starts # 0
        BY <1>0, <1>6 DEF Resume
    <2> QED
        BY <2>1, <2>2, Untouched DEF Pending
<1> QED
    BY <1>1, <1>2, <1>3, <1>4, <1>5, <1>6 DEF UIThread

LEMMA CaptureFirst == DRInv /\ (AudioThread \/ DesktopThread) => FirstInv'
<1> SUFFICES ASSUME DRInv, AudioThread \/ DesktopThread PROVE FirstInv'
    OBVIOUS
<1>f. FirstInv
    BY DEF DRInv
<1>0. starts = 0 => ~capturing /\ hearing = "idle" /\ ~is_started /\ state = "Stoped"
    BY <1>f DEF FirstInv
<1>1. CASE DataComes \/ SetAudioMark
    <2>1. /\ UNCHANGED <<state, ui, capturing, index, audio, audio_sync, drawn, shown, starts, is_started, etasks>>
          /\ starts # 0
        BY <1>0, <1>1 DEF DataComes, SetAudioMark, control, tasking, file, marks
    <2> QED
        BY <2>1, Untouched DEF Starting, Pending
<1>2. CASE DesktopThread
    <2>1. UNCHANGED <<state, ui, capturing, hearing, index, audio, audio_sync, drawn, shown, starts, is_started, etasks>>
        BY <1>2 DEF DesktopThread, DesktopTask, DesktopRepeat, Shoot, control, tasking, sound, file, marks
    <2> QED
        BY <1>0, <2>1, Untouched DEF Starting, Pending
<1>3. CASE PushPacket
    <2>1. /\ UNCHANGED <<ui, audio_sync, drawn, shown, starts, etasks>> /\ hearing = "data"
          /\ index' = index + 1 /\ audio' = Append(audio, index + 1)
        BY <1>3 DEF PushPacket, control, tasking, file, marks
    <2>2. starts # 0
        BY <1>0, <2>1
    <2>3. index < MaxPackets /\ index \in Nat /\ audio \in Seq(1 .. MaxPackets) /\ drawn \in Seq(Packet)
        BY <2>1, Numbers DEF DRInv, Ready, TypeOK
    <2>4. index + 1 \in 1 .. MaxPackets
        BY <2>3, Bounds, Within
    <2>5. /\ Len(audio') = Len(audio) + 1 /\ Len(audio) \in Nat /\ audio'[Len(audio) + 1] = index + 1
          /\ \A k \in 1 .. Len(audio) : audio'[k] = audio[k]
        BY <2>1, <2>3, <2>4, Pushed
    <2>6. ASSUME starts <= 1
          PROVE  index' = Len(drawn) + Len(audio') /\ \A k \in 1 .. Len(audio') : audio'[k] = Len(drawn) + k
        <3>1. /\ index = Len(drawn) + Len(audio) /\ \A k \in 1 .. Len(audio) : audio[k] = Len(drawn) + k
              /\ Len(drawn) \in Nat
            BY <1>f, <2>3, <2>6 DEF FirstInv
        <3>2. index' = Len(drawn) + Len(audio')
            BY <2>1, <2>3, <2>5, <3>1
        <3>3. audio'[Len(audio) + 1] = Len(drawn) + (Len(audio) + 1)
            BY <2>3, <2>5, <3>1
        <3>4. \A k \in 1 .. Len(audio') : k \in 1 .. Len(audio) \/ k = Len(audio) + 1
            BY <2>5
        <3> HIDE DEF control, sound, desktop, marks, file, tasking, counts
        <3>5. \A k \in 1 .. Len(audio) : audio'[k] = Len(drawn) + k
            BY <2>5, <3>1
        <3> QED
            BY <3>2, <3>3, <3>4, <3>5
    <2>7. starts' <= 1 => /\ audio_sync' <= Len(drawn')
                          /\ \A k \in 1 .. Len(shown') : shown'[k].tag <= Len(drawn')
                          /\ Starting' \/ Pending' => drawn' = <<>>
        BY <1>f, <2>1 DEF FirstInv, Starting, Pending
    <2>8. starts' # 0 /\ starts' = starts /\ drawn' = drawn
        BY <2>1, <2>2
    <2>9. starts' <= 1 => /\ index' = Len(drawn') + Len(audio')
                          /\ \A k \in 1 .. Len(audio') : audio'[k] = Len(drawn') + k
        BY <2>6, <2>8
    <2> QED
        BY <2>7, <2>8, <2>9 DEF FirstInv
<1> QED
    BY <1>1, <1>2, <1>3 DEF AudioThread

LEMMA EncoderFirst == DRInv /\ EncoderThread => FirstInv'
<1> SUFFICES ASSUME DRInv, EncoderThread PROVE FirstInv'
    OBVIOUS
<1>f. FirstInv
    BY DEF DRInv
<1>0. starts = 0 => ~capturing /\ hearing = "idle" /\ ~is_started /\ ~Starting /\ state = "Stoped"
    BY <1>f DEF FirstInv
<1>q. etasks \in Seq(Task) /\ Single(etasks)
    BY DEF DRInv, OneRecording, TypeOK
<1>n. starts \in Nat
    BY Numbers DEF DRInv
<1>1. CASE EncoderStart
    <2>1. /\ UNCHANGED <<state, ui, capturing, hearing, index, audio, audio_sync, starts, is_started>>
          /\ drawn' = <<>> /\ shown' = <<>> /\ etasks # <<>> /\ Head(etasks) = "START"
        BY <1>1 DEF EncoderStart, control, sound, marks
    <2>2. Pending
        BY <1>q, <2>1, TaskQueue DEF Pending
    <2>3. starts # 0
        BY <1>0, <2>2 DEF DRInv, OneRecording
    <2>4. ASSUME starts <= 1
          PROVE  /\ drawn = <<>> /\ index = Len(drawn) + Len(audio) /\ audio_sync <= Len(drawn)
                 /\ \A k \in 1 .. Len(audio) : audio[k] = Len(drawn) + k
        BY <1>f, <2>2, <2>4 DEF FirstInv
    <2>5. Len(shown') = 0
        BY <2>1
    <2> QED
        BY <2>1, <2>3, <2>4, <2>5 DEF FirstInv
<1>2. CASE EncoderStop
    <2>1. /\ UNCHANGED <<state, ui, capturing, hearing, index, audio, audio_sync, starts, is_started, drawn, shown>>
          /\ etasks # <<>> /\ Head(etasks) = "STOP" /\ etasks' = Tail(etasks)
        BY <1>2 DEF EncoderStop, control, sound, marks
    <2>2. Pending' => Pending
        BY <1>q, <2>1, TaskQueue DEF Pending
    <2> QED
        BY <1>0, <2>1, <2>2, Untouched DEF Starting
<1>3. CASE NoAudio \/ EndDrain \/ EncodingFails
    <2>1. /\ UNCHANGED <<state, ui, capturing, hearing, index, audio, audio_sync, starts, etasks, drawn, shown>>
          /\ is_started' => is_started
        BY <1>3 DEF NoAudio, EndDrain, Complete, EncodingFails, control, sound, marks, file, tasking
    <2> QED
        BY <1>0, <2>1, Untouched DEF Starting, Pending
<1>e. ASSUME Encoding, starts <= 1 PROVE starts = 1 /\ ~Starting /\ ~Pending
    BY <1>e, Encoded DEF Encoding
<1>4. CASE EncodeBitmap
    <2>1. /\ UNCHANGED <<state, ui, capturing, hearing, index, audio, audio_sync, starts, is_started, etasks, drawn>>
          /\ Encoding
        BY <1>4 DEF EncodeBitmap, control, sound, marks, tasking
    <2>2. CASE ~BitmapDue
        BY <1>0, <1>4, <2>1, <2>2, Untouched DEF EncodeBitmap, Starting, Pending
    <2>3. CASE BitmapDue
        <3>1. TakeBitmap
            BY <1>4, <2>3 DEF EncodeBitmap
        <3>2. /\ Head(bitmaps).tag \in Int /\ Head(bitmaps).tag <= audio_sync
              /\ \/ shown' = shown
                 \/ /\ Len(shown') = Len(shown) + 1
                    /\ shown'[Len(shown) + 1].tag = Head(bitmaps).tag
                    /\ \A k \in 1 .. Len(shown) : shown'[k] = shown[k]
            BY <2>3, <3>1, Taken DEF DRInv
        <3>3. Len(shown) \in Nat /\ Len(drawn) \in Nat /\ audio_sync \in Int
            <4>1. shown \in Seq(Bitmap) /\ drawn \in Seq(Packet) /\ TypeOK
                BY DEF DRInv, TypeOK
            <4> QED
                BY <4>1, Numbers
        <3>4. ASSUME starts <= 1 PROVE \A k \in 1 .. Len(shown') : shown'[k].tag <= Len(drawn)
            <4>1. audio_sync <= Len(drawn) /\ \A k \in 1 .. Len(shown) : shown[k].tag <= Len(drawn)
                BY <1>f, <3>4 DEF FirstInv
            <4>2. CASE shown' = shown
                BY <4>1, <4>2
            <4>3. Head(bitmaps).tag <= Len(drawn)
                BY <3>2, <3>3, <4>1
            <4> SUFFICES ASSUME Len(shown') = Len(shown) + 1,
                                shown'[Len(shown) + 1].tag = Head(bitmaps).tag,
                                \A k \in 1 .. Len(shown) : shown'[k] = shown[k]
                         PROVE  \A k \in 1 .. Len(shown') : shown'[k].tag <= Len(drawn)
                BY <3>2, <4>2
            <4> TAKE k \in 1 .. Len(shown')
            <4>4. CASE k = Len(shown) + 1
                BY <3>3, <4>3, <4>4
            <4>5. CASE k # Len(shown) + 1
                <5>1. k \in 1 .. Len(shown)
                    BY <3>3, <4>5
                <5> QED
                    BY <3>3, <4>1, <5>1
            <4> QED
                BY <4>4, <4>5
        <3>5. starts' = 0 => FALSE
            BY <1>e, <2>1
        <3>6. ASSUME starts <= 1
              PROVE  /\ index = Len(drawn) + Len(audio) /\ audio_sync <= Len(drawn)
                     /\ \A k \in 1 .. Len(audio) : audio[k] = Len(drawn) + k
                     /\ ~Starting' /\ ~Pending'
            BY <1>e, <1>f, <2>1, <3>6 DEF FirstInv, Starting, Pending
        <3> QED
            BY <2>1, <3>4, <3>5, <3>6 DEF FirstInv
    <2> QED
        BY <2>2, <2>3
<1>5. CASE EncodeAudio
    <2>1. /\ UNCHANGED <<ui, index, starts, etasks, shown>> /\ Encoding
          /\ audio # <<>> /\ audio' = Tail(audio) /\ audio_sync' = Head(audio) /\ WriteAudioPacket(Head(audio))
        BY <1>5 DEF EncodeAudio, TakeAudio, control, tasking
    <2>2. audio \in Seq(1 .. MaxPackets) /\ shown \in Seq(Bitmap)
        BY DEF DRInv, TypeOK
    <2>3. /\ Head(audio) \in 1 .. MaxPackets /\ Head(audio) = audio[1] /\ Len(audio) \in Nat \ {0}
          /\ Len(audio') = Len(audio) - 1 /\ \A k \in 1 .. Len(audio) - 1 : audio'[k] = audio[k + 1]
        BY <2>1, <2>2, Popped
    <2>4. Len(drawn') = Len(drawn) + 1 /\ Len(drawn) \in Nat
        BY <2>1, <2>3, Written DEF DRInv
    <2>5. starts' = 0 => FALSE
        BY <1>e, <2>1
    <2>6. ASSUME starts <= 1
          PROVE  /\ index' = Len(drawn') + Len(audio') /\ audio_sync' <= Len(drawn')
                 /\ \A k \in 1 .. Len(audio') : audio'[k] = Len(drawn') + k
                 /\ ~Starting' /\ ~Pending'
        <3>1. /\ index = Len(drawn) + Len(audio) /\ \A k \in 1 .. Len(audio) : audio[k] = Len(drawn) + k
              /\ ~Starting /\ ~Pending
            BY <1>e, <1>f, <2>1, <2>6 DEF FirstInv
        <3>2. Head(audio) = Len(drawn) + 1
            BY <2>3, <3>1
        <3>3. ~Starting' /\ ~Pending'
            BY <2>1, <3>1 DEF Starting, Pending
        <3>4. \A k \in 1 .. Len(audio') : audio'[k] = Len(drawn') + k
            BY <2>3, <2>4, <3>1
        <3>5. index' = Len(drawn') + Len(audio') /\ audio_sync' <= Len(drawn')
            BY <2>1, <2>3, <2>4, <3>1, <3>2
        <3> QED
            BY <3>3, <3>4, <3>5
    <2>7. ASSUME starts <= 1 PROVE \A k \in 1 .. Len(shown') : shown'[k].tag <= Len(drawn')
        <3>1. \A k \in 1 .. Len(shown) : shown[k].tag <= Len(drawn)
            BY <1>f, <2>7 DEF FirstInv
        <3>2. \A k \in 1 .. Len(shown) : shown[k].tag \in Int
            <4>1. \A k \in 1 .. Len(shown) : shown[k] \in Bitmap
                BY <2>2
            <4>2. \A b \in Bitmap : b.tag \in Int
                BY Bounds DEF Bitmap
            <4> QED
                BY <4>1, <4>2
        <3> QED
            BY <2>1, <2>4, <3>1, <3>2
    <2> QED
        BY <2>1, <2>5, <2>6, <2>7 DEF FirstInv
<1> QED
    BY <1>1, <1>2, <1>3, <1>4, <1>5 DEF EncoderThread, EncoderWorks
-------------------------------------------------------------------------------
(* The theorems                                                            *)

LEMMA Idling == DRInv /\ UNCHANGED vars => DRInv'
<1> SUFFICES ASSUME DRInv, UNCHANGED vars PROVE DRInv'
    OBVIOUS
<1> USE DEF vars, control, sound, desktop, marks, file, tasking, counts
<1>1. TypeOK'
    <2>0. TypeOK
        BY DEF DRInv
    <2>1. /\ UNCHANGED <<state, ui, source, capturing, hearing, index, audio, audio_mark, audio_sync, bitmaps>>
          /\ UNCHANGED <<frames, dtasks, shooting, is_started, etasks, encoder, video_pts, audio_pts>>
          /\ UNCHANGED <<drawn, shown, errors, polls, starts, pauses, failures, completions>>
        OBVIOUS
    <2> HIDE DEF vars, control, sound, desktop, marks, file, tasking, counts
    <2>2. /\ audio' \in Seq(1 .. MaxPackets) /\ bitmaps' \in Seq(Bitmap) /\ dtasks' \in Seq(Task)
          /\ etasks' \in Seq(Task) /\ drawn' \in Seq(Packet) /\ shown' \in Seq(Bitmap)
          /\ capturing' \in BOOLEAN /\ is_started' \in BOOLEAN /\ video_pts' \in Int /\ audio_pts' \in Nat
        BY <2>0, <2>1 DEF TypeOK
    <2>3. /\ state' \in {"Started", "Stoped", "Paused"} /\ source' \in {"mic", "timer", "stand-in"}
          /\ ui' \in {"idle", "audio started", "media started", "media stopped"}
          /\ hearing' \in {"idle", "data", "mark"} /\ shooting' \in {"off", "on", "shot"}
          /\ encoder' \in {"none", "open", "draining"}
        BY <2>0, <2>1 DEF TypeOK
    <2>4. /\ index' \in 0 .. MaxPackets /\ audio_mark' \in -1 .. MaxPackets /\ audio_sync' \in -1 .. MaxPackets
          /\ frames' \in 0 .. MaxFrames /\ polls' \in 0 .. INTERVAL_AUDIO_COUNT_LIMIT - 1
          /\ starts' \in 0 .. MaxStarts /\ pauses' \in 0 .. MaxPauses
          /\ failures' \in 0 .. MaxFailures /\ completions' \in 0 .. MaxStarts /\ errors' \in 0 .. MaxErrors
        BY <2>0, <2>1 DEF TypeOK
    <2> QED
        BY <2>2, <2>3, <2>4 DEF TypeOK
<1>2. Ready'
    BY DEF DRInv, Ready
<1>3. OneRecording'
    BY DEF DRInv, OneRecording, Pending, Starting
<1>4. MediaInv'
    BY DEF DRInv, MediaInv, DesktopTold, Starting
<1>5. FirstInv'
    BY DEF DRInv, FirstInv, Pending, Starting
<1>6. DrawnInv'
    BY DEF DRInv, DrawnInv
<1> QED
    BY <1>1, <1>2, <1>3, <1>4, <1>5, <1>6 DEF DRInv

LEMMA StillDrawn == DRInv /\ Next => DrawnInv'
<1> SUFFICES ASSUME DRInv, Next PROVE DrawnInv'
    OBVIOUS
<1>n. starts \in Nat /\ errors \in Nat
    BY Numbers DEF DRInv
<1>i. starts <= 1 => \A k \in 1 .. Len(drawn) : drawn[k].number = k /\ (drawn[k].written \/ errors > 0)
    BY DEF DRInv, DrawnInv
<1>1. CASE UIThread
    <2>1. UNCHANGED <<drawn, errors>> /\ starts' \in {starts, starts + 1}
        BY <1>1 DEF UIThread, StartAudio, StartAudioFails, StartVideo, StartEncoder, StartEncoderFails, Stop,
           StopEncoder, Pause, Resume, file
    <2>2. starts' <= 1 => starts <= 1
        BY <1>n, <2>1
    <2> QED
        BY <1>i, <2>1, <2>2 DEF DrawnInv
<1>2. CASE AudioThread \/ DesktopThread
    <2>1. UNCHANGED <<drawn, errors, starts>>
        BY <1>2 DEF AudioThread, DesktopThread, DataComes, PushPacket, SetAudioMark, DesktopTask, DesktopRepeat,
           Shoot, file, control
    <2> QED
        BY <1>i, <2>1 DEF DrawnInv
<1>3. CASE EncoderStart
    <2>1. Len(drawn') = 0
        BY <1>3 DEF EncoderStart
    <2> QED
        BY <2>1 DEF DrawnInv
<1>4. CASE EncoderStop \/ NoAudio \/ EndDrain \/ EncodingFails
    <2>1. UNCHANGED <<drawn, errors, starts>>
        BY <1>4 DEF EncoderStop, NoAudio, EndDrain, Complete, EncodingFails, file, control
    <2> QED
        BY <1>i, <2>1 DEF DrawnInv
<1>5. CASE EncodeBitmap
    <2>1. UNCHANGED <<drawn, starts>> /\ (errors' = errors \/ errors' = errors + 1)
        BY <1>5 DEF EncodeBitmap, WriteBitmap, WriteFails, control
    <2>2. errors > 0 => errors' > 0
        BY <1>n, <2>1
    <2> QED
        BY <1>i, <2>1, <2>2 DEF DrawnInv
<1>6. CASE EncodeAudio
    <2>1. /\ starts' = starts /\ Encoding /\ audio # <<>> /\ WriteAudioPacket(Head(audio))
        BY <1>6 DEF EncodeAudio, TakeAudio, control
    <2>2. Head(audio) \in 1 .. MaxPackets /\ Head(audio) = audio[1] /\ Len(audio) \in Nat \ {0}
        BY <2>1, Popped DEF DRInv, TypeOK
    <2>3. /\ Len(drawn') = Len(drawn) + 1 /\ Len(drawn) \in Nat /\ errors' \in Nat /\ errors' >= errors
          /\ \A k \in 1 .. Len(drawn) : drawn'[k] = drawn[k]
          /\ drawn'[Len(drawn) + 1].number = Head(audio)
          /\ drawn'[Len(drawn) + 1].written \/ errors' > 0
        <3>1. errors' \in 0 .. MaxErrors => errors' \in Nat
            BY Bounds
        <3> QED
            BY <2>1, <2>2, <3>1, Written DEF DRInv
    <2>4. ASSUME starts <= 1, NEW k \in 1 .. Len(drawn')
          PROVE  drawn'[k].number = k /\ (drawn'[k].written \/ errors' > 0)
        <3>1. CASE k = Len(drawn) + 1
            <4>1. \A i \in 1 .. Len(audio) : audio[i] = Len(drawn) + i
                BY <2>4 DEF DRInv, FirstInv
            <4>2. Head(audio) = Len(drawn) + 1
                BY <2>2, <4>1
            <4> QED
                BY <2>3, <3>1, <4>2
        <3>2. CASE k # Len(drawn) + 1
            <4>1. k \in 1 .. Len(drawn)
                BY <2>3, <3>2
            <4>2. drawn'[k] = drawn[k] /\ drawn[k].number = k /\ (drawn[k].written \/ errors > 0)
                BY <1>i, <2>3, <2>4, <4>1
            <4>3. errors > 0 => errors' > 0
                BY <1>n, <2>3
            <4> QED
                BY <4>2, <4>3
        <3> QED
            BY <3>1, <3>2
    <2> QED
        BY <2>1, <2>4 DEF DrawnInv
<1> QED
    BY <1>1, <1>2, <1>3, <1>4, <1>5, <1>6 DEF Next, EncoderThread, EncoderWorks

\* The invariant of the pipeline: one recording at a time, media told what the
\* state says, and packets numbered through in the first recording.
THEOREM RecorderInvariant == Spec => []DRInv
<1>1. Init => DRInv
    BY InitRecorder
<1>2. DRInv /\ [Next]_vars => DRInv'
    <2>1. DRInv /\ Next => DRInv'
        BY UITypes, CaptureTypes, EncoderTypes, StillReady, StillOne, StillMedia, UIFirst, CaptureFirst, EncoderFirst,
           StillDrawn
           DEF Next, DRInv
    <2> QED
        BY <2>1, Idling
<1> QED
    BY <1>1, <1>2, PTL DEF Spec

\* Every variable of the pipeline keeps its type: counters their bounds,
\* completions no more than the starts.
THEOREM RecorderTypes == Spec => []TypeOK
<1>1. DRInv => TypeOK
    BY DEF DRInv
<1> QED
    BY <1>1, RecorderInvariant, PTL

\* Between calls of the UI thread audio and desktop do what the state says
\* (DesktopRecorder.hpp start, stop, pause, resume).
THEOREM MediaFollow == Spec => []MediaFollowState
<1>1. DRInv => MediaFollowState
    <2> SUFFICES ASSUME DRInv, ui = "idle" PROVE MediaFollowState
        BY DEF MediaFollowState
    <2>1. capturing <=> state = "Started"
        BY DEF DRInv, MediaInv, Starting
    <2>2. DesktopTold(state = "Started")
        BY DEF DRInv, MediaInv
    <2> QED
        BY <2>1, <2>2 DEF MediaFollowState, DesktopTold
<1> QED
    BY <1>1, RecorderInvariant, PTL

\* In the first recording no bitmap has its turn before the packets up to the one
\* it is stamped with were drawn, and each of those is written or was reported
\* (VideoQueue, and the turns and the writes of VideoEncoder).
THEOREM NoPictureBeforeItsSound == Spec => []SoundBeforePicture
<1>1. DRInv => SoundBeforePicture
    <2> SUFFICES ASSUME DRInv, starts = 1, NEW i \in DOMAIN shown, NEW n \in 1 .. shown[i].tag
                 PROVE  n \in DOMAIN drawn /\ drawn[n].number = n /\ (drawn[n].written \/ errors > 0)
        BY DEF SoundBeforePicture
    <2>0. shown \in Seq(Bitmap) /\ drawn \in Seq(Packet)
        BY DEF DRInv, TypeOK
    <2>1. i \in 1 .. Len(shown) /\ shown[i] \in Bitmap /\ DOMAIN drawn = 1 .. Len(drawn) /\ Len(drawn) \in Nat
        BY <2>0
    <2>2. shown[i].tag <= Len(drawn)
        BY <2>1 DEF DRInv, FirstInv
    <2>3. shown[i].tag \in Int
        BY <2>1, Bounds DEF Bitmap
    <2>4. n \in 1 .. Len(drawn)
        BY <2>1, <2>2, <2>3
    <2> QED
        BY <2>1, <2>4 DEF DRInv, DrawnInv
<1> QED
    BY <1>1, RecorderInvariant, PTL

LEMMA NextStamp == \A n, d \in Int : (n + 1) * d = n * d + d /\ n * d \in Int
OBVIOUS

\* Once the time stamps that decide the turns of picture and sound are within one
\* step of each other they stay so until the file is closed, through pauses, failing
\* writes and the drain.
THEOREM StaysInStep == Spec => LipSync
<1>1. DRInv /\ [Next]_vars => [encoder # "none" /\ InStep => InStep']_vars
    <2> SUFFICES ASSUME DRInv, Next, encoder # "none", InStep PROVE InStep'
        OBVIOUS
    <2>1. CASE UNCHANGED <<video_pts, audio_pts>>
        BY <2>1 DEF InStep
    <2>t. VideoStep \in Int /\ AudioStep \in Int /\ video_pts \in Int /\ audio_pts \in Int
        BY RecorderAssumption, Numbers DEF DRInv
    <2> DEFINE v == video_pts * VideoStep
               a == audio_pts * AudioStep
    <2>v. v \in Int /\ a \in Int /\ 0 < VideoStep /\ 0 < AudioStep
        BY <2>t, NextStamp, RecorderAssumption
    <2>2. CASE EncodeBitmap
        <3>0. v <= a /\ video_pts' \in {video_pts, video_pts + 1} /\ audio_pts' = audio_pts
            BY <2>2 DEF EncodeBitmap, isVideoTurn, WriteBitmap
        <3>1. CASE video_pts' = video_pts
            BY <2>1, <3>0, <3>1
        <3> SUFFICES ASSUME video_pts' = video_pts + 1 PROVE InStep'
            BY <3>0, <3>1
        <3>2. video_pts' * VideoStep = v + VideoStep /\ audio_pts' * AudioStep = a
            BY <2>t, <3>0, NextStamp
        <3>3. v - a <= VideoStep /\ a - v <= AudioStep
            BY DEF InStep
        <3> HIDE DEF v, a
        <3>4. (v + VideoStep) - a <= VideoStep /\ a - (v + VideoStep) <= AudioStep
            BY <2>t, <2>v, <3>0, <3>3
        <3> QED
            BY <3>2, <3>4 DEF InStep
    <2>3. CASE EncodeAudio
        <3>0. ~(v <= a) /\ audio_pts' \in {audio_pts, audio_pts + 1} /\ video_pts' = video_pts
            BY <2>3 DEF EncodeAudio, isVideoTurn, WriteAudioPacket
        <3>1. CASE audio_pts' = audio_pts
            BY <2>1, <3>0, <3>1
        <3> SUFFICES ASSUME audio_pts' = audio_pts + 1 PROVE InStep'
            BY <3>0, <3>1
        <3>2. audio_pts' * AudioStep = a + AudioStep /\ video_pts' * VideoStep = v
            BY <2>t, <3>0, NextStamp
        <3>3. v - a <= VideoStep /\ a - v <= AudioStep
            BY DEF InStep
        <3> HIDE DEF v, a
        <3>4. v - (a + AudioStep) <= VideoStep /\ (a + AudioStep) - v <= AudioStep
            BY <2>t, <2>v, <3>0, <3>3
        <3> QED
            BY <3>2, <3>4 DEF InStep
    <2>4. ~EncoderStart
        <3>1. SUFFICES ASSUME EncoderStart PROVE FALSE
            OBVIOUS
        <3>2. Waits(etasks)
            BY <3>1, TaskQueue DEF EncoderStart, DRInv, OneRecording, TypeOK
        <3> QED
            BY <3>2 DEF DRInv, OneRecording, Pending
    <2>5. CASE UIThread \/ AudioThread \/ DesktopThread
        BY <2>1, <2>5 DEF UIThread, StartAudio, StartAudioFails, StartVideo, StartEncoder, StartEncoderFails, Stop,
           StopEncoder, Pause, Resume, AudioThread, DataComes, PushPacket, SetAudioMark, DesktopThread, DesktopTask,
           DesktopRepeat, Shoot, file
    <2>6. CASE EncoderStop \/ NoAudio \/ EndDrain \/ EncodingFails
        BY <2>1, <2>6 DEF EncoderStop, NoAudio, EndDrain, Complete, EncodingFails, file
    <2> QED
        BY <2>2, <2>3, <2>4, <2>5, <2>6 DEF Next, EncoderThread, EncoderWorks
<1> QED
    BY <1>1, RecorderInvariant, PTL DEF Spec, LipSync
-------------------------------------------------------------------------------
(* A recording implements AudioRecording                                   *)

\* The encoder has been told to stop, or is about to be.
StopWaits(tasks) == \E i \in DOMAIN tasks : tasks[i] = "STOP"
StopTold == ui = "media stopped" \/ StopWaits(etasks) \/ encoder = "draining" \/ completions > 0

\* A microphone that is heard is open; the one recording is told to stop only
\* after stop().
OnceInv ==
    /\ source = "mic" /\ hearing # "idle" => capturing
    /\ starts <= 1 /\ StopTold => state = "Stoped" /\ ~Starting /\ starts = 1

LEMMA InitOnce == Init => OnceInv
<1> SUFFICES ASSUME Init PROVE OnceInv
    OBVIOUS
<1>1. hearing = "idle" /\ ui = "idle" /\ encoder = "none" /\ completions = 0 /\ DOMAIN etasks = {}
    BY DEF Init
<1>2. ~StopTold
    BY <1>1 DEF StopTold, StopWaits
<1> QED
    BY <1>1, <1>2 DEF OnceInv

LEMMA StopQueue ==
    ASSUME NEW s \in Seq(Task)
    PROVE  /\ StopWaits(Append(s, "START")) => StopWaits(s)
           /\ s # <<>> => /\ StopWaits(Tail(s)) => StopWaits(s)
                          /\ Head(s) = "STOP" => StopWaits(s)
<1>0. Len(s) \in Nat /\ DOMAIN s = 1 .. Len(s) /\ "START" \in Task
    BY DEF Task
<1>1. StopWaits(Append(s, "START")) => StopWaits(s)
    <2>1. /\ \A i \in 1 .. Len(s) : Append(s, "START")[i] = s[i]
          /\ Append(s, "START")[Len(s) + 1] = "START" /\ DOMAIN Append(s, "START") = 1 .. Len(s) + 1
        BY <1>0, Pushed
    <2> QED
        BY <1>0, <2>1 DEF StopWaits
<1>2. ASSUME s # <<>>
      PROVE  /\ StopWaits(Tail(s)) => StopWaits(s)
             /\ Head(s) = "STOP" => StopWaits(s)
    <2>1. /\ Head(s) = s[1] /\ Len(s) \in Nat \ {0} /\ DOMAIN Tail(s) = 1 .. Len(s) - 1
          /\ \A i \in 1 .. Len(s) - 1 : Tail(s)[i] = s[i + 1]
        BY <1>2, Popped
    <2> QED
        BY <1>0, <2>1 DEF StopWaits
<1> QED
    BY <1>1, <1>2

\* A step of the UI thread other than StopEncoder, or of another thread, does
\* not tell the encoder more than it was told.
LEMMA StillOnce == DRInv /\ OnceInv /\ Next => OnceInv'
<1> SUFFICES ASSUME DRInv, OnceInv, Next PROVE OnceInv'
    OBVIOUS
<1>o. /\ source = "mic" /\ hearing # "idle" => capturing
      /\ starts <= 1 /\ StopTold => state = "Stoped" /\ ~Starting /\ starts = 1
    BY DEF OnceInv
<1>n. starts \in Nat /\ completions \in Nat
    BY Numbers DEF DRInv
<1>q. etasks \in Seq(Task)
    BY DEF DRInv, TypeOK
<1>0. starts = 0 => state = "Stoped" /\ ~Starting
    BY DEF DRInv, FirstInv
<1>t. encoder \in {"none", "open", "draining"}
    BY DEF DRInv, TypeOK
<1>m. ASSUME StopMedia PROVE (source' = "mic" => hearing' = "idle") /\ ~capturing'
    BY <1>m DEF StopMedia
<1>1. (source = "mic" /\ hearing # "idle" => capturing)'
    <2>1. CASE StartAudio \/ DataComes \/ Resume
        BY <1>o, <2>1 DEF StartAudio, DataComes, Resume, ResumeAudio
    <2>2. CASE StartEncoderFails \/ Stop \/ Pause
        BY <1>m, <2>2 DEF StartEncoderFails, Stop, Pause
    <2>3. CASE PushPacket \/ SetAudioMark
        <3>1. UNCHANGED <<source, capturing>> /\ hearing # "idle"
            BY <2>3 DEF PushPacket, SetAudioMark
        <3> QED
            BY <1>o, <3>1
    <2>4. CASE UNCHANGED <<source, hearing, capturing>>
        BY <1>o, <2>4
    <2>5. CASE StartAudioFails \/ StartVideo \/ StartEncoder \/ StopEncoder
        BY <2>4, <2>5 DEF StartAudioFails, StartVideo, StartEncoder, StopEncoder, sound
    <2>6. CASE DesktopThread
        BY <2>4, <2>6 DEF DesktopThread, DesktopTask, DesktopRepeat, Shoot, sound
    <2>7. CASE EncoderThread
        BY <2>4, <2>7 DEF EncoderThread, EncoderWorks, EncoderStart, EncoderStop, EncodeBitmap, EncodeAudio, NoAudio,
           EndDrain, Complete, EncodingFails, sound
    <2> QED
        BY <2>1, <2>2, <2>3, <2>5, <2>6, <2>7 DEF Next, UIThread, AudioThread
<1>2. (starts <= 1 /\ StopTold => state = "Stoped" /\ ~Starting /\ starts = 1)'
    <2>1. CASE StartAudio \/ StartAudioFails
        <3>1. /\ starts' = starts + 1 /\ UNCHANGED <<etasks, encoder, completions>> /\ ui = "idle"
              /\ ui' \in {"idle", "audio started"}
            BY <2>1 DEF StartAudio, StartAudioFails, MayStart, file, tasking, counts
        <3>2. StopTold' => StopTold
            BY <3>1 DEF StopTold
        <3>3. starts' <= 1 => starts = 0
            <4>1. starts' = starts + 1
                BY <3>1
            <4> QED
                BY <1>n, <4>1
        <3>4. starts' <= 1 => ~StopTold'
            BY <1>n, <1>o, <3>2, <3>3
        <3> QED
            BY <3>4
    <2>2. CASE UNCHANGED <<state, starts>> /\ (Starting' => Starting) /\ (StopTold' => StopTold)
        BY <1>o, <2>2
    <2>3. CASE StartVideo
        <3>1. UNCHANGED <<state, starts, etasks, encoder, completions>> /\ Starting /\ ui' # "media stopped"
            BY <2>3 DEF StartVideo, Starting, file, tasking, counts
        <3> QED
            BY <2>2, <3>1 DEF StopTold
    <2>4. CASE StartEncoder
        <3>1. /\ UNCHANGED <<starts, encoder, completions>> /\ Starting /\ ui' = "idle"
              /\ etasks' = Append(etasks, "START")
            BY <2>4 DEF StartEncoder, Starting, file, counts
        <3>2. StopTold' => StopTold
            BY <1>q, <3>1, StopQueue DEF StopTold
        <3> QED
            BY <1>o, <3>1, <3>2
    <2>5. CASE StartEncoderFails
        <3>1. UNCHANGED <<starts, etasks, encoder, completions>> /\ Starting /\ ui' = "idle"
            BY <2>5 DEF StartEncoderFails, Starting, file, tasking, counts
        <3>2. StopTold' => StopTold
            BY <3>1 DEF StopTold
        <3> QED
            BY <1>o, <3>1, <3>2
    <2>6. CASE Stop
        <3>1. starts' = starts /\ state # "Stoped" /\ state' = "Stoped" /\ ~Starting'
            BY <2>6 DEF Stop, Starting
        <3> QED
            BY <1>0, <1>n, <3>1
    <2>7. CASE StopEncoder
        <3>1. UNCHANGED <<state, starts>> /\ ~Starting' /\ StopTold
            BY <2>7 DEF StopEncoder, Starting, StopTold
        <3> QED
            BY <2>2, <3>1
    <2>8. CASE Pause \/ Resume
        <3>1. UNCHANGED <<starts, ui, etasks, encoder, completions>> /\ state # "Stoped"
            BY <2>8 DEF Pause, Resume, file, tasking, counts
        <3>2. StopTold' => StopTold
            BY <3>1 DEF StopTold
        <3> QED
            BY <1>o, <3>1, <3>2
    <2>9. CASE EncoderStart
        <3>1. /\ UNCHANGED <<state, starts, ui, completions>> /\ etasks # <<>> /\ etasks' = Tail(etasks)
              /\ encoder' = "open"
            BY <2>9 DEF EncoderStart, control, counts
        <3> QED
            BY <1>q, <2>2, <3>1, StopQueue DEF StopTold, Starting
    <2>10. CASE EncoderStop
        <3>1. /\ UNCHANGED <<state, starts, ui, completions>> /\ etasks # <<>> /\ Head(etasks) = "STOP"
            BY <2>10 DEF EncoderStop, control, counts
        <3> QED
            BY <1>q, <2>2, <3>1, StopQueue DEF StopTold, Starting
    <2>11. CASE EndDrain
        <3>1. UNCHANGED <<state, starts, ui>> /\ encoder = "draining"
            BY <2>11 DEF EndDrain, Complete, control
        <3> QED
            BY <2>2, <3>1 DEF StopTold, Starting
    <2>12. CASE EncodeBitmap \/ EncodeAudio \/ NoAudio \/ EncodingFails
        <3>1. UNCHANGED <<state, starts, ui, etasks, completions>> /\ (encoder' = "draining" => encoder = "draining")
            BY <2>12 DEF EncodeBitmap, EncodeAudio, NoAudio, EncodingFails, control, file, tasking, counts
        <3> QED
            BY <2>2, <3>1 DEF StopTold, Starting
    <2>13. CASE AudioThread \/ DesktopThread
        <3>1. UNCHANGED <<state, starts, ui, etasks, completions, encoder>>
            BY <2>13 DEF AudioThread, DesktopThread, DataComes, PushPacket, SetAudioMark, DesktopTask, DesktopRepeat,
               Shoot, control, file, tasking, counts
        <3> QED
            BY <2>2, <3>1 DEF StopTold, Starting
    <2> QED
        BY <2>1, <2>3, <2>4, <2>5, <2>6, <2>7, <2>8, <2>9, <2>10, <2>11, <2>12, <2>13
           DEF Next, UIThread, EncoderThread, EncoderWorks
<1> QED
    BY <1>1, <1>2 DEF OnceInv

\* While a packet or a bitmap can be written, the one recording has neither
\* completed nor failed.
LEMMA Alive ==
    ASSUME DRInv, starts <= 1, is_started
    PROVE  completions = 0 /\ failures = 0 /\ starts = 1 /\ ~Starting
<1>1. completions + failures + 1 + (IF Starting THEN 1 ELSE 0) <= starts
    BY DEF DRInv, OneRecording
<1>2. completions \in Nat /\ failures \in Nat /\ starts \in Nat
    BY Numbers DEF DRInv
<1> QED
    BY <1>1, <1>2

LEMMA StageOf ==
    ASSUME DRInv, starts <= 1
    PROVE  /\ is_started => Stage = IF state = "Stoped" THEN "stopping" ELSE "recording"
           /\ ~is_started => Stage \in {"failed", "complete", "idle"}
<1>1. is_started => completions = 0 /\ failures = 0
    BY Alive
<1> QED
    BY <1>1 DEF Stage

LEMMA InitImplements == Init => AR!RecInit
<1> SUFFICES ASSUME Init PROVE AR!RecInit
    OBVIOUS
<1>1. failures = 0 /\ completions = 0 /\ ~is_started /\ index = 0 /\ drawn = <<>> /\ errors = 0
    BY DEF Init
<1>2. Stage = "idle"
    BY <1>1 DEF Stage
<1> QED
    BY <1>1, <1>2 DEF AR!RecInit

\* What a step may be that leaves the stage alone.
LEMMA SameStage ==
    UNCHANGED <<state, is_started, failures, completions>> => Stage' = Stage
BY DEF Stage

LEMMA UIImplements ==
    ASSUME DRInv, OnceInv, starts <= 1, starts' <= 1, UIThread
    PROVE  [AR!RecNext]_AR!recVars
<1>n. starts \in Nat
    BY Numbers DEF DRInv
<1>f. failures \in Nat /\ completions \in Nat
    BY Numbers DEF DRInv
<1>1. CASE StartAudio \/ StartAudioFails
    <2>1. starts' = starts + 1 /\ index' = 0
        BY <1>1 DEF StartAudio, StartAudioFails
    <2>2. UNCHANGED <<source, drawn, errors, state, is_started, failures, completions>>
        BY <1>1 DEF StartAudio, StartAudioFails, file, tasking, counts
    <2>3. starts = 0
        BY <1>n, <2>1
    <2>4. index' = index
        BY <2>1, <2>3 DEF DRInv, FirstInv
    <2>5. Stage' = Stage
        BY <2>2, SameStage
    <2> QED
        BY <2>2, <2>4, <2>5 DEF AR!recVars
<1>2. CASE StartVideo \/ StopEncoder
    <2>1. UNCHANGED <<source, index, drawn, errors, state, is_started, failures, completions>>
        BY <1>2 DEF StartVideo, StopEncoder, sound, file, tasking, counts
    <2>2. Stage' = Stage
        BY <2>1, SameStage
    <2> QED
        BY <2>1, <2>2 DEF AR!recVars
<1>3. CASE StartEncoder
    <2>1. UNCHANGED <<source, index, drawn, errors, failures, completions>>
        BY <1>3 DEF StartEncoder, sound, file, counts
    <2>2. is_started' /\ state' = "Started" /\ ~is_started /\ Starting
        BY <1>3 DEF StartEncoder, Starting
    <2>3. CASE failures > 0 \/ completions > 0
        <3>1. Stage' = Stage
            BY <2>1, <2>3 DEF Stage
        <3> QED
            BY <2>1, <3>1 DEF AR!recVars
    <2>4. CASE ~(failures > 0 \/ completions > 0)
        <3>1. Stage = "idle" /\ Stage' = "recording"
            BY <2>1, <2>2, <2>4 DEF Stage
        <3>2. AR!Begin
            BY <2>1, <3>1 DEF AR!Begin
        <3> QED
            BY <3>2 DEF AR!RecNext
    <2> QED
        BY <2>3, <2>4
<1>4. CASE StartEncoderFails
    <2>1. UNCHANGED <<source, index, drawn, errors, is_started, failures, completions>> /\ state' = "Stoped"
        BY <1>4 DEF StartEncoderFails, StopMedia, file, tasking, counts
    <2>2. state = "Stoped"
        BY <1>4 DEF StartEncoderFails, DRInv, MediaInv
    <2>3. Stage' = Stage
        BY <2>1, <2>2, SameStage
    <2> QED
        BY <2>1, <2>3 DEF AR!recVars
<1>5. CASE Stop
    <2>1. UNCHANGED <<source, index, drawn, errors, is_started, failures, completions>>
        BY <1>5 DEF Stop, StopMedia, file, tasking, counts
    <2>2. state' = "Stoped" /\ state # "Stoped"
        BY <1>5 DEF Stop
    <2>3. CASE failures > 0 \/ completions > 0 \/ ~is_started
        <3>1. Stage' = Stage
            BY <2>1, <2>3 DEF Stage
        <3> QED
            BY <2>1, <3>1 DEF AR!recVars
    <2>4. CASE ~(failures > 0 \/ completions > 0 \/ ~is_started)
        <3>1. Stage = "recording" /\ Stage' = "stopping"
            BY <2>1, <2>2, <2>4 DEF Stage
        <3>2. AR!Stop
            BY <2>1, <3>1 DEF AR!Stop
        <3> QED
            BY <3>2 DEF AR!RecNext
    <2> QED
        BY <2>3, <2>4
<1>6. CASE Pause
    <2>1. UNCHANGED <<source, index, drawn, errors, is_started, failures, completions>>
        BY <1>6 DEF Pause, StopMedia, file, tasking, counts
    <2>2. state' = "Paused" /\ state = "Started"
        BY <1>6 DEF Pause
    <2>3. Stage' = Stage
        BY <2>1, <2>2 DEF Stage
    <2> QED
        BY <2>1, <2>3 DEF AR!recVars
<1>7. CASE Resume
    <2>1. UNCHANGED <<index, drawn, errors, is_started, failures, completions>>
        BY <1>7 DEF Resume, file, tasking, counts
    <2>2. state' = "Started" /\ state = "Paused"
        BY <1>7 DEF Resume
    <2>3. Stage' = Stage
        BY <2>1, <2>2 DEF Stage
    <2>4. source' = source \/ source' = "stand-in"
        BY <1>7 DEF Resume, ResumeAudio
    <2>5. CASE source' = source
        BY <2>1, <2>3, <2>5 DEF AR!recVars
    <2>6. CASE source' = "stand-in"
        <3>1. AR!Degrade
            BY <2>1, <2>3, <2>6 DEF AR!Degrade
        <3> QED
            BY <3>1 DEF AR!RecNext
    <2> QED
        BY <2>4, <2>5, <2>6
<1> QED
    BY <1>1, <1>2, <1>3, <1>4, <1>5, <1>6, <1>7 DEF UIThread

\* A packet of the microphone comes while it is open: before the recording is
\* accepted, in it, or after it failed.
LEMMA CaptureImplements ==
    ASSUME DRInv, OnceInv, starts <= 1, AudioThread \/ DesktopThread
    PROVE  [AR!RecNext]_AR!recVars
<1>1. CASE DataComes \/ SetAudioMark \/ DesktopThread
    <2>1. UNCHANGED <<source, index, drawn, errors, state, is_started, failures, completions>>
        BY <1>1 DEF DataComes, SetAudioMark, DesktopThread, DesktopTask, DesktopRepeat, Shoot, control, sound, file,
           tasking, counts
    <2>2. Stage' = Stage
        BY <2>1, SameStage
    <2> QED
        BY <2>1, <2>2 DEF AR!recVars
<1>2. CASE PushPacket
    <2>1. /\ UNCHANGED <<source, drawn, errors, state, is_started, failures, completions>> /\ index' = index + 1
          /\ hearing = "data"
        BY <1>2 DEF PushPacket, control, file, tasking, counts
    <2>2. Stage' = Stage
        BY <2>1, SameStage
    <2>3. ASSUME source = "mic" PROVE Stage \in {"idle", "recording", "failed"}
        <3>1. capturing
            BY <2>1, <2>3 DEF OnceInv
        <3>2. state = "Started" \/ Starting
            BY <3>1 DEF DRInv, MediaInv
        <3>3. ~StopTold
            BY <3>2 DEF OnceInv
        <3>4. completions = 0
            <4>1. completions \in Nat /\ ~(completions > 0)
                BY <3>3, Numbers DEF StopTold, DRInv
            <4> QED
                BY <4>1
        <3>5. is_started => state = "Started"
            BY <3>2, Alive
        <3> QED
            BY <3>4, <3>5 DEF Stage
    <2>4. AR!Hear
        BY <2>1, <2>2, <2>3 DEF AR!Hear
    <2> QED
        BY <2>4 DEF AR!RecNext
<1> QED
    BY <1>1, <1>2 DEF AudioThread

LEMMA EncoderImplements ==
    ASSUME DRInv, OnceInv, starts <= 1, EncoderThread
    PROVE  [AR!RecNext]_AR!recVars
<1>f. /\ index = Len(drawn) + Len(audio) /\ \A k \in 1 .. Len(audio) : audio[k] = Len(drawn) + k
      /\ Starting \/ Pending => drawn = <<>>
    BY DEF DRInv, FirstInv
<1>s. audio \in Seq(1 .. MaxPackets) /\ drawn \in Seq(Packet) /\ etasks \in Seq(Task)
    BY DEF DRInv, TypeOK
<1>e. encoder # "none" => is_started
    BY DEF DRInv, OneRecording
<1>1. CASE EncoderStart
    <2>1. /\ UNCHANGED <<source, index, errors, state, is_started, failures, completions>> /\ drawn' = <<>>
          /\ etasks # <<>> /\ Head(etasks) = "START"
        BY <1>1 DEF EncoderStart, control, sound, counts
    <2>2. Pending
        BY <1>s, <2>1, TaskQueue DEF Pending, DRInv, OneRecording
    <2>3. drawn' = drawn
        BY <1>f, <2>1, <2>2
    <2>4. Stage' = Stage
        BY <2>1, SameStage
    <2> QED
        BY <2>1, <2>3, <2>4 DEF AR!recVars
<1>2. CASE EncoderStop \/ NoAudio
    <2>1. UNCHANGED <<source, index, drawn, errors, state, is_started, failures, completions>>
        BY <1>2 DEF EncoderStop, NoAudio, control, sound, file, tasking, counts
    <2>2. Stage' = Stage
        BY <2>1, SameStage
    <2> QED
        BY <2>1, <2>2 DEF AR!recVars
<1>b. CASE EncodeBitmap
    <2>1. /\ UNCHANGED <<source, index, drawn, state, is_started, failures, completions>> /\ Encoding
          /\ errors' = errors \/ errors' = errors + 1
        BY <1>b DEF EncodeBitmap, WriteBitmap, WriteFails, control, sound, tasking, counts
    <2>2. Stage' = Stage
        BY <2>1, SameStage
    <2>3. Stage \in {"recording", "stopping"}
        BY <1>e, <2>1, StageOf DEF Encoding
    <2>4. CASE errors' = errors
        BY <2>1, <2>2, <2>4 DEF AR!recVars
    <2>5. CASE errors' = errors + 1
        <3>1. AR!Miss
            BY <2>1, <2>2, <2>3, <2>5 DEF AR!Miss
        <3> QED
            BY <3>1 DEF AR!RecNext
    <2> QED
        BY <2>1, <2>4, <2>5
<1>3. CASE EncodeAudio
    <2>1. /\ UNCHANGED <<source, index, state, is_started, failures, completions>>
          /\ Encoding /\ audio # <<>> /\ WriteAudioPacket(Head(audio))
        BY <1>3 DEF EncodeAudio, TakeAudio, control, tasking
    <2>2. Stage' = Stage
        BY <2>1, SameStage
    <2>3. Stage \in {"recording", "stopping"}
        BY <1>e, <2>1, StageOf DEF Encoding
    <2>4. Head(audio) = audio[1] /\ Len(audio) \in Nat \ {0} /\ Len(drawn) \in Nat
        BY <1>s, <2>1, Popped
    <2>5. Head(audio) = Len(drawn) + 1 /\ Len(drawn) < index
        BY <1>f, <2>4
    <2>6. PICK written \in BOOLEAN :
            /\ drawn' = Append(drawn, [number |-> Head(audio), written |-> written])
            /\ written => errors' = errors
            /\ ~written => errors' = errors + 1
        BY <2>1 DEF WriteAudioPacket, WriteFails
    <2>7. AR!Draw(written)
        BY <2>1, <2>2, <2>3, <2>5, <2>6 DEF AR!Draw
    <2>8. CASE written
        <3>1. written = TRUE
            BY <2>8
        <3>2. AR!Keep
            BY <2>6, <2>7, <3>1 DEF AR!Keep
        <3> QED
            BY <3>2 DEF AR!RecNext
    <2>9. CASE ~written
        <3>1. written = FALSE
            BY <2>9
        <3>2. AR!Drop
            BY <2>6, <2>7, <3>1 DEF AR!Drop
        <3> QED
            BY <3>2 DEF AR!RecNext
    <2> QED
        BY <2>8, <2>9
<1>4. CASE EndDrain
    <2>1. /\ UNCHANGED <<source, index, drawn, errors, failures>> /\ completions' = completions + 1
          /\ encoder = "draining" /\ audio = <<>>
        BY <1>4 DEF EndDrain, Complete, control, sound
    <2>2. completions = 0 /\ failures = 0
        BY <1>e, <2>1, Alive
    <2>3. Stage' = "complete"
        BY <2>1, <2>2 DEF Stage
    <2>4. Stage = "stopping"
        <3>1. state = "Stoped"
            BY <2>1 DEF OnceInv, StopTold
        <3> QED
            BY <1>e, <2>1, <3>1, StageOf
    <2>5. Len(drawn) = index
        BY <1>f, <1>s, <2>1
    <2>6. AR!Complete
        BY <2>1, <2>3, <2>4, <2>5 DEF AR!Complete
    <2> QED
        BY <2>6 DEF AR!RecNext
<1>5. CASE EncodingFails
    <2>1. /\ UNCHANGED <<source, index, drawn, errors>> /\ failures' = failures + 1 /\ encoder = "open"
        BY <1>5 DEF EncodingFails, control, sound
    <2>2. failures = 0
        BY <1>e, <2>1, Alive
    <2>3. Stage' = "failed"
        BY <2>1, <2>2 DEF Stage
    <2>4. Stage \in {"recording", "stopping"}
        BY <1>e, <2>1, StageOf
    <2>5. AR!Fail
        BY <2>1, <2>3, <2>4 DEF AR!Fail
    <2> QED
        BY <2>5 DEF AR!RecNext
<1> QED
    BY <1>1, <1>2, <1>b, <1>3, <1>4, <1>5 DEF EncoderThread, EncoderWorks

\* A recorder that is started once keeps what AudioRecording promises, whatever
\* the four threads do: packets are drawn for the file in the order of their
\* capture, none is left out, one that is not written was reported, and from a
\* microphone the recording completes only when every packet captured before stop()
\* was drawn (VideoEncoder.hpp:148-175).
THEOREM RecordingImplements == Spec /\ [](starts <= 1) => ImplementsAudioRecording
<1>1. Init => AR!RecInit /\ OnceInv
    BY InitImplements, InitOnce
<1>2. DRInv /\ OnceInv /\ [Next]_vars => OnceInv'
    <2>1. ASSUME DRInv, OnceInv, UNCHANGED vars PROVE OnceInv'
        BY <2>1 DEF OnceInv, StopTold, Starting, vars, control, sound, file, tasking
    <2> QED
        BY <2>1, StillOnce
<1>3. DRInv /\ OnceInv /\ starts <= 1 /\ (starts <= 1)' /\ [Next]_vars => [AR!RecNext]_AR!recVars
    <2>1. ASSUME UNCHANGED vars PROVE UNCHANGED AR!recVars
        <3>1. UNCHANGED <<source, index, drawn, errors, state, is_started, failures, completions>>
            BY <2>1 DEF vars, control, sound, file, tasking
        <3>2. Stage' = Stage
            BY <3>1, SameStage
        <3> QED
            BY <3>1, <3>2 DEF AR!recVars
    <2> QED
        BY <2>1, UIImplements, CaptureImplements, EncoderImplements DEF Next
<1> QED
    BY <1>1, <1>2, <1>3, RecorderInvariant, PTL DEF Spec, ImplementsAudioRecording, AR!RecSpec
-------------------------------------------------------------------------------
(* The watch on the main program, kept in the same class: the UI thread's  *)
(* keepAlive() against the encoder thread's check_idle_count(), for ticks  *)
(* of any width, any limits and any time between two polls.                *)

\* What old_tick_ is compared with, and may still be when it is not torn.
Comparable == old_tick # 0 /\ old_tick <= check.tick
Comparing == (At("compare") /\ Comparable) \/ (At("sum") /\ ~torn)

\* What the check under way is about to add, and how long the main program has
\* been silent: what was counted before a message counts until it is forgotten.
Due == IF Comparing THEN check.tick - old_tick ELSE 0
Silence == IF keeping = "idle" THEN silence ELSE before + silence

KeepTypes ==
    /\ timeout \in Int /\ now \in Tick /\ old_tick \in Tick
    /\ idle_count \in Int /\ RANGE \div 2 - RANGE <= idle_count
    /\ keeping \in {"idle", "store"} /\ gap \in 0 .. PollGap
    /\ check \in [step : {"idle", "compare", "restart", "sum", "judge", "save"},
                  tick : Tick, old : Tick]
    /\ silence \in Nat /\ before \in Nat /\ torn \in BOOLEAN /\ reported \in BOOLEAN

\* Unless the clock wrapped around, no saved tick and no tick taken is further
\* back than the last poll.
Polled ==
    /\ At("idle") /\ old_tick # 0 /\ old_tick <= now => now - old_tick <= gap
    /\ ~At("idle") => timeout > 0 /\ (check.tick <= now => now - check.tick <= gap)

\* What was compared is what is there, and one poll at the most is added.
Compared ==
    /\ At("sum") /\ ~torn => check.old = old_tick /\ Comparable
    /\ Comparing => check.tick - old_tick <= PollGap
    /\ keeping = "store" /\ Comparing => gap <= silence \/ silence > timeout

\* The count never runs ahead of the silence by more than one poll.
Counted == ~torn /\ Silence <= timeout => idle_count + Due + gap <= Silence + PollGap

KeepInv == KeepTypes /\ Polled /\ Compared /\ Counted
-----------------------------------------------------------------------------
LEMMA Wrapped ==
          /\ \A n \in Tick : (n + 1) % RANGE \in {n + 1, 0} /\ (n + 1) % RANGE \in Tick
          /\ RANGE \div 2 \in Nat /\ RANGE \div 2 <= RANGE
  BY KeepAliveAssumption DEF Tick

LEMMA Adds == \A a, b, c \in Int : a <= b => a + c <= b + c /\ c + a <= c + b
  OBVIOUS

\* The cast to int yields an int, and never a larger one than a sum that is not
\* below all ints.
LEMMA Cast ==
    ASSUME RANGE \in Nat \ {0}, NEW n \in Int
    PROVE /\ ToInt(n) \in Int /\ RANGE \div 2 - RANGE <= ToInt(n)
          /\ RANGE \div 2 - RANGE <= n => ToInt(n) <= n
  <1> DEFINE m == n % RANGE
  <1>1. m \in 0 .. RANGE - 1 /\ RANGE \div 2 \in Nat /\ RANGE \div 2 <= RANGE
    OBVIOUS
  <1>2. ToInt(n) = IF m < RANGE \div 2 THEN m ELSE m - RANGE
    BY DEF ToInt
  <1>3. ToInt(n) \in Int /\ RANGE \div 2 - RANGE <= ToInt(n) /\ ToInt(n) <= m
    <2> HIDE DEF m
    <2> QED BY <1>1, <1>2
  <1>4. n >= 0 => m <= n
    OBVIOUS
  <1>5. n < 0 /\ RANGE \div 2 - RANGE <= n => m = n + RANGE
    <2>1. SUFFICES ASSUME n < 0, RANGE \div 2 - RANGE <= n PROVE m = n + RANGE
      OBVIOUS
    <2>2. n + RANGE \in 0 .. RANGE - 1
      BY <1>1, <2>1
    <2>3. \A k \in 0 .. RANGE - 1 : (k - RANGE) % RANGE = k
      OBVIOUS
    <2>4. (n + RANGE) - RANGE = n
      OBVIOUS
    <2> QED BY <2>2, <2>3, <2>4
  <1>6. n < 0 /\ RANGE \div 2 - RANGE <= n => ToInt(n) <= n
    <2> HIDE DEF m
    <2>1. SUFFICES ASSUME n < 0, RANGE \div 2 - RANGE <= n PROVE ToInt(n) <= n
      OBVIOUS
    <2>2. m >= RANGE \div 2
      BY <1>1, <1>5, <2>1
    <2> QED BY <1>1, <1>2, <1>5, <2>1, <2>2
  <1> HIDE DEF m
  <1> QED BY <1>1, <1>3, <1>4, <1>6
-----------------------------------------------------------------------------
LEMMA KeepInitially == ASSUME KeepInit PROVE KeepInv
  <1>1. /\ timeout \in Int /\ now \in Tick /\ old_tick = 0 /\ idle_count = 0 /\ keeping = "idle"
        /\ check = NoCheck /\ gap = 0 /\ reported = FALSE /\ silence = 0 /\ before = 0 /\ torn = FALSE
    BY KeepAliveAssumption DEF KeepInit
  <1>2. KeepTypes
    <2>1. 0 \in Tick /\ RANGE \div 2 - RANGE <= 0 /\ 0 \in 0 .. PollGap
      BY Wrapped, KeepAliveAssumption DEF Tick
    <2>2. check \in [step : {"idle", "compare", "restart", "sum", "judge", "save"},
                     tick : Tick, old : Tick]
      BY <1>1, <2>1 DEF NoCheck
    <2>3. gap \in 0 .. PollGap /\ keeping \in {"idle", "store"} /\ silence \in Nat /\ before \in Nat
      BY <1>1, <2>1
    <2>4. torn \in BOOLEAN /\ reported \in BOOLEAN
      BY <1>1
    <2> QED BY <1>1, <2>1, <2>2, <2>3, <2>4 DEF KeepTypes
  <1>3. At("idle") /\ ~At("sum") /\ ~At("compare")
    BY <1>1 DEF At, NoCheck
  <1>4. ~Comparing /\ Due = 0
    BY <1>3 DEF Comparing, Due
  <1>5. Polled /\ Compared
    BY <1>1, <1>3, <1>4 DEF Polled, Compared
  <1>6. Counted
    BY <1>1, <1>4, KeepAliveAssumption DEF Counted, Silence
  <1> QED BY <1>2, <1>5, <1>6 DEF KeepInv

LEMMA KeepTimePasses == ASSUME KeepInv, TimePasses PROVE KeepInv'
  <1>0. /\ gap < PollGap /\ gap' = gap + 1 /\ now' = (now + 1) % RANGE
        /\ silence' = (IF silence > timeout THEN silence ELSE silence + 1)
        /\ UNCHANGED <<timeout, old_tick, idle_count, keeping, check, reported, before, torn>>
    BY DEF TimePasses
  <1>1. KeepTypes /\ Polled /\ Compared /\ Counted
    BY DEF KeepInv
  <1>2. now' \in {now + 1, 0} /\ now' \in Tick
    BY <1>0, <1>1, Wrapped, KeepAliveAssumption DEF KeepTypes
  <1>3. KeepTypes'
    BY <1>0, <1>1, <1>2, KeepAliveAssumption DEF KeepTypes, Tick
  <1>4. Polled'
    <2>1. now \in Nat /\ old_tick \in Nat /\ check.tick \in Nat /\ gap \in Nat
      BY <1>1, KeepAliveAssumption DEF KeepTypes, Tick
    <2>2. At("idle") /\ old_tick # 0 /\ old_tick <= now' => now' - old_tick <= gap'
      BY <1>0, <1>1, <1>2, <2>1 DEF Polled
    <2>3. check.tick <= now' /\ ~At("idle") => now' - check.tick <= gap'
      BY <1>0, <1>1, <1>2, <2>1 DEF Polled
    <2> QED BY <1>0, <1>1, <2>2, <2>3 DEF Polled, At
  <1>5. (Comparing' <=> Comparing) /\ (Comparable' <=> Comparable) /\ Due' = Due
    BY <1>0 DEF Comparing, Comparable, Due, At
  <1>6. Compared'
    <2>1. silence \in Nat /\ gap \in Nat /\ timeout \in Int
      BY <1>1 DEF KeepTypes
    <2>2. gap <= silence \/ silence > timeout => gap' <= silence' \/ silence' > timeout
      BY <1>0, <2>1
    <2> QED BY <1>0, <1>1, <1>5, <2>2 DEF Compared, At
  <1>7. Counted'
    <2>1. SUFFICES ASSUME ~torn, Silence' <= timeout
                   PROVE idle_count + Due + gap' <= Silence' + PollGap
      BY <1>0, <1>5 DEF Counted
    <2>2. /\ silence \in Nat /\ before \in Nat /\ gap \in Nat /\ timeout \in Int
          /\ idle_count \in Int /\ Due \in Int /\ PollGap \in Nat
      BY <1>1, KeepAliveAssumption DEF KeepTypes, Due, Tick
    <2>3. Silence' = (IF keeping = "idle" THEN silence' ELSE before + silence')
      BY <1>0 DEF Silence
    <2>4. ~(silence > timeout)
      BY <1>0, <2>1, <2>2, <2>3
    <2>5. silence' = silence + 1 /\ Silence' = Silence + 1 /\ Silence \in Nat
      BY <1>0, <2>2, <2>3, <2>4 DEF Silence
    <2>6. idle_count + Due + gap <= Silence + PollGap
      BY <1>1, <2>1, <2>2, <2>5 DEF Counted
    <2> QED BY <1>0, <2>2, <2>5, <2>6
  <1> QED BY <1>3, <1>4, <1>6, <1>7 DEF KeepInv

LEMMA KeepForgetTick == ASSUME KeepInv, ForgetTick PROVE KeepInv'
  <1>0. /\ keeping = "idle" /\ keeping' = "store" /\ old_tick' = 0 /\ reported' = FALSE
        /\ silence' = 0 /\ before' = silence /\ torn' = (torn \/ At("sum"))
        /\ UNCHANGED <<timeout, now, idle_count, check, gap>>
    BY DEF ForgetTick
  <1>1. KeepTypes /\ Polled /\ Compared /\ Counted
    BY DEF KeepInv
  <1>3. KeepTypes'
    <2>1. torn' \in BOOLEAN
      BY <1>0
    <2>2. 0 \in Tick
      BY <1>1, KeepAliveAssumption DEF Tick
    <2>3. reported' \in BOOLEAN /\ keeping' \in {"idle", "store"} /\ silence' \in Nat /\ old_tick' \in Tick
      BY <1>0, <2>2
    <2> QED BY <1>0, <1>1, <2>1, <2>3 DEF KeepTypes, Tick
  <1>4. Polled'
    BY <1>0, <1>1 DEF Polled, At
  <1>5. ~Comparing' /\ Due' = 0
    BY <1>0 DEF Comparing, Comparable, Due, At
  <1>6. Compared'
    BY <1>0, <1>1, <1>5 DEF Compared, At
  <1>7. Counted'
    <2>1. Silence' = Silence /\ Silence \in Nat
      BY <1>0, <1>1 DEF Silence, KeepTypes
    <2>2. Due >= 0 /\ Due \in Int
      BY <1>1, KeepAliveAssumption DEF Due, Comparing, Comparable, Compared, KeepTypes, Tick
    <2>3. /\ gap \in Nat /\ timeout \in Int /\ idle_count \in Int /\ PollGap \in Nat
      BY <1>1, KeepAliveAssumption DEF KeepTypes
    <2>4. ~torn /\ Silence <= timeout => idle_count + gap <= Silence + PollGap
      BY <1>1, <2>1, <2>2, <2>3 DEF Counted
    <2>5. idle_count' + Due' + gap' = idle_count + gap
      BY <1>0, <1>5, <2>3
    <2>6. ~torn' => ~torn
      BY <1>0
    <2> QED BY <1>0, <2>1, <2>4, <2>5, <2>6 DEF Counted
  <1> QED BY <1>3, <1>4, <1>6, <1>7 DEF KeepInv

LEMMA KeepForgetCount == ASSUME KeepInv, ForgetCount PROVE KeepInv'
  <1>0. /\ keeping = "store" /\ keeping' = "idle" /\ idle_count' = 0 /\ torn' = (torn /\ At("sum"))
        /\ UNCHANGED <<timeout, now, old_tick, check, gap, reported, silence, before>>
    BY DEF ForgetCount
  <1>1. KeepTypes /\ Polled /\ Compared /\ Counted
    BY DEF KeepInv
  <1>3. KeepTypes'
    BY <1>0, <1>1, Wrapped, KeepAliveAssumption DEF KeepTypes, Tick
  <1>4. Polled'
    BY <1>0, <1>1 DEF Polled, At
  <1>5. (Comparing' <=> Comparing) /\ (Comparable' <=> Comparable) /\ Due' = Due
        /\ (At("sum") /\ ~torn' => ~torn) /\ (At("sum"))' = At("sum")
    BY <1>0 DEF Comparing, Comparable, Due, At
  <1>6. Compared'
    BY <1>0, <1>1, <1>5 DEF Compared
  <1>7. Counted'
    <2>1. Silence' = silence
      BY <1>0 DEF Silence
    <2>2. /\ gap \in 0 .. PollGap /\ timeout \in Int /\ PollGap \in Nat /\ silence \in Nat
      BY <1>1, KeepAliveAssumption DEF KeepTypes
    <2>3. silence <= timeout => Due + gap <= silence + PollGap
      <3>1. CASE Comparing
        <4>1. Due \in Int /\ Due <= PollGap
          BY <1>1, <3>1, KeepAliveAssumption DEF Due, Compared, KeepTypes, Tick
        <4>2. silence <= timeout => gap <= silence
          BY <1>0, <1>1, <2>2, <3>1 DEF Compared
        <4> QED BY <2>2, <4>1, <4>2
      <3>2. CASE ~Comparing
        <4>1. Due = 0
          BY <3>2 DEF Due
        <4> QED BY <2>2, <4>1
      <3> QED BY <3>1, <3>2
    <2>4. Due \in Int
      BY <1>1, KeepAliveAssumption DEF Due, KeepTypes, Tick
    <2>5. 0 + Due + gap = Due + gap
      BY <2>2, <2>4
    <2> QED BY <1>0, <1>5, <2>1, <2>3, <2>5 DEF Counted
  <1> QED BY <1>3, <1>4, <1>6, <1>7 DEF KeepInv

LEMMA KeepCheckDisabled == ASSUME KeepInv, CheckDisabled PROVE KeepInv'
  <1>0. /\ timeout <= 0 /\ At("idle") /\ old_tick' = 0 /\ idle_count' = 0 /\ gap' = 0
        /\ UNCHANGED <<timeout, now, keeping, check, reported, silence, before, torn>>
    BY DEF CheckDisabled, history
  <1>1. KeepTypes /\ Polled /\ Compared /\ Counted
    BY DEF KeepInv
  <1>3. KeepTypes'
    BY <1>0, <1>1, Wrapped, KeepAliveAssumption DEF KeepTypes, Tick
  <1>4. Polled'
    BY <1>0, <1>1 DEF Polled, At
  <1>5. ~Comparing' /\ Due' = 0 /\ ~(At("sum"))'
    BY <1>0 DEF Comparing, Comparable, Due, At
  <1>6. Compared'
    BY <1>0, <1>1, <1>5 DEF Compared
  <1>7. Counted'
    BY <1>0, <1>1, <1>5, KeepAliveAssumption DEF Counted, Silence, KeepTypes
  <1> QED BY <1>3, <1>4, <1>6, <1>7 DEF KeepInv

LEMMA KeepTakeTick == ASSUME KeepInv, TakeTick PROVE KeepInv'
  <1>0. /\ timeout > 0 /\ At("idle") /\ gap' = 0
        /\ check' = [step |-> "compare", tick |-> now, old |-> 0]
        /\ UNCHANGED <<timeout, now, old_tick, idle_count, keeping, reported, silence, before, torn>>
    BY DEF TakeTick, history
  <1>1. KeepTypes /\ Polled /\ Compared /\ Counted
    BY DEF KeepInv
  <1>3. KeepTypes'
    BY <1>0, <1>1, KeepAliveAssumption DEF KeepTypes, Tick
  <1>4. Polled'
    BY <1>0, <1>1, KeepAliveAssumption DEF Polled, At, KeepTypes, Tick
  <1>5. /\ ~Comparing /\ Due = 0 /\ ~(At("sum"))'
        /\ Comparing' => old_tick # 0 /\ old_tick <= now
        /\ Due' = (IF Comparing' THEN now - old_tick ELSE 0)
    BY <1>0 DEF Comparing, Comparable, Due, At
  <1>2. Comparing' => now - old_tick <= gap
    BY <1>0, <1>1, <1>5 DEF Polled
  <1>8. /\ gap \in 0 .. PollGap /\ timeout \in Int /\ PollGap \in Nat /\ silence \in Nat
        /\ idle_count \in Int /\ now \in Nat /\ old_tick \in Nat /\ before \in Nat
    BY <1>1, KeepAliveAssumption DEF KeepTypes, Tick
  <1>6. Compared'
    <2>1. Comparing' => (check.tick)' - old_tick' <= PollGap
      BY <1>0, <1>2, <1>5, <1>8
    <2>2. gap' <= silence'
      BY <1>0, <1>8
    <2> QED BY <1>5, <2>1, <2>2 DEF Compared
  <1>7. Counted'
    <2>1. Silence' = Silence /\ Silence \in Nat
      BY <1>0, <1>8 DEF Silence
    <2>2. Due' \in Int /\ Due' <= gap
      BY <1>2, <1>5, <1>8
    <2>3. ~torn /\ Silence <= timeout => idle_count + gap <= Silence + PollGap
      BY <1>1, <1>5, <1>8 DEF Counted
    <2>4. idle_count + Due' <= idle_count + gap
      <3>1. idle_count \in Int /\ Due' \in Int /\ gap \in Int /\ Due' <= gap
        BY <1>8, <2>2
      <3> QED BY <3>1, Adds
    <2>5. idle_count + Due' + gap' = idle_count + Due'
      BY <1>0, <1>8, <2>2
    <2>6. idle_count + Due' \in Int /\ idle_count + gap \in Int /\ Silence + PollGap \in Int
      BY <1>8, <2>1, <2>2
    <2>7. ~torn /\ Silence <= timeout => idle_count + Due' <= Silence + PollGap
      BY <2>3, <2>4, <2>6
    <2>8. idle_count' + Due' + gap' = idle_count + Due'
      BY <1>0, <2>5
    <2> QED BY <1>0, <2>1, <2>7, <2>8 DEF Counted
  <1> QED BY <1>3, <1>4, <1>6, <1>7 DEF KeepInv

LEMMA KeepCompareOld == ASSUME KeepInv, CompareOld PROVE KeepInv'
  <1>0. /\ At("compare")
        /\ UNCHANGED <<timeout, now, old_tick, idle_count, keeping, gap, reported, silence, before, torn>>
    BY DEF CompareOld, history
  <1>1. KeepTypes /\ Polled /\ Compared /\ Counted
    BY DEF KeepInv
  <1>2. /\ check.tick \in Nat /\ old_tick \in Nat /\ old_tick \in Tick /\ check.tick \in Tick
        /\ check.old \in Tick
    BY <1>1, KeepAliveAssumption DEF KeepTypes, Tick
  <1>3. /\ check.step = "compare" /\ (check.tick)' = check.tick /\ (check.step)' # "idle"
        /\ (check.step)' # "compare"
        /\ IF Comparable THEN (check.step)' = "sum" /\ (check.old)' = old_tick
           ELSE (check.step)' = "restart" /\ (check.old)' = check.old
    BY <1>0, <1>1, <1>2 DEF CompareOld, Comparable, At, KeepTypes
  <1>4. KeepTypes'
    <2>1. check' \in [step : {"idle", "compare", "restart", "sum", "judge", "save"},
                      tick : Tick, old : Tick]
      BY <1>0, <1>1, <1>2 DEF CompareOld, KeepTypes
    <2> QED BY <1>0, <1>1, <2>1 DEF KeepTypes, Tick
  <1>5. Polled'
    BY <1>0, <1>1, <1>3 DEF Polled, At
  <1>6. (Comparable' <=> Comparable) /\ (Comparing' => Comparing)
    BY <1>0, <1>3 DEF Comparing, Comparable, At
  <1>7. Compared'
    <2>1. (At("sum"))' => (check.old)' = old_tick' /\ Comparable'
      BY <1>0, <1>3, <1>6 DEF At
    <2>2. Comparing' => (check.tick)' - old_tick' <= PollGap
      BY <1>0, <1>1, <1>3, <1>6 DEF Compared
    <2>3. keeping' = "store" /\ Comparing' => gap' <= silence' \/ silence' > timeout'
      BY <1>0, <1>1, <1>6 DEF Compared
    <2> QED BY <2>1, <2>2, <2>3 DEF Compared
  <1>8. Counted'
    <2>1. Silence' = Silence
      BY <1>0 DEF Silence
    <2>2. ~torn => Due' = Due
      BY <1>0, <1>3, <1>6 DEF Due, Comparing, At
    <2> QED BY <1>0, <1>1, <2>1, <2>2 DEF Counted
  <1> QED BY <1>4, <1>5, <1>7, <1>8 DEF KeepInv

LEMMA KeepSumIdle == ASSUME KeepInv, SumIdle PROVE KeepInv'
  <1>0. /\ At("sum") /\ check' = [check EXCEPT !.step = "judge"]
        /\ UNCHANGED <<timeout, now, old_tick, keeping, gap, reported, silence, before, torn>>
    BY DEF SumIdle, history, Go
  <1>00. PICK old \in {check.old, old_tick} : idle_count' = ToInt(idle_count + check.tick - old)
    BY DEF SumIdle
  <1>1. KeepTypes /\ Polled /\ Compared /\ Counted
    BY DEF KeepInv
  <1>2. /\ check.tick \in Nat /\ old_tick \in Nat /\ old \in Nat /\ idle_count \in Int
        /\ RANGE \in Nat \ {0} /\ RANGE \div 2 - RANGE <= idle_count
    BY <1>1, <1>00, KeepAliveAssumption DEF KeepTypes, Tick
  <1>3. (check.tick)' = check.tick /\ (check.step)' = "judge" /\ check.step = "sum"
    BY <1>0, <1>1 DEF KeepTypes, At
  <1> DEFINE sum == idle_count + check.tick - old
  <1>4. /\ sum \in Int /\ idle_count' \in Int /\ RANGE \div 2 - RANGE <= idle_count'
        /\ RANGE \div 2 - RANGE <= sum => idle_count' <= sum
    <2>1. sum \in Int
      BY <1>2
    <2>2. idle_count' = ToInt(sum)
      BY <1>00
    <2> HIDE DEF sum
    <2> QED BY <1>2, <2>1, <2>2, Cast
  <1>5. KeepTypes'
    <2>1. check' \in [step : {"idle", "compare", "restart", "sum", "judge", "save"},
                      tick : Tick, old : Tick]
      BY <1>0, <1>1 DEF KeepTypes
    <2> QED BY <1>0, <1>1, <1>4, <2>1 DEF KeepTypes, Tick
  <1>6. Polled'
    BY <1>0, <1>1, <1>3 DEF Polled, At
  <1>7. ~Comparing' /\ Due' = 0 /\ ~(At("sum"))'
    BY <1>3 DEF Comparing, Due, At
  <1>8. Compared'
    BY <1>7 DEF Compared
  <1>9. Counted'
    <2>1. SUFFICES ASSUME ~torn, Silence <= timeout
                   PROVE idle_count' + gap <= Silence + PollGap
      <3>1. Silence' = Silence /\ (~torn' => ~torn) /\ gap' = gap /\ timeout' = timeout
        BY <1>0 DEF Silence
      <3>2. gap \in Nat
        BY <1>1, KeepAliveAssumption DEF KeepTypes
      <3>3. idle_count' + Due' + gap' = idle_count' + gap
        BY <1>4, <1>7, <3>1, <3>2
      <3> QED BY <3>1, <3>3 DEF Counted
    <2>2. old = old_tick /\ old_tick <= check.tick /\ Due = check.tick - old_tick
      BY <1>0, <1>00, <1>1, <2>1 DEF Compared, Comparing, Comparable, Due
    <2>3. sum = idle_count + Due /\ idle_count <= sum /\ Due \in Int
      BY <1>2, <2>2
    <2>4. idle_count + Due + gap <= Silence + PollGap
      BY <1>1, <2>1 DEF Counted
    <2>5. gap \in Nat /\ Silence \in Nat /\ PollGap \in Nat /\ RANGE \div 2 \in Nat
      BY <1>1, Wrapped, KeepAliveAssumption DEF KeepTypes, Silence
    <2> HIDE DEF sum
    <2>6. idle_count' <= sum
      BY <1>2, <1>4, <2>3, <2>5
    <2>7. idle_count' + gap <= sum + gap
      <3>1. sum \in Int /\ idle_count' \in Int /\ gap \in Int /\ idle_count' <= sum
        BY <1>4, <2>5, <2>6
      <3> QED BY <3>1, Adds
    <2>8. sum + gap <= Silence + PollGap
      BY <2>3, <2>4
    <2>9. sum + gap \in Int /\ idle_count' + gap \in Int /\ Silence + PollGap \in Int
      BY <1>4, <2>5
    <2> QED BY <2>7, <2>8, <2>9
  <1> QED BY <1>5, <1>6, <1>8, <1>9 DEF KeepInv

LEMMA KeepJudge == ASSUME KeepInv, Judge PROVE KeepInv'
  <1>0. /\ At("judge") /\ check' = [check EXCEPT !.step = "save"]
        /\ reported' = (reported \/ idle_count > timeout)
        /\ UNCHANGED <<timeout, now, old_tick, idle_count, keeping, gap, silence, before, torn>>
    BY DEF Judge, history, Go
  <1>1. KeepTypes /\ Polled /\ Compared /\ Counted
    BY DEF KeepInv
  <1>3. (check.tick)' = check.tick /\ (check.step)' = "save" /\ check.step = "judge"
    BY <1>0, <1>1 DEF KeepTypes, At
  <1>5. KeepTypes'
    <2>1. check' \in [step : {"idle", "compare", "restart", "sum", "judge", "save"},
                      tick : Tick, old : Tick]
      BY <1>0, <1>1 DEF KeepTypes
    <2> QED BY <1>0, <1>1, <2>1 DEF KeepTypes, Tick
  <1>6. Polled'
    BY <1>0, <1>1, <1>3 DEF Polled, At
  <1>7. ~Comparing' /\ Due' = 0 /\ ~(At("sum"))' /\ Due = 0
    BY <1>3 DEF Comparing, Due, At
  <1>8. Compared'
    BY <1>7 DEF Compared
  <1>9. Counted'
    BY <1>0, <1>1, <1>7 DEF Counted, Silence
  <1> QED BY <1>5, <1>6, <1>8, <1>9 DEF KeepInv

LEMMA KeepSaveTick == ASSUME KeepInv, SaveTick PROVE KeepInv'
  <1>0. /\ At("save") \/ At("restart")
        /\ check' = NoCheck /\ old_tick' = check.tick
        /\ UNCHANGED <<timeout, now, idle_count, keeping, gap, reported, silence, before, torn>>
    BY DEF SaveTick, history
  <1>1. KeepTypes /\ Polled /\ Compared /\ Counted
    BY DEF KeepInv
  <1>3. (check.step)' = "idle" /\ check.step # "idle" /\ check.step # "sum" /\ check.step # "compare"
    BY <1>0 DEF NoCheck, At
  <1>5. KeepTypes'
    BY <1>0, <1>1, KeepAliveAssumption DEF KeepTypes, NoCheck, Tick
  <1>6. Polled'
    BY <1>0, <1>1, <1>3 DEF Polled, At
  <1>7. ~Comparing' /\ Due' = 0 /\ ~(At("sum"))' /\ Due = 0
    BY <1>3 DEF Comparing, Due, At
  <1>8. Compared'
    BY <1>7 DEF Compared
  <1>9. Counted'
    BY <1>0, <1>1, <1>7 DEF Counted, Silence
  <1> QED BY <1>5, <1>6, <1>8, <1>9 DEF KeepInv

LEMMA KeepSteps == KeepInv /\ [KeepNext]_keepVars => KeepInv'
  <1>1. KeepInv /\ UNCHANGED keepVars => KeepInv'
    <2> SUFFICES ASSUME KeepInv, UNCHANGED keepVars PROVE KeepInv'
      OBVIOUS
    <2>1. /\ UNCHANGED <<timeout, now, old_tick, idle_count, keeping, check, gap, reported>>
          /\ UNCHANGED <<silence, before, torn>>
      BY DEF keepVars, history
    <2> QED BY <2>1 DEF KeepInv, KeepTypes, Polled, Compared, Counted, Comparing, Comparable,
                        Due, Silence, At, Tick
  <1> QED BY <1>1, KeepTimePasses, KeepForgetTick, KeepForgetCount, KeepCheckDisabled, KeepTakeTick,
             KeepCompareOld, KeepSumIdle, KeepJudge, KeepSaveTick
          DEF KeepNext, CallKeepAlive, CheckIdleCount

\* Whatever keepAlive() and check_idle_count() do between each other's loads and
\* stores of old_tick_ and idle_count_ms_, the count stays within one poll of the
\* silence, unless it was torn (DesktopRecorder.hpp, keepAlive and check_idle_count).
THEOREM KeepInvariant == KeepSpec => []KeepInv
  <1>1. KeepInit => KeepInv
    BY KeepInitially
  <1>2. KeepInv /\ [KeepNext]_keepVars => KeepInv'
    BY KeepSteps
  <1> QED BY <1>1, <1>2, PTL DEF KeepSpec

\* ERROR_PING_TIMEOUT is reported only after a silence longer than the limit, give
\* or take one poll, or when a message came between the comparison and the sum.
THEOREM AlarmsAreDue == KeepSpec => FalseAlarmOnlyTorn
  <1>1. KeepSpec => []KeepInv
    BY KeepInvariant
  <1>2. KeepInv /\ [KeepNext]_keepVars => [Alarm => torn \/ LongSilence]_keepVars
    <2> SUFFICES ASSUME KeepInv, [KeepNext]_keepVars, Alarm, ~torn PROVE LongSilence
      OBVIOUS
    <2>1. Judge /\ idle_count > timeout
      <3>1. reported # reported' /\ reported \in BOOLEAN /\ reported' = TRUE
        BY KeepSteps DEF Alarm, KeepInv, KeepTypes
      <3> QED BY <3>1 DEF KeepNext, CallKeepAlive, CheckIdleCount, TimePasses, ForgetTick, ForgetCount,
                 CheckDisabled, TakeTick, CompareOld, SumIdle, Judge, SaveTick, keepVars
    <2>2. /\ timeout \in Int /\ idle_count \in Int /\ silence \in Nat /\ before \in Nat
          /\ gap \in Nat /\ PollGap \in Nat /\ keeping \in {"idle", "store"}
      BY KeepAliveAssumption DEF KeepInv, KeepTypes
    <2>3. Due = 0
      BY <2>1 DEF Judge, Due, Comparing, At
    <2>4. Silence <= timeout => idle_count + gap <= Silence + PollGap
      BY <2>2, <2>3 DEF KeepInv, Counted
    <2>5. Silence + PollGap > timeout
      BY <2>1, <2>2, <2>4, KeepAliveAssumption DEF Silence
    <2>6. CASE keeping = "idle"
      BY <2>5, <2>6 DEF LongSilence, Silence
    <2>7. CASE keeping = "store"
      BY <2>5, <2>7 DEF LongSilence, Silence
    <2> QED BY <2>2, <2>6, <2>7
  <1> QED BY <1>1, <1>2, PTL DEF KeepSpec, FalseAlarmOnlyTorn

===============================================================================
