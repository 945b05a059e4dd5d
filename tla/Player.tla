--------------------------------- MODULE Player ---------------------------------
(***************************************************************************)
(* FFPlayer with FFStream, FFAudio, FFVideo, AudioSDL and WindowSDL: the   *)
(* player of the shared library.  The scheduler's thread takes the tasks   *)
(* of the caller and reads the file while it plays; a worker decodes the   *)
(* sound, SDL's callback draws it, and a thread of its own shows the       *)
(* pictures the sound has reached.                                         *)
(*                                                                         *)
(* The file and the codecs are external: a packet has a position in the    *)
(* file, by which each stream counts its pts in a unit of its own, and     *)
(* yields up to two buffers of sound or a picture, or nothing, or an       *)
(* error; avformat_find_stream_info() succeeds on a file that was opened.  *)
(* Using a codec's context that close() has just cleared may end the       *)
(* process or be an error of the codec.                                    *)
(***************************************************************************)
EXTENDS Integers, Sequences

CONSTANTS
    MaxAsked,    \* bound on the caller's tasks
    Length,      \* packets of a file
    SoundTick,   \* what the pts of the sound grows by from packet to packet
    PictureTick  \* what the pts of the pictures does

ASSUME PlayerAssumption ==
    /\ {MaxAsked, Length} \subseteq Nat
    /\ {SoundTick, PictureTick} \subseteq Nat \ {0}

VARIABLES
    asked,       \* tasks of the caller
    scheduler,   \* where the scheduler's thread is
    playing,     \* started_ of the scheduler
    stream,      \* is FFStream's context_ open?
    position,    \* packets read since the open, or where move() went
    sound,       \* [context, pts, queue]: FFAudio's, and worker_'s queue
    worker,      \* the packet the worker decodes
    device,      \* SDL's audio device
    buffers,     \* buffers in AudioSDL's queue
    stray,       \* history: sound is queued that no device was open to draw
    window,      \* is_opened_ of WindowSDL
    picture,     \* [context, pts, queue]: FFVideo's
    target,      \* target_pts_
    viewer,      \* where FFVideo's thread is
    popped,      \* the packet it has popped
    crashed,     \* the process has ended
    out,         \* history: packets given to the decoders and not freed
    leaked,      \* history: those that nobody can free any more
    reached,     \* history: the highest target
    shown        \* history: pts of the pictures shown since the open

control == <<asked, scheduler, playing>>
output == <<device, buffers, stray>>
video == <<picture, viewer, popped, window>>
memory == <<out, leaked>>
history == <<reached, shown>>
playerVars == <<control, stream, position, sound, worker, output, video, target, crashed,
               memory, history>>

NoPacket == 0

\* The pts of a packet, in a file that starts one tick late, and INT64_MIN before
\* the first.
SoundTime(p) == p * SoundTick
PictureTime(p) == p * PictureTick
Unset == -1

\* A context_ is a null pointer, allocated, or open.
NoCodec == [context |-> "none", pts |-> 0, queue |-> <<>>]
Made(codec) == [codec EXCEPT !.context = "made", !.pts = 0]
Opened(codec) == [codec EXCEPT !.context = "open", !.pts = Unset]
Gone(codec) == [codec EXCEPT !.context = "none"]

PlayerInit ==
    /\ asked = 0 /\ scheduler = "loop" /\ playing = FALSE
    /\ stream = FALSE /\ position = 0
    /\ sound = NoCodec /\ worker = NoPacket
    /\ device = "closed" /\ buffers = 0 /\ stray = FALSE
    /\ picture = NoCodec /\ target = 0 /\ viewer = "look" /\ popped = NoPacket
    /\ window = FALSE
    /\ crashed = FALSE /\ out = 0 /\ leaked = 0
    /\ reached = 0 /\ shown = {}

-----------------------------------------------------------------------------
(* The caller and the scheduler's tasks                                    *)

\* A task that waits keeps the repeat from running, so it may as well come when
\* it is taken.
Take ==
    /\ scheduler = "loop" /\ asked < MaxAsked
    /\ asked' = asked + 1

\* What an open() that fails leaves: the context is made before what may fail.
LeftBy(codec) == {codec, Made(codec)}

\* stream_.open() and audio_.open() to where it has emptied the device's queue:
\* worker_ may decode what the file before left as soon as there is a context.
OpenSound ==
    /\ Take
    /\ stream' = TRUE /\ position' = 0
    /\ sound' = Opened(sound)
    /\ buffers' = 0 /\ stray' = FALSE
    /\ scheduler' = "open device"
    /\ UNCHANGED <<playing, worker, device, video, target, crashed, memory, history>>

OpenSoundFails ==
    /\ Take
    /\ stream' = FALSE
    /\ sound' \in LeftBy(sound)
    /\ UNCHANGED <<scheduler, playing, position, worker, output, video, target, crashed, memory,
                   history>>

\* SDL opens one device at a time.
OpenDevice ==
    /\ scheduler = "open device" /\ device = "closed"
    /\ device' = "paused"
    /\ scheduler' = "open picture"
    /\ UNCHANGED <<asked, playing, stream, position, sound, worker, buffers, stray, video,
                   target, crashed, memory, history>>

OpenDeviceFails ==
    /\ scheduler = "open device"
    /\ stream' = FALSE
    /\ scheduler' = "loop"
    /\ UNCHANGED <<asked, playing, position, sound, worker, output, video, target, crashed,
                   memory, history>>

\* WindowSDL::open(): SDL_Quit(), for the window of an earlier open(), closes the
\* device that audio_ has just opened; nothing else closes that window.
OpenWindow ==
    /\ window' = TRUE
    /\ device' = IF window THEN "closed" ELSE device
    /\ stray' = (stray \/ (window /\ buffers > 0))
    /\ UNCHANGED buffers

OpenPicture ==
    /\ scheduler = "open picture"
    /\ picture' = Opened(picture)
    /\ OpenWindow
    /\ shown' = {}
    /\ scheduler' = "loop"
    /\ UNCHANGED <<asked, playing, stream, position, sound, worker, target, viewer,
                   popped, crashed, memory, reached>>

OpenPictureFails ==
    /\ scheduler = "open picture"
    /\ picture' \in LeftBy(picture)
    /\ stream' = FALSE
    /\ sound' = Gone(sound)
    /\ device' = "closed" /\ buffers' = 0 /\ stray' = FALSE
    /\ scheduler' = "loop"
    /\ UNCHANGED <<asked, playing, position, worker, target, viewer, popped, window,
                   crashed, memory, history>>

Play ==
    /\ Take
    /\ playing' = TRUE
    /\ UNCHANGED <<scheduler, stream, position, sound, worker, output, video, target,
                   crashed, memory, history>>

Pause ==
    /\ Take
    /\ playing' = FALSE
    /\ UNCHANGED <<scheduler, stream, position, sound, worker, output, video, target,
                   crashed, memory, history>>

\* Without a file there is no context to move in.
Move ==
    /\ Take
    /\ IF stream THEN position' \in 0 .. Length /\ UNCHANGED crashed
                 ELSE crashed' = TRUE /\ UNCHANGED position
    /\ UNCHANGED <<scheduler, playing, stream, sound, worker, output, video, target, memory,
                   history>>

Close ==
    /\ Take
    /\ scheduler' = "close"
    /\ UNCHANGED <<playing, stream, position, sound, worker, output, video, target,
                   crashed, memory, history>>

-----------------------------------------------------------------------------
(* The scheduler's repeat, and do_close()                                  *)

Written(codec, p) ==
    IF codec.context # "none" THEN [codec EXCEPT !.queue = Append(@, p)] ELSE codec

Packet == position + 1

Reading == scheduler = "loop" /\ playing /\ buffers < 2

ReadSound ==
    /\ Reading /\ stream /\ position < Length
    /\ position' = position + 1
    /\ sound' = Written(sound, Packet)
    /\ out' = out + (IF sound.context # "none" THEN 1 ELSE 0)
    /\ scheduler' = "sync"
    /\ UNCHANGED <<asked, playing, stream, worker, output, video, target, crashed,
                   leaked, history>>

\* audioSync(): the pts of the sound as it is, whatever the unit of the pictures.
\* It also wakes the thread of the pictures, which wakes by itself as well.
AudioSync ==
    /\ scheduler = "sync"
    /\ target' = CASE picture.context = "none" -> target
                 [] sound.context = "none" -> 0
                 [] OTHER -> sound.pts
    /\ reached' = IF target' > reached THEN target' ELSE reached
    /\ scheduler' = "loop"
    /\ UNCHANGED <<asked, playing, stream, position, sound, worker, output, video,
                   crashed, memory, shown>>

ReadPicture ==
    /\ Reading /\ stream /\ position < Length
    /\ position' = position + 1
    /\ picture' = Written(picture, Packet)
    /\ out' = out + (IF picture.context # "none" THEN 1 ELSE 0)
    /\ UNCHANGED <<control, stream, sound, worker, output, viewer, popped, window, target, crashed,
                   leaked, history>>

\* A packet of another stream is freed at once.
ReadOther ==
    /\ Reading /\ stream /\ position < Length
    /\ position' = position + 1
    /\ UNCHANGED <<control, stream, sound, worker, output, video, target, crashed, memory, history>>

\* read() has nothing more, or no file.
ReadNothing ==
    /\ Reading /\ (stream => position = Length)
    /\ scheduler' = "close"
    /\ UNCHANGED <<asked, playing, stream, position, sound, worker, output, video,
                   target, crashed, memory, history>>

CloseStream ==
    /\ scheduler = "close"
    /\ playing' = FALSE /\ stream' = FALSE
    /\ scheduler' = "close sound"
    /\ UNCHANGED <<asked, position, sound, worker, output, video, target, crashed,
                   memory, history>>

\* worker_ keeps what it has not decoded.
CloseSound ==
    /\ scheduler = "close sound"
    /\ sound' = Gone(sound)
    /\ device' = "closed" /\ buffers' = 0 /\ stray' = FALSE
    /\ scheduler' = "close picture"
    /\ UNCHANGED <<asked, playing, stream, position, worker, video, target, crashed, memory,
                   history>>

ClosePicture ==
    /\ scheduler = "close picture"
    /\ picture' = Gone(picture)
    /\ scheduler' = "drain"
    /\ UNCHANGED <<asked, playing, stream, position, sound, worker, output, viewer,
                   popped, window, target, crashed, memory, history>>

\* mutant: the packets are popped and not freed
DrainAndLeak ==
    /\ scheduler = "drain"
    /\ IF picture.queue = <<>>
       THEN scheduler' = "loop" /\ UNCHANGED picture
       ELSE picture' = [picture EXCEPT !.queue = Tail(@)] /\ UNCHANGED scheduler
    /\ UNCHANGED <<asked, playing, stream, position, sound, worker, output, viewer,
                   popped, window, target, crashed, memory, history>>

Drain ==
    /\ scheduler = "drain"
    /\ IF picture.queue = <<>>
       THEN scheduler' = "loop" /\ UNCHANGED <<picture, out>>
       ELSE picture' = [picture EXCEPT !.queue = Tail(@)] /\ out' = out - 1 /\ UNCHANGED scheduler
    /\ UNCHANGED <<asked, playing, stream, position, sound, worker, output, viewer,
                   popped, window, target, crashed, leaked, history>>

Scheduler ==
    \/ OpenSound \/ OpenSoundFails \/ OpenDevice \/ OpenDeviceFails
    \/ OpenPicture \/ OpenPictureFails \/ Play \/ Pause \/ Move \/ Close
    \/ ReadSound \/ AudioSync \/ ReadPicture \/ ReadOther \/ ReadNothing
    \/ CloseStream \/ CloseSound \/ ClosePicture \/ Drain

-----------------------------------------------------------------------------
(* The sound                                                               *)

\* decode_and_play() frees the packet, or returns from an error of the decoder
\* without.
Freed == out' = out - 1 /\ UNCHANGED leaked
Forgotten == leaked' = leaked + 1 /\ UNCHANGED out

TakeSound ==
    /\ worker = NoPacket /\ sound.queue # <<>>
    /\ sound' = [sound EXCEPT !.queue = Tail(@)]
    /\ IF sound.context # "none" THEN worker' = Head(sound.queue) /\ UNCHANGED out
                                 ELSE out' = out - 1 /\ UNCHANGED worker
    /\ UNCHANGED <<control, stream, position, output, video, target, crashed, leaked, history>>

\* mutant: play() fills the queue and leaves the device paused
PlayPaused(n) == buffers' = buffers + n /\ UNCHANGED <<device, stray>>

\* AudioSDL::play(); a device that is closed meanwhile is not started.
PlayBuffers(n) ==
    /\ buffers' = buffers + n
    /\ device' = IF n > 0 /\ device = "paused" THEN "playing" ELSE device
    /\ stray' = (stray \/ (n > 0 /\ device = "closed"))

\* The decoder yields something or nothing, and maybe an error after it; a context
\* that is not open is one.
DecodeSound ==
    /\ worker # NoPacket /\ worker' = NoPacket
    /\ \/ /\ sound.context = "open"
          /\ \/ /\ sound' = [sound EXCEPT !.pts = SoundTime(worker)]
                /\ \E n \in 0 .. 2 : PlayBuffers(n)
             \/ UNCHANGED <<sound, output>>
          /\ Freed \/ Forgotten
          /\ UNCHANGED crashed
       \/ /\ sound.context # "open"
          /\ Forgotten
          /\ crashed' \in {FALSE, sound.context = "none"}
          /\ UNCHANGED <<sound, output>>
    /\ UNCHANGED <<control, stream, position, video, target, history>>

AudioCallback ==
    /\ device = "playing" /\ buffers > 0
    /\ buffers' = buffers - 1
    /\ UNCHANGED <<control, stream, position, sound, worker, device, stray, video, target,
                   crashed, memory, history>>

-----------------------------------------------------------------------------
(* FFVideo's thread                                                        *)

others == <<control, stream, position, sound, worker, output, target, window>>

\* mutant: shows what there is
LookOnly ==
    /\ viewer = "look" /\ picture.queue # <<>>
    /\ viewer' = "pop"
    /\ UNCHANGED <<picture, popped, crashed, memory, history, others>>

\* front(), then getPTS() through the context.
Look ==
    /\ viewer = "look" /\ picture.queue # <<>>
    /\ IF picture.context # "none"
       THEN picture.pts <= target /\ viewer' = "pop" /\ UNCHANGED crashed
       ELSE crashed' = TRUE /\ UNCHANGED viewer
    /\ UNCHANGED <<picture, popped, memory, history, others>>

PopPicture ==
    /\ viewer = "pop"
    /\ IF picture.queue = <<>>
       THEN viewer' = "look" /\ UNCHANGED <<picture, popped>>
       ELSE /\ viewer' = "show" /\ popped' = Head(picture.queue)
            /\ picture' = [picture EXCEPT !.queue = Tail(@)]
    /\ UNCHANGED <<crashed, memory, history, others>>

Show ==
    /\ viewer = "show"
    /\ viewer' = "look" /\ popped' = NoPacket
    /\ \/ /\ picture.context = "open"
          /\ \/ /\ picture' = [picture EXCEPT !.pts = PictureTime(popped)]
                /\ shown' = shown \union {PictureTime(popped)}
             \/ UNCHANGED <<picture, shown>>
          /\ Freed \/ Forgotten
          /\ UNCHANGED crashed
       \/ /\ picture.context # "open"
          /\ Forgotten
          /\ crashed' \in {FALSE, picture.context = "none"}
          /\ UNCHANGED <<picture, shown>>
    /\ UNCHANGED <<reached, others>>

Viewer == Look \/ PopPicture \/ Show

PlayerNext == ~crashed /\ (Scheduler \/ TakeSound \/ DecodeSound \/ AudioCallback \/ Viewer)

PlayerSpec == PlayerInit /\ [][PlayerNext]_playerVars

\* The scheduler's thread and SDL's callback run.
PlayerFairSpec ==
    /\ PlayerSpec
    /\ WF_playerVars(~crashed /\ Scheduler)
    /\ WF_playerVars(~crashed /\ AudioCallback)

-----------------------------------------------------------------------------
(* Properties                                                              *)

\* By the numbers that FFVideo compares the picture is ahead of the sound by one
\* at most: of the pictures shown of a file, the pts of one at most is above any
\* pts the sound has reached.  In time it is so only where both streams count in
\* one unit: where the sound's pts grow faster, as in an MP4 file, the pictures
\* run ahead by as much, and where they grow slower they fall behind.
PictureNotAhead == \A p, q \in shown : p > reached /\ q > reached => p = q

\* Every packet given to a decoder is freed, or still in one place, or was lost to
\* an error of the decoder, through the closing of a file that three threads work
\* on.
Holding(p) == IF p = NoPacket THEN 0 ELSE 1
PacketsAccounted ==
    out = Len(sound.queue) + Len(picture.queue) + Holding(worker) + Holding(popped) + leaked

\* A file that plays comes to its end, or is paused or closed, unless sound was
\* queued that no device was open to draw: by worker_, of the file before, or
\* since WindowSDL has closed the device.  Then the repeat waits for ever for it
\* to be played, as it does with every file from the second on.
PlayReachesEnd == playing ~> ~playing \/ crashed \/ stray

\* A file that open() has opened is prepared to be played (FFPlayer.hpp:90): its
\* device is open.  The code does not keep it: see OpenWindow.
PreparedToPlay == stream /\ scheduler \in {"loop", "sync"} => device # "closed"

=============================================================================
