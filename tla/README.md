# The recording agent in TLA+

`sr_agent` is a Windows program that records the screen and the sound for a
main program, which talks to it by window messages. Its own logic is a handful
of header-only classes and the threads they start. These modules describe that
logic, with the sockets and the player of the library it is built on; TLC checks
them on small instances, and TLAPS proves the main safety properties for every
value of the constants.

Paths below are those of the repository (`include/...` is `src/include/...` in
`PROJECT.json`, `MainForm.hpp` is `src/src/sr_agent/sr_agent/MainForm.hpp`).

## The system

| Part | State it keeps | Operations | Threads |
|---|---|---|---|
| `MainForm` | `recorder_`, `is_terminated_`, the window's messages | `wm_start` ... `wm_get_status`, `on_error_`, `on_completed_` | UI; `on_completed_` and `on_error_` run on the threads that report |
| `Worker worker_` | a queue of recorders | stop, join and delete a recorder | its own |
| `DesktopRecorder` | `state_`, the idle count, its callbacks | start, stop, pause, resume, keepAlive | UI; need-audio and need-video on the encoder thread |
| `VideoEncoder` | `is_started_`, `videoCreater_`, tasks, callbacks | start, stop; do_start, do_stop (the drain), do_repeat | UI adds tasks; its scheduler runs them |
| `MediaBuffer` | the three below, `interval_audio_count_` | start, stop, pause, resume, getAudio, getBitmap | UI, encoder |
| `AudioCapture` | `index_`, the packets not drawn yet, its source | start, stop, resume, on_data, getAudioData | UI, audio device or timer, encoder |
| `DesktopCapture` | tasks, `scheduler_.started_` | start, stop; do_start, do_stop, do_capture | UI adds tasks; its scheduler runs them |
| `VideoQueue` | the bitmaps, temporary files, `audio_mark_`, `audio_sync_` | start, addBitmap, getBitmap, setAudioMark, setAudioSync | all four |
| `VideoCreater` | the file, the time stamps of its two streams | open, writeBitmap, do_writeAudioPacket, isVideoTurn, close | UI (open), encoder |
| `SystemAudioCaptrue` | two packet queues, a buffer, the WASAPI client | start, stop, getAudioData | UI, WASAPI, resampling, audio |
| `MemoryBuffer`, `AudioResampling` | bytes waiting for a chunk, the resampler | write, read; open, execute, close | UI, resampling |
| `StartOption` | the parsed options | parseJson | UI, read by all |
| `SocketServer`, `SocketClient` | connections, the packet being read | connect, send, disconnect; accept, relay | the server's, one per client, the caller's |
| `FFPlayer` with `FFStream`, `FFAudio`, `FFVideo`, `AudioSDL`, `WindowSDL` | the file, two codecs, three queues, the device, the window | open, close, play, pause, move | scheduler, sound worker, SDL, viewer |
| `Scheduler`, `SimpleThread`, `ThreadQueue`, `SuspensionQueue`, `Timer` | tasks, `started_`, the termination flag | add, start, stop, sleep, wakeUp, terminateAndWait | as used above |

How a recording goes: START makes `MainForm` create a `DesktopRecorder`, which
starts the audio, the bitmap queue, the desktop and the encoder. The audio
thread numbers every packet and sets the mark with which the next bitmaps are
stamped. The encoder thread takes turns: a bitmap when the video's time stamp is
not ahead of the audio's, otherwise a packet; a packet drawn sets the sync, which
releases the bitmaps stamped with it. STOP stops the media and puts one task in
the encoder's queue; the encoder then drains what is buffered, closes the file
and runs `on_completed_`, which posts COMPLETED, gives the recorder to
`worker_`, clears `recorder_` and, after a TERMINATE, closes the window.

What is hard in it, and what makes each part correct:

- **VideoQueue**: four threads, and a lock only around each call of the
  `std::queue`; the size test, the stamp and the push are three steps, the
  look at the front and the pop are two, and `start()` may clear in between. The
  files have names that depend on the second only, so that two bitmaps may share
  one. Correct is: bounded memory, order, no bitmap twice or silently gone, no
  entry without its file, no bitmap before its sound; all but the first fail for
  bitmaps that share a file.
- **MainForm**: `recorder_` is read by the UI thread and written by the encoder
  thread without a lock. Correct is: it never dangles, recorders are freed once
  they are at rest, one file is open at a time, COMPLETED comes once and last,
  a stop completes, TERMINATE ends the agent.
- **The pipeline**: start, stop, pause and resume are asynchronous. Correct is:
  what was captured before a stop is in the file or a failed write was reported,
  sound and picture stay together, and the media end up in the state of the recorder.
- **Keep-alive**: a count shared by two threads without a lock. Correct is: who
  is silent is noticed, who is not is left alone.
- **The sources of sound**: a microphone that may be missing at a resume, or
  vanish while it is open, and a timer that stands in for it in the first case only,
  on two threads. Correct is: one source at a time, numbers without a gap, silence
  as long as the time it stands for.
- **System audio**: four threads around two queues and two buffers, and an
  `open()` whose failure nobody looks at. Correct is: nothing is used after it was
  freed, the sound keeps its order, buffers stay short, old sound stays out.
- **Scheduler**: notifications that nobody waits for yet, plain flags. Correct
  is: every task runs, once and in order; a stop stops; a join means quiet.
- **The media file**: sizes that come from two readings of the options, a dozen
  steps of `open()` that may fail, an encoder that may throw, a trailer whose
  failure nobody sees. Correct is: bitmaps fit, nothing stays open, a header is
  followed by an attempt at the trailer, a drain ends.
- **Sockets**: asynchronous writes of memory that the caller owns, sizes that an
  unsigned short does not hold, a client whose thread is killed. Correct is: packets
  whole and in order, ends noticed once.
- **Player**: four threads on a file that is closed under them, two streams that
  count time in units of their own, decoders that fail, a window that ends SDL when
  it is opened again. Correct is: the picture waits for the sound, packets are freed
  once, the file ends.

`PROJECT.json` lists each hazard at the line where it bites, with the properties
that cover it and a note where a property leaves a part of it out.

## Modules

| Module | What it is |
|---|---|
| `VideoQueue` | `include/VideoQueue.hpp` with `ThreadQueue`, one action per locked call |
| `FrameQueue`, `MCVideoQueue` | abstract: a queue of stamped bitmaps with atomic operations, and what may come of a shared file; the mapping to it |
| `RecordAgent` | `MainForm.hpp` and `Worker`, with the control of the recorders below |
| `RecordingSessions`, `MCRecordAgent` | abstract: recordings that do not overlap, each told complete once; the mapping to it |
| `DesktopRecorder` | the pipeline: `DesktopRecorder`, `MediaBuffer`, `AudioCapture`, `DesktopCapture`, `VideoEncoder` |
| `AudioRecording`, `MCDesktopRecorder` | abstract: every packet heard is drawn, in order, before the recording completes, and written or a failed write is reported; the mapping to it |
| `KeepAlive` | the watch on the main program: `keepAlive` and `check_idle_count` |
| `AudioSources` | `AudioCapture` with `AudioInput` and `Timer`: two threads that number packets |
| `SystemAudio` | `SystemAudioCaptrue`, `SystemAudio`, `AudioResampling`, `MemoryBuffer` |
| `MediaFile`, `MCMediaFile` | `StartOption`, `VideoCreater` and the copy between them; sizes for TLC |
| `Scheduler` | `Scheduler` on `SimpleThread` and `ThreadQueue` |
| `PacketLink` | `SocketServer`, `SocketClient`, `SocketUtils` |
| `Player` | `FFPlayer`, `FFStream`, `FFAudio`, `FFVideo`, `AudioSDL`, `WindowSDL` |
| `...Proofs` | the theorems about the module of that name; `DesktopRecorderProofs` also has those about `KeepAlive`, the watch in the same class, and `SchedulerProofs` those about `Player`, whose thread is a scheduler |

The detailed modules overlap as little as they can. `DesktopRecorder` uses the bitmap
queue as one atomic queue that may hand over a younger picture, which is what
`ImplementsFrameQueue` shows `VideoQueue` to be; its audio source is one actor, which
is what `OneSource` and `NumberedInOrder` of `AudioSources` allow; its task queues are
those of `Scheduler` (`TasksInOrder`, `TaskRuns`, and the one late repeat of
`LateRepeatBounded` for the desktop). `RecordAgent` has the recorder as an encoder
that records, drains, fails or completes, which is what `StopCompletes` and
`ImplementsAudioRecording` show of `DesktopRecorder`; its ping timeout is the alarm of
`KeepAlive`, and its start that fails is `MediaFile`. This composition is by argument:
no specification combines two of the detailed ones.

Definitions whose comment begins with "mutant" are wrong on purpose. Each is the
definition after it with one plausible mistake, and is named in `PROJECT.json`
with the property that the mistake breaks. No specification uses them.

### VideoQueue and the code

`queue` is `queue_`; an entry has the number of its bitmap, the tag and whether it
stands for a file (`getSize() = 0`), with its name. A name is the second of the clock
in which it was made: `getRandomString` seeds its numbers with `time(NULL)` on every
call (`ryulib/strg.hpp:182`), so that 64 characters tell no more than that. `files` is
what each name holds, which a second spill overwrites and the first read removes;
`jpeg` is what `getBitmap` has read before it removes the file. `adding`, `taking` and
`starting` are the program counters of the three threads in `addBitmap`, `getBitmap`
and `start`, with the local data of the call. `index`, `audio` and `marking` are the
part of `AudioCapture` that produces the marks: a packet is numbered and queued before
the mark is set, so that the sync may be ahead of the mark. `captured`, `lost`,
`delivered` (the entries taken), `pictures` (the bitmap handed over for each) and
`spilled` (which bitmaps a name was given to) are history. Free memory, free disk, the
JPEG library and the file calls answer in every way they can. A call that finds
nothing to do (`getBitmap` on an empty queue or before the bitmap is due) changes
nothing and is not an action. `has_enough_free_memory` comes before the test of the
size; as no state changes between them they are one step.

### RecordAgent and the code

`ui` is the UI thread: idle, or about to call through the pointer it read in the
handler (`Target` lets the compiler read `recorder_` once or twice). `posted` is
the window's message queue, `asking` the blocking START, `notices` what is
posted back. `phase[r]` is the encoder thread of recorder `r`, with one step for
each statement of `on_completed_` that another thread can see. `Faults` chooses
what may fail: the parse of the options, the opening, a write, the ping timeout,
an exception in the encoder. A call through a null pointer ends the process; a
call on a recorder already freed may end it or go unnoticed. With
`Patient = FALSE` the client posts anything at any time; with `TRUE` it sends
STOP and TERMINATE once each per recording and waits for COMPLETED, as the
protocol describes. A START with no data, which is answered with an error and
changes nothing, and GET_STATUS are left out.

### DesktopRecorder and the code

`ui` is where the UI thread is in `start()` or `stop()`. `source` says whether the
packets come from the microphone (`"mic"`), the silent timer (`mic` 999, `"timer"`)
or the timer that `resume()` starts when the microphone is gone (`"stand-in"`),
which stays so, as that timer's thread may be in `on_data()` whatever is closed
later. Closing the microphone waits for its callback, stopping the timer does not.
`dtasks` and `etasks` are the queues of the two schedulers; `shooting = "shot"` is
the moment in which the desktop thread is committed to a capture. `encoder` is
`videoCreater_`, and `"draining"` the loop of `do_stop()`. Time stamps are numbers
of bitmaps and packets, compared after multiplication with `VideoStep` and
`AudioStep`; `Leftover` is what the time stamp of the picture happens to hold when a
file is opened, as nothing sets it (`ffmpeg/VideoCreater.hpp:66`). An exception in
the drain is not caught by the code and ends the process: it is not modelled.

A write that returns false is reported and forgotten: the bitmap or packet is gone,
and the time stamp has advanced or not, as `do_writeAudioPacket` and `writeBitmap`
return before or after it. `drawn` is history: each packet drawn, with whether it was
written. `errors` counts the reports. `TakeBitmap` lets a bitmap come out with its own
picture, with any younger one that could have overwritten its file, or not at all.
`shown` are the bitmaps that had their turn.

### KeepAlive and the code

`keepAlive()` is two stores, `check_idle_count()` one step for each access to
`old_tick_` or `idle_count_ms_`. As `old_tick_` is a plain `DWORD`, the
subtraction may use the value that was compared or load it again. Ticks and
count wrap at `RANGE`, in place of 2^32. `PollGap` bounds the ticks between two
polls of the encoder thread, which polls every millisecond or so. `silence`,
`before` and `torn` are history. The module's specification is named `KeepSpec`, and
that of `Player` `PlayerSpec`, so that one module of proofs can extend it together
with the component it belongs to.

### AudioSources and the code

`ui` is where the form's thread is in `start`, `pause`, `resume` or `stop`; the three
steps of `Timer::start()` are separate, as the timer's thread may be in `on_repeat_`.
`on_data[s]` is where source `s` is in `on_data()`: `index_++` is a read and a write,
and the mark reads `index_` once more. `count` is `count_ms_`, which is an int of
microseconds and wraps at `MaxInt`; the clock may be set back once (`skew`). `stream`
is `"lost"` when the device went away while it was open, until a pause or stop closes
it: the code has `isActive()` and never asks it. `began`, `fired`, `raced` and
`overlapped` are history.

### SystemAudio and the code

Sound is a sequence of labels, that of the recording in which it was captured;
label 0 is what was never written. `buffer` and `memory` are two `MemoryBuffer`s
with the size they keep and the frames they hold, which differ after a read of
nothing. `Touch` is an access to what the other thread uses without a lock: if
that one is inside such an access too, the process may end or go on, and
`overlapped` is set. `pwfx = "freed"` is the dangling format that a failed
`open()` leaves. `SourceSize` is CHUNK or, before the resampler was ever opened,
what an uninitialised product may be. `start()` goes on after a failed `open()`,
as the code does.

### MediaFile and the code

`Parse` reads the options in the order of `parseJson()`: a key that is missing throws,
and what was read before stays. `held` is what the `VideoCreater` holds of FFmpeg,
`leaked` what nobody can free any more. Each step of `open()` may fail and leave what
it made before; the hardware codec falls back to the other, overwriting the context.
`close()` writes the trailer when there is a header and does not look at the result:
the file is `"complete"` or `"cut short"`. `tasks` carries the size with which the
desktop starts, by its own thread, and `bitmaps` the number of pixels of what it
captured. The encoder's `bitmap` is allocated by `do_start()` from the other options.

### Scheduler and the code

`thread` is where `on_thread_execute` is: between the test of the queue and the
pop, before a task, before a repeat it has decided on, before the wait or in it.
`Notify` is `notify_all()`: a thread that is not waiting yet does not notice. A
task may start or stop the repeats, as `DesktopCapture` and `FFPlayer` do, and
`stopped` remembers whether the last stop came from a task or from outside.

### PacketLink and the code

A packet is a header and a body, with the size of its data and `packet_size`, which
holds it modulo 2^16: only that many bytes are written (`Parts`), a header and a body
that may be cut, or less than a header (`"torn"`), or none at all. `chan[k][e]` is
what end `e` of connection `k` writes: the parts in the sockets, the writes that wait,
with what they have left, and the packets posted so far. `late` is set when a write
found no room: from then on asio reads memory that the caller may have freed, and the
rest of one write goes behind the next. `read[k][e]` is the read under way; `"lost"`
means that the bytes are no longer taken for what they are; they are read to the end
of the connection, and what is given to `on_received_` from them is not modelled.
`alive` are the threads of clients that `disconnect()` has not killed. `SocketClient`
names a type `PacketHeader` that no file of the repository defines; it is taken for
the `HEADER_SIZE` bytes of the server.

### Player and the code

`playing` is `started_` of the scheduler, `scheduler` where its thread is in the tasks
`open` and `close` or in the repeat; a task is taken when it is asked for, as a task
that waits keeps the repeat from running. `sound` and `picture` are a codec each, with the queue
that belongs to it: `worker_`'s, which `close()` does not empty, and `FFVideo`'s,
which it does; `context` is a null pointer, made, or open, and an `open()` that fails
leaves it made. `worker` and `popped` are packets in the hands of the two threads.
A packet that a decoder refuses with an error, in a context that is not open always,
is never freed (`leaked`); using the context that `close()` has cleared may also end
the process (`crashed`). The pts of a packet is its position times `SoundTick` or
`PictureTick`, the units of the two streams. `window` is `is_opened_` of `WindowSDL`:
when it is open, the `open()` of the next file closes it and calls `SDL_Quit()`, which
closes the device that was just opened. `stray` is history: sound waits in the
queue that no device was open to draw.

## Runs

| Run | Question | Bounds | Result |
|---|---|---|---|
| `video_queue` | does the queue keep its promises under every interleaving and a second start? | 1 bitmap + 1 in memory, 4 bitmaps, 1 packet, 2 seconds, 2 starts | holds |
| `agent_safety` | is the agent safe with a client that posts anything and all faults? | 2 recorders, 3 posts, 1 error | holds |
| `agent_liveness` | does it complete, terminate and clean up for a client that keeps to the protocol? | 2 recorders, 2 posts, 1 error, no encoder exception | holds |
| `agent_early_close` | is it closed only when nothing is being recorded? | 2 recorders, 2 posts, no error | no |
| `desktop_recorder` | does the pipeline deliver what was captured, in step, through pause, stop and failure? | 3 packets, 2 bitmaps, 1 start, 1 pause, 1 failing write, 1 exception | holds |
| `keep_alive` | is a silent client noticed, and only a silent one, but for one race? | ticks 0..15, limit 0 (off) or 3, polls at most 2 ticks apart | holds |
| `audio_sources` | are packets numbered through and silence on time, from one source unless the microphone is lost? | time to 5, interval 2, an int to 3, 3 packets, 2 pauses | holds |
| `system_audio` | is sound whole, in order and not old, and is nothing used that is freed? | 2 starts, 6 packets, 1 failure, chunks of 3 frames from packets of 2 into packets of 4 | holds |
| `media_file` | do bitmaps fit, is everything closed with an attempt at the trailer, does a drain end? | 3 sizes, 2 starts, 1 packet, 1 bitmap, 2 failures | holds |
| `scheduler` | is every task run in order, and what runs after a stop? | 2 callers, 3 tasks, 2 calls of start or stop | holds |
| `packet_link` | do packets arrive whole and in order, are ends noticed? | 2 connections of a client, 3 packets of 1, 40000, 65533, 65535 or 65540 bytes, 2 relays, 1 above the limit, 1 break, sockets of 2 parts | holds |
| `player` | does the picture wait for the sound, is every packet freed or lost to an error, does a file end? | 4 tasks, files of 2 packets, ticks of 3 and 2 | holds |

The properties:

- `MemoryBound`, `AudioFirst`, `InOrder`, `Conservation`: the promises of the
  queue above. `AudioFirst` is stated for one start, which is all `MainForm` gives
  a recorder. `Conservation` says that each bitmap has its entry in exactly one place
  and each entry for a file has its own bitmap there. The last three except entries
  whose file was given to another bitmap (`Shared`), `MemoryBound` nothing.
- `ImplementsFrameQueue`: the interleaved queue looks atomic until a second start;
  what two bitmaps that share a file may do, and no more, is in the abstract queue: an
  entry may come out with a younger picture, or be lost.
- `RecorderExists`, `DeletedAtRest`: the pointer and the disposal.
- `ImplementsSessions`: recordings do not overlap, and COMPLETED comes once,
  after the file is closed.
- `NullOnlyAfterError`: of the clients that keep to the protocol, only one
  whose recording an error stopped can make TERMINATE call through null.
- `StopCompletes` (of both modules), `TerminateCloses`, `RecorderReclaimed`: see
  their comments.
- `LipSync`: sound and picture that are within one step of each other in the file
  stay so. It is a property of steps, as nothing initialises the time stamps they
  start from. `SoundBeforePicture`: a bitmap has its turn after the packets up to its
  stamp were drawn, and they are written or an error was reported.
- `MediaFollowState`: between calls, what the audio and the desktop do or have
  been told last is what `state_` says.
- `ImplementsAudioRecording`: packets are drawn in order, none left out, and written
  or a failed write reported; with a microphone, a completed recording has drawn
  every packet.
- `FalseAlarmOnlyTorn`, `SilenceIsReported`: an alarm means a silence longer than
  the limit less one poll, unless a message came between the comparison and the
  sum of a check; a silence is reported, also where numbers wrap around.
- `NumberedInOrder`, `AtPace`, `OneSource`: numbers without a gap, silence that
  follows the clock, one source at a time. The first excepts a silent packet from
  before a pause that meets the microphone after it (`overlapped`), the second a
  `start()` that meets the timer in `on_repeat_` (`raced`) and a gap longer than
  the int holds, the third a microphone lost while it was open, which nothing replaces.
- `WorkerHoldsClient`, `BacklogBounded`, `SoundInOrder`, `OldSoundBounded`: the
  client and the format are there while the worker may use them; less than a
  chunk and less than a packet wait; sound keeps its order through five places; at
  most two packets of an earlier recording come into the next. They except the
  first packets read before the format was set (`early`), and the last one
  accesses that overlapped; it also needs a resampler that keeps up, as
  `BacklogBounded` does: packets no longer than a chunk, and converted ones no longer
  than those drawn.
- `BitmapFits`, `NothingLeftOpen`, `FileCompleted`, `DrainEnds`: see their comments.
  The first speaks of a START that was understood, the third of an attempt at the
  trailer, which is all that the code makes sure of.
- `TasksInOrder`, `TaskRuns`, `LateRepeatBounded`: every task once and in order; a
  stop by a task ends the repeats at once, one from outside after one more.
- `PacketsInOrder`, `EndReportedOnce`, `GoneIsNoticed`: packets in order until a write
  finds no room or a `packet_size` goes round to less than a header, and whole exactly
  where `packet_size` could hold the size; ends counted; no dead connection stays in
  the list.
- `PictureNotAhead`: in the numbers that the code compares one picture at most is
  ahead; in time that says something only for files whose two streams count in one
  unit, and the run has ticks of 3 and 2. `PacketsAccounted`: a packet is freed, in one
  place, or lost to an error. `PlayReachesEnd`: a file ends unless sound waits for a
  device that is closed.

`agent_early_close` shows where the code and what is written about it disagree:
the completion of one recording may close the agent during the next
(`MainForm.hpp:154`). `PROJECT.json` "findings" quotes the lines of this and of
the other disagreements met while modelling, for which no run is kept:

- bitmaps spilled within a second share a file, and the later comes out for the
  earlier, before its own audio was drawn (`VideoQueue.hpp:146`): with `OnlyEarlier`
  as an invariant of `VideoQueue` (no bitmap in memory, three bitmaps, one packet, one
  second, one start), TLC finds it violated;
- from the second file on the player has no audio device, and stands still once two
  buffers of sound wait (`ryulib/sdl_window.hpp:50`): with `PreparedToPlay` as an
  invariant of `Player` (three tasks, files of one packet), TLC finds it violated;
- after an exception in the encoder the agent can neither record nor be
  terminated (`VideoEncoder.hpp:152`): with `"encode"` among the `Faults` of
  `AgentLiveness.cfg`, TLC finds `TerminateCloses` violated;
- a message that arrives at the wrong moment of a check is taken for a timeout
  (`DesktopRecorder.hpp:193`): the alarms that `FalseAlarmOnlyTorn` excepts;
- `MAX_BITMAP_COUNT` is not the maximum in memory (`VideoQueue.hpp:60`):
  `MemoryBound` has one more;
- a report of 0 packets does not mean complete (`MediaBuffer.hpp:137`): `CountPoll`
  reports whenever the encoder has caught up;
- a bitmap may be captured after `stop()` (`DesktopCapture.hpp:131`): `Shoot`;
- a start during the drain disturbs the media (`DesktopRecorder.hpp:77`): why
  `SoundBeforePicture` is stated for one start.

### Why the bounds are enough

The queue needs one bitmap in memory, one beyond the documented limit and two in
files, behind them, to have every mixture of places and two bitmaps that share a file
or not, which takes two seconds; one packet gives bitmaps that are not yet due and
stamped before any sound, and due ones once it is drawn; two starts give every
clearing in the middle of an operation. The agent needs two recorders, so that
the disposal of one meets the life of the next, and three posts, so that STOP,
TERMINATE and another message meet them. The pipeline needs steps 3 and 2, so that
the turns are uneven; the pause separates two periods of capture, after which the
timer may stand in for the microphone, a stop then meets it, and three packets put one
before the pause, one after it and one into the drain; the write that fails may be of
a packet or of a bitmap, before or after its time stamp has advanced. A second pause,
which would meet a timer that stands in already, is left to the theorems and to
`audio_sources`. A report on
every poll (1) makes the counter as small as it can be. The keep-alive needs a
limit longer than a poll and a range of ticks several times the limit, so that
both wrap-arounds are met far from each other. The sources need two pauses, after
which a late timer meets the microphone, and an int smaller than the time. The
system audio needs packets, chunks and drawn packets of different sizes, so that
buffers hold parts of each, two starts, and a queue limit that is reached. The
media file needs two starts, so that a failed parse meets the options of the one
before, and two failures, so that the fallback fails as well. The scheduler needs
two callers, so that a notification may come for the other's task. The link needs
a second connection to relay to, which the client makes while the server still
serves the first, sockets that hold one packet and no more, and a third packet,
whose header can take the place of the second one's body. Its sizes are one that
fits, one above the limit, and three above what `packet_size` holds: nothing, less
than a header and a cut body are written of them. Two clients that
are connected at the same time, with so many packets, are more than a run of a few
minutes can cover. The player needs two opens of a file that is played, and ticks that differ, the
sound's being the longer. No run says
anything about larger numbers; the theorems do, for what they prove.

Deadlock is not checked: in every run the bounds end the inputs, after which
the threads rightly have nothing left to do.

### Fairness

`RecordAgent`: the UI thread pumps messages, `worker_` and each
encoder thread run, so weak fairness of each thread; none for the client, who
owes nothing, and none for faults. `DesktopRecorder`: a call of the UI thread
returns, the two schedulers run, a packet that has come is queued; nobody has to
speak, pause or stop, and the desktop need not capture. `KeepAlive`: time passes,
`keepAlive()` returns and the encoder thread polls; nobody has to send a message.
`MediaFile`: a START that was begun goes on and the encoder's thread runs.
`Scheduler`: its thread runs, which includes the time-out of a wait, and a caller
that has pushed a task comes to `wakeUp()`; nobody has to call. `PacketLink`: the
server's thread serves every connection that is ready, as asio does; nothing is
assumed of clients, whose threads may be killed. `Player`: the scheduler's thread
and SDL's callback run; neither the worker nor the viewer is needed for a file to
end. `VideoQueue`, `AudioSources` and `SystemAudio` state safety only: `getBitmap` is
called at the video's turn, which does not come while a pause holds back the packets
and not after the drain has ended, so that nothing is promised of the bitmaps left.

## Proofs

The theorems hold for every value of the constants that the named assumption of
each module allows (`CapacityAssumption` and `BoundsAssumption`,
`AgentAssumption`, `RecorderAssumption`, `AudioSourcesAssumption`,
`SystemAudioAssumption`, `MediaFileAssumption`, `SchedulerAssumption`,
`PacketLinkAssumption`, `KeepAliveAssumption`, `PlayerAssumption`): any capacities,
sizes, intervals, widths and durations, and any number of recorders, packets, bitmaps,
starts, messages, connections and faults.

| Module | Theorem | States |
|---|---|---|
| `VideoQueueProofs` | `TypeCorrect` | `Spec => []TypeOK` |
| | `MemoryBounded` | `Spec => []MemoryBound` |
| | `DeliveredInOrder` | `Spec => []InOrder` |
| | `AudioDrawnFirst` | `Spec => []AudioFirst` |
| | `NoneVanishes` | `Spec => []Conservation` |
| | `QueueImplementsFrameQueue` | `Spec => ImplementsFrameQueue` |
| `RecordAgentProofs` | `TypeCorrect` | `Spec => []TypeOK` |
| | `PointerValid` | `Spec => []RecorderExists` |
| | `DeletionSafe` | `Spec => []DeletedAtRest` |
| | `OneFileOpen` | `Spec => []OneFile` |
| | `AgentImplementsSessions` | `Spec => ImplementsSessions` |
| | `NullCallNeedsError` | `Spec => []NullOnlyAfterError` |
| `DesktopRecorderProofs` | `RecorderTypes` | `Spec => []TypeOK` |
| | `MediaFollow` | `Spec => []MediaFollowState` |
| | `NoPictureBeforeItsSound` | `Spec => []SoundBeforePicture` |
| | `StaysInStep` | `Spec => LipSync` |
| | `RecordingImplements` | `Spec /\ [](starts <= 1) => ImplementsAudioRecording` |
| | `AlarmsAreDue` | `KeepSpec => FalseAlarmOnlyTorn` |
| `AudioSourcesProofs` | `NumbersInOrder` | `Spec => []NumberedInOrder` |
| | `SilenceAtPace` | `Spec => []AtPace` |
| | `OneSourceRuns` | `Spec => []OneSource` |
| `SystemAudioProofs` | `AudioTypes` | `Spec => []TypeOK` |
| | `ClientForWorker` | `Spec => []WorkerHoldsClient` |
| | `BacklogStaysBounded` | `Spec => []BacklogBounded` |
| | `SoundKeepsOrder` | `Spec => []SoundInOrder` |
| | `OldSoundStaysBounded` | `Spec => []OldSoundBounded` |
| `MediaFileProofs` | `CopyFits` | `Spec => []BitmapFits` |
| | `NothingStaysOpen` | `Spec => []NothingLeftOpen` |
| | `HeaderAndTrailer` | `Spec => []FileCompleted` |
| `SchedulerProofs` | `TasksKeepOrder` | `Spec => []TasksInOrder` |
| | `LateRepeats` | `Spec => []LateRepeatBounded` |
| | `JoinIsQuiet` | `Spec => QuietAfterJoin` |
| | `AllAccounted` | `PlayerSpec => []PacketsAccounted` |
| | `NotAhead` | `PlayerSpec => []PictureNotAhead` |
| `PacketLinkProofs` | `LinkTypes` | `Spec => []TypeOK` |
| | `EndsReported` | `Spec => []EndReportedOnce` |
| | `PacketsArriveInOrder` | `Spec => []PacketsInOrder` |

Each module first proves its inductive invariant (`AgentInvariant`,
`RecorderInvariant`, `SourcesInvariant`, ...), thread by thread, with a step for
every action; the theorems follow from it. Why the invariants are what they are:

- **VideoQueue.** `MemoryBound` counts entries, and a push says nothing about the
  count without knowing where they stand. `MemoryInv` adds that entries in memory
  stand among the first `MAX_BITMAP_COUNT + 1` (a pop only moves them forward) and
  that what the capture thread found about the size still holds when it pushes
  (it is the only thread that makes the queue longer). `InOrder` speaks only of
  what has left; `OrderInv` orders the whole pipeline: delivered, being read back
  from a file, queued, and held by the capture thread. `AudioFirst` needs that the
  sync only rises, hence that packets are numbered and drawn in ascending order,
  and that what the front showed to be due is what the pop returns (`SyncInv`).
  Both fail after a second `start()`. `Conservation` does not, as a `start()` that
  clears an entry loses its bitmap in the same step: `PlaceInv` says that nothing
  lost is on its way or delivered, and `OrderInv` that a number is in no two places.
  All three need to know what a name holds when it is read. `KeptInv` says that an
  entry has its file with its own bitmap from the stamp to the read, unless the name
  was given to another; `YoungestInv` that a file holds the youngest bitmap written
  to its name; `PictureInv` that what is read and handed over is the entry's bitmap, or
  a younger one of the same name. `Shared` depends on `spilled`, which only
  grows, so that an exception once made stays.
  In the refinement a push is `Offer`; the pop of a bitmap in memory, or the end of
  reading one back, is `Take`; the spill that gives a name to a second bitmap is
  `Share`; the marks advance, and every other step stutters. What
  it needs beyond the above is that no tag on the way exceeds the one about to be
  pushed, nor that one the mark, which may have moved on since the stamp (`TagsUpTo`
  in `OpenInv`).
- **RecordAgent.** `RecorderExists` cannot be proved from the pointer alone:
  `AgentInv` says of every recorder which thread may have it. It is `recorder_` from
  its start until `on_completed_` has given it to `worker_` (`Current`), whatever is
  not `recorder_` is at rest (`AtRest`), its encoder has one START before it records
  and at most one STOP (`Tasks`, `StoppedOnce`), and it is deleted only when its
  encoder has gone (`Deleted`), which is the join in `Worker`. The refinement needs
  nothing more: two recordings cannot overlap, as a recorder with an open file is
  `recorder_`. `NullOnlyAfterError` speaks of what a patient client knows:
  `Cooperation` relates it to what is true. What it has posted finds a recorder that
  works, a closing message is the last one, and when it may START again the only
  COMPLETED there was has been read. An error breaks every part of this, which is
  why the property excepts it.
- **DesktopRecorder.** `OneRecording` ties `is_started_` to the encoder: it is set
  exactly while a recording is under way or its START waits, which keeps a second
  start out. `MediaInv` extends `MediaFollowState` to the middle of a call.
  `FirstInv` numbers the packets through from those drawn to the queue, so that the
  sync is never ahead of what was drawn, written or reported. `StaysInStep` is arithmetic over the turns: the
  one that is not ahead advances, by one step. The refinement is proved thread by
  thread: `StartEncoder` begins a recording, `Stop` stops it, a `resume()` without
  a microphone degrades it, numbering hears a packet, drawing keeps it, or drops it with
  a report, a bitmap that is not written is missed, and the end of the drain completes
  it. That nothing is missing then is the last of these: all packets heard are drawn or
  in the queue, the queue is empty at that point, and
  from the first statement of `stop()` on the microphone brings no other, as closing it
  waits for its callback (`OnceInv`). The hypothesis is that
  of the abstract module, which has one recording, as `MainForm` starts a recorder once.
- **KeepAlive.** `Counted` bounds the count, with what the check under way is about to
  add and the ticks since the last poll, by the silence and one poll. It needs that
  a saved tick is no further back than the last poll (`Polled`), unless the clock has
  wrapped around, and that what `keepAlive()` takes back was not compared before
  (`Compared`), unless the check is torn. The lemma `Cast` says that a sum that wraps
  around an int only gets smaller.
- **AudioSources.** `FormInv` says for every place in a call of the form what may
  run. `NumberInv` says how far `index_` is ahead of the queue at every step of
  `on_data()`. `PaceInv` bounds the difference of what the timer has counted and what
  the clock shows, at every step of `on_repeat_`: none, or one unit lost to a clock
  that was set back.
- **SystemAudio.** The backlog is bounded because each round reads what it
  can: `TypeOK` and the bound are inductive once `NoWorkerYet` says that the device
  is opened only where no worker runs, which `WorkerHoldsClient` needs. For the
  order, `OrderInv` does not compare any two of the places but cuts the way in three
  labels: what waits to be drawn is not younger than the first, what waits in the two
  buffers lies between them, the packets are not older than the last, and what
  the resampler holds is at the cut where it stands; each step moves one cut.
  `OldInv` is a budget: drawn packets of old sound, those that can still be made of
  what waits and what the resampler holds come to two at the most; it is set up when
  `start()` has cleared the queues, while nothing new was captured (`Dry`).
- **MediaFile.** `BitmapFits` relates the encoder to a capture that began with
  other options, on another thread: `DesktopSized` says that all that the desktop
  has, tasks and bitmaps included, is of the size of its options, `OptionsAgree`
  that the two options agree when START was understood, `EncoderSized` that they do
  not change while the encoder runs. `LeaksPaid` counts a context that is held
  without an owner as paid for by the failure that left it. `FileCompleted`
  needs that a file with no more than its header is held (`FileHeaded`), as nothing is
  held at rest.
- **Scheduler.** `Numbered` gives each place its numbers: done, in the hands of the
  thread, waiting. `Lateness` says that a repeat after a stop was decided on before.
- **Player.** Packets are counted (`PacketsAccounted` is inductive once the types are
  known, as each edit of a queue, and each packet lost to an error, is an edit of the
  count). `PictureNotAhead` needs `AheadInv`: the one picture ahead is the last one,
  whose pts the codec still has while its context is open, and the thread lets another
  through only when the sound has reached it. A context that is closed or was never
  opened shows nothing, and the `open()` that opens the next begins a new file. Nothing
  is needed of the device, which `SDL_Quit()` may close at any `open()`.
- **PacketLink.** `EndsInv` counts what each end may tell: once for its read, once for
  each refused write, nothing before it was accepted. `FramingInv` describes
  what is in the sockets as what is left (`Remaining`) of the packets posted, part after
  part, after those received and, in the middle of one, its header; a post appends a
  header and a body to it, a read takes the front. As long as nothing is amiss, no write
  had to wait and every `packet_size` is at least a header, the two are the only ways
  in which it changes.

Only model-checked: liveness under fairness (`StopCompletes`,
`TerminateCloses`, `RecorderReclaimed`, `SilenceIsReported`, `DrainEnds`, `TaskRuns`,
`GoneIsNoticed`, `PlayReachesEnd`), as TLAPS does not treat `ENABLED`. The abstract
modules state safety only, so the refinements are proved in full. Every invariant,
action property and refinement that a passing run checks is a theorem.

## Not modelled

- Pixels, samples, FFmpeg and GDI calls, the window's controls, the device library
  and the manual test programs: input and output without logic of the agent's own.
  What a call may answer, and what it may leave behind when it fails, is modelled.
- `terminate()` and `terminateNow()` of the recorder, its parts and the scheduler:
  the agent never calls them. The first sets a flag, the second kills a thread, after
  which the code promises nothing.
- The start of a `Scheduler` or `Worker`: the thread may use `thread_`
  before the constructor has assigned it (`Scheduler.hpp:34`). The end of a
  `Worker`: nothing calls it, and with an empty queue `terminateAndWait()` would wait
  for ever, as nobody tells its `SuspensionQueue`.
- An exception in the drain, which ends the process.
- `epoll/SocketServer.hpp`, which calls a method that `SimpleThread` does not have,
  `TcpClient`, `BroadcastUDP`, `PipeSender`, `WaitFreeList` and the codecs for streams
  (`VideoZip`, `AudioZip` and their counterparts): no program of the repository
  includes them, and the codecs are arithmetic on pixels and samples.
  `ryulib/VideoCreater.hpp` is an older copy of `ffmpeg/VideoCreater.hpp`.
- Options that set a value with a default, and the name of the recording: no property
  is about them. The names of the temporary files are modelled by what they depend on.
- What the file holds beyond the order of its packets and bitmaps: the encoders are
  not flushed at the close, so that what they delay is not in it, and the stamps of
  packets in it are those of `samples_count`, which a failed write leaves behind.
