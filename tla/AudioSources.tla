------------------------------ MODULE AudioSources ------------------------------
(***************************************************************************)
(* AudioCapture with AudioInput and Timer: packets of sound come from the  *)
(* microphone, on PortAudio's thread, or as silence from a timer, on its   *)
(* scheduler's thread.  Both call on_data(), which numbers, queues and     *)
(* marks the packet.  The form's thread starts, pauses, resumes and stops. *)
(*                                                                         *)
(* What the packets hold is left out (SystemAudio), and so is who takes    *)
(* them from queue_ (DesktopRecorder).                                     *)
(***************************************************************************)
EXTENDS Integers, Sequences, FiniteSets

CONSTANTS
    INTERVAL,     \* AUDIO_INTERVAL_MS, in units of the clock
    MaxInt,       \* the largest count_ms_
    MaxTime,      \* bound on the clock
    MaxPackets,   \* bound on the packets
    MaxPauses     \* bound on the pauses

ASSUME AudioSourcesAssumption ==
    /\ {INTERVAL, MaxInt} \subseteq Nat \ {0}
    /\ {MaxTime, MaxPackets, MaxPauses} \subseteq Nat

VARIABLES
    state,       \* what the form has asked for
    ui,          \* where its thread is in the call
    pauses,
    mic,         \* option_.mic: a device, or 999
    stream,      \* stream_ of the microphone: closed, opened, running, or lost,
                 \* when it is open and no callback comes any more
    on_data,     \* per source: where it is in on_data()
    reg,         \* per source: the number it works with
    index,       \* index_
    packets,     \* tags of the packets pushed to queue_
    marked,      \* the last index given to on_audio_mark_
    thread,      \* where the timer's thread is
    new_tick,
    old_tick,    \* old_tick_
    count,       \* count_ms_
    started,     \* started_ of the timer's scheduler
    time,        \* true time
    skew,        \* how far the system's clock has been set back
    began,       \* history: the time of the last Timer::start()
    fired,       \* history: calls of on_timer_ since
    raced,       \* history: that start() met the thread in on_repeat_
    overlapped   \* history: both sources were in on_data() at once

uiVars == <<state, ui, pauses, mic>>
dataVars == <<on_data, reg, index, packets, marked, overlapped>>
timerVars == <<thread, new_tick, old_tick, count, fired>>
clockVars == <<time, skew>>
vars == <<uiVars, stream, dataVars, timerVars, started, began, raced, clockVars>>

Source == {"mic", "timer"}

Init ==
    /\ state = "new" /\ ui = "idle" /\ pauses = 0
    /\ mic \in {"device", "none"}
    /\ stream = "closed"
    /\ on_data = [s \in Source |-> "out"] /\ reg = [s \in Source |-> 0]
    /\ index = 0 /\ packets = <<>> /\ marked = 0
    /\ thread = "idle" /\ new_tick = 0 /\ old_tick = 0 /\ count = 0 /\ started = FALSE
    /\ time = 0 /\ skew = 0
    /\ began = 0 /\ fired = 0 /\ raced = FALSE /\ overlapped = FALSE

-----------------------------------------------------------------------------
(* The form's thread                                                       *)

Start ==
    /\ ui = "idle" /\ state = "new"
    /\ index' = 0
    /\ ui' = IF mic = "none" THEN "count" ELSE "open"
    /\ state' = "starting"
    /\ UNCHANGED <<pauses, mic, stream, on_data, reg, packets, marked, overlapped, timerVars,
                   started, began, raced, clockVars>>

\* mutant: numbers from 1 again, as start() does
ResumeFromZero ==
    /\ ui = "idle" /\ state = "paused"
    /\ index' = 0
    /\ ui' = IF mic = "none" THEN "count" ELSE "open"
    /\ state' = "resuming"
    /\ UNCHANGED <<pauses, mic, stream, on_data, reg, packets, marked, overlapped, timerVars,
                   started, began, raced, clockVars>>

Resume ==
    /\ ui = "idle" /\ state = "paused"
    /\ ui' = IF mic = "none" THEN "count" ELSE "open"
    /\ state' = "resuming"
    /\ UNCHANGED <<pauses, mic, stream, dataVars, timerVars, started, began, raced, clockVars>>

OpenMic ==
    /\ ui = "open"
    /\ stream' = "running"
    /\ ui' = "idle" /\ state' = "recording"
    /\ UNCHANGED <<pauses, mic, dataVars, timerVars, started, began, raced, clockVars>>

\* mutant: resume() does not look at what open() returned
OpenMicFailsUnnoticed ==
    /\ ui = "open"
    /\ stream' \in {"closed", "opened"}
    /\ ui' = "idle"
    /\ state' = IF state = "starting" THEN "failed" ELSE "recording"
    /\ UNCHANGED <<pauses, mic, dataVars, timerVars, started, began, raced, clockVars>>

\* Before or after the stream is opened.  start() fails with it, resume() goes
\* on with silence.
OpenMicFails ==
    /\ ui = "open"
    /\ stream' \in {"closed", "opened"}
    /\ IF state = "starting"
       THEN ui' = "idle" /\ state' = "failed"
       ELSE ui' = "count" /\ UNCHANGED state
    /\ UNCHANGED <<pauses, mic, dataVars, timerVars, started, began, raced, clockVars>>

\* Timer::start(), which nothing keeps from on_repeat_.
SetCount ==
    /\ ui = "count"
    /\ count' = 0
    /\ raced' = (thread # "idle")
    /\ ui' = "tick"
    /\ UNCHANGED <<state, pauses, mic, stream, dataVars, thread, new_tick, old_tick, fired,
                   started, began, clockVars>>

SetTick ==
    /\ ui = "tick"
    /\ old_tick' = time - skew
    /\ began' = time /\ fired' = 0
    /\ raced' = (raced \/ thread # "idle")
    /\ ui' = "go"
    /\ UNCHANGED <<state, pauses, mic, stream, dataVars, thread, new_tick, count, started, clockVars>>

SetStarted ==
    /\ ui = "go"
    /\ started' = TRUE
    /\ ui' = "idle" /\ state' = "recording"
    /\ UNCHANGED <<pauses, mic, stream, dataVars, timerVars, began, raced, clockVars>>

Pause ==
    /\ ui = "idle" /\ state = "recording" /\ pauses < MaxPauses
    /\ pauses' = pauses + 1
    /\ ui' = "close" /\ state' = "paused"
    /\ UNCHANGED <<mic, stream, dataVars, timerVars, started, began, raced, clockVars>>

Stop ==
    /\ ui = "idle" /\ state \in {"recording", "paused", "failed"}
    /\ ui' = "close" /\ state' = "stopped"
    /\ UNCHANGED <<pauses, mic, stream, dataVars, timerVars, started, began, raced, clockVars>>

\* Pa_CloseStream() returns when no callback runs any more.
CloseMic ==
    /\ ui = "close" /\ on_data["mic"] = "out"
    /\ stream' = "closed"
    /\ ui' = "stop"
    /\ UNCHANGED <<state, pauses, mic, dataVars, timerVars, started, began, raced, clockVars>>

StopTimer ==
    /\ ui = "stop"
    /\ started' = FALSE
    /\ ui' = "idle"
    /\ UNCHANGED <<state, pauses, mic, stream, dataVars, timerVars, began, raced, clockVars>>

UI ==
    \/ Start \/ Resume \/ OpenMic \/ OpenMicFails \/ SetCount \/ SetTick \/ SetStarted
    \/ Pause \/ Stop \/ CloseMic \/ StopTimer

-----------------------------------------------------------------------------
(* on_data()                                                               *)

Enter(s) ==
    /\ on_data' = [on_data EXCEPT ![s] = "read"]
    /\ overlapped' = (overlapped \/ \E o \in Source \ {s} : on_data[o] # "out")
    /\ UNCHANGED <<reg, index, packets, marked>>

\* index_++ is a read and a write.
ReadIndex(s) ==
    /\ on_data[s] = "read"
    /\ reg' = [reg EXCEPT ![s] = index]
    /\ on_data' = [on_data EXCEPT ![s] = "write"]
    /\ UNCHANGED <<index, packets, marked, overlapped>>

WriteIndex(s) ==
    /\ on_data[s] = "write"
    /\ index' = reg[s] + 1
    /\ on_data' = [on_data EXCEPT ![s] = "tag"]
    /\ UNCHANGED <<reg, packets, marked, overlapped>>

SetTag(s) ==
    /\ on_data[s] = "tag"
    /\ reg' = [reg EXCEPT ![s] = index]
    /\ on_data' = [on_data EXCEPT ![s] = "push"]
    /\ UNCHANGED <<index, packets, marked, overlapped>>

PushPacket(s) ==
    /\ on_data[s] = "push"
    /\ packets' = Append(packets, reg[s])
    /\ on_data' = [on_data EXCEPT ![s] = "mark"]
    /\ UNCHANGED <<reg, index, marked, overlapped>>

\* on_audio_mark_ is given index_ again, not the packet's tag.
Mark(s) ==
    /\ on_data[s] = "mark"
    /\ marked' = index
    /\ on_data' = [on_data EXCEPT ![s] = "out"]
    /\ UNCHANGED <<reg, index, packets, overlapped>>

OnData(s) ==
    /\ ReadIndex(s) \/ WriteIndex(s) \/ SetTag(s) \/ PushPacket(s) \/ Mark(s)
    /\ UNCHANGED <<uiVars, stream, timerVars, started, began, raced, clockVars>>

RecordCallback ==
    /\ stream = "running" /\ on_data["mic"] = "out" /\ Len(packets) < MaxPackets
    /\ Enter("mic")
    /\ UNCHANGED <<uiVars, stream, timerVars, started, began, raced, clockVars>>

\* The device goes away while it is open: PortAudio calls back no more, and
\* nobody asks isActive().
LoseMic ==
    /\ stream = "running" /\ on_data["mic"] = "out"
    /\ stream' = "lost"
    /\ UNCHANGED <<uiVars, dataVars, timerVars, started, began, raced, clockVars>>

-----------------------------------------------------------------------------
(* The timer's thread                                                      *)

others == <<uiVars, stream, started, began, raced, clockVars>>

\* The scheduler's loop.
Decide ==
    /\ thread = "idle" /\ started
    /\ thread' = "now"
    /\ UNCHANGED <<new_tick, old_tick, count, fired, dataVars, others>>

ReadNow ==
    /\ thread = "now"
    /\ new_tick' = time - skew
    /\ thread' = "count"
    /\ UNCHANGED <<old_tick, count, fired, dataVars, others>>

\* An int of microseconds.
Wrapped(n) == IF n > MaxInt THEN n - 2 * (MaxInt + 1) ELSE n

CountDelta ==
    /\ thread = "count"
    /\ count' = IF new_tick > old_tick THEN Wrapped(count + (new_tick - old_tick)) ELSE count
    /\ thread' = "old"
    /\ UNCHANGED <<new_tick, old_tick, fired, dataVars, others>>

SetOldTick ==
    /\ thread = "old"
    /\ old_tick' = new_tick
    /\ thread' = "test"
    /\ UNCHANGED <<new_tick, count, fired, dataVars, others>>

Due ==
    /\ thread = "test" /\ count > INTERVAL
    /\ fired' = fired + 1
    /\ thread' = "fire"
    /\ Enter("timer")
    /\ UNCHANGED <<new_tick, old_tick, count, others>>

NotDue ==
    /\ thread = "test" /\ count <= INTERVAL
    /\ thread' = "idle"
    /\ UNCHANGED <<new_tick, old_tick, count, fired, dataVars, others>>

\* mutant: begins to count again, and forgets what was left
CountFromZero ==
    /\ thread = "fire" /\ on_data["timer"] = "out"
    /\ count' = 0
    /\ thread' = "idle"
    /\ UNCHANGED <<new_tick, old_tick, fired, dataVars, others>>

SubtractInterval ==
    /\ thread = "fire" /\ on_data["timer"] = "out"
    /\ count' = count - INTERVAL
    /\ thread' = "idle"
    /\ UNCHANGED <<new_tick, old_tick, fired, dataVars, others>>

OnRepeat == Decide \/ ReadNow \/ CountDelta \/ SetOldTick \/ Due \/ NotDue \/ SubtractInterval

-----------------------------------------------------------------------------
Clock ==
    /\ time < MaxTime
    /\ time' = time + 1
    /\ UNCHANGED <<uiVars, stream, dataVars, timerVars, started, began, raced, skew>>

\* Someone, or the time service, sets the system's clock back.
SetBack ==
    /\ skew = 0 /\ time > 0
    /\ skew' = 1
    /\ UNCHANGED <<uiVars, stream, dataVars, timerVars, started, began, raced, time>>

Next ==
    \/ UI \/ RecordCallback \/ LoseMic \/ (\E s \in Source : OnData(s))
    \/ OnRepeat \/ Clock \/ SetBack

Spec == Init /\ [][Next]_vars

-----------------------------------------------------------------------------
(* Properties                                                              *)

\* VideoQueue takes the tags for consecutive and a mark for a packet that is
\* queued.  They are, however the form changes between microphone and silence,
\* but for a silent packet late from before a pause that meets the microphone.
NumberedInOrder ==
    overlapped \/
        /\ packets = [i \in 1 .. Len(packets) |-> i]
        /\ marked <= Len(packets)

\* Silence comes at the pace of the clock, and none of the time between two
\* packets is lost, however late the thread runs; a clock that is set back only
\* delays it.  But for a start() that meets the thread in on_repeat_, and a count
\* beyond an int.
AtPace ==
    (thread = "idle" /\ started /\ ~raced /\ time - began <= MaxInt) =>
        IF skew = 0
        THEN fired * INTERVAL + count = old_tick - began
        ELSE fired * INTERVAL + count \in 0 .. time - began

\* While the form records one source of sound runs, also when the microphone did
\* not open again, and none before, in a pause and after: with none no mark comes
\* and no bitmap leaves VideoQueue, with two the sound is twice as long as the
\* picture.  Only a microphone that is lost while it is open is not replaced: from
\* then to the next pause nothing runs.
Running == {s \in Source : IF s = "mic" THEN stream = "running" ELSE started}
OneSource ==
    ui = "idle" =>
        IF state = "recording"
        THEN Cardinality(Running) = (IF stream = "lost" THEN 0 ELSE 1)
        ELSE Running = {}

=============================================================================
