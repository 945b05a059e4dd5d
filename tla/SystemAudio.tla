------------------------------ MODULE SystemAudio ------------------------------
(***************************************************************************)
(* The sound of the system: SystemAudioCaptrue with SystemAudio (WASAPI),  *)
(* AudioResampling and MemoryBuffer.  A worker thread takes packets from   *)
(* the device and puts them in queue_in_; the resampling thread collects   *)
(* them in buffer_, converts chunks and puts packets in queue_out_, which  *)
(* the audio thread draws.  The UI thread starts and stops all of it.      *)
(*                                                                         *)
(* buffer_ and the resampler are used by the UI and the resampling thread  *)
(* without a lock: where their accesses overlap the process may end, or go *)
(* on as if they had come one after the other.                             *)
(***************************************************************************)
EXTENDS Integers, Sequences

CONSTANTS
    PACKET,       \* frames of a packet of the device
    CHUNK,        \* src_nb_samples: frames converted at a time
    CONVERTED,    \* frames that a converted chunk has
    FRAMES,       \* frames of a packet in queue_out_ (dst_data_size)
    QUEUE_LIMIT,  \* packets in queue_out_ above which the device's are dropped
    MaxStarts,    \* bound on the calls of start()
    MaxPackets,   \* bound on the packets of the device
    MaxFailures   \* bound on the failures of device and resampler

ASSUME SystemAudioAssumption ==
    /\ {PACKET, CHUNK, CONVERTED, FRAMES} \subseteq Nat \ {0}
    /\ {QUEUE_LIMIT, MaxStarts, MaxPackets, MaxFailures} \subseteq Nat

VARIABLES
    ui,           \* the UI thread in start(), stop() or the destructor
    session,      \* calls of start() so far; labels the sound captured
    pwfx,         \* the format of the device: never fetched, valid or freed
    client,       \* does pCaptureClient point to a client?
    worker,       \* SystemAudio::worker_ and where its thread is
    is_stoped,
    queue_in,     \* queue_in_: labels of packets
    buffer,       \* buffer_: what size_ says, and the frames it has
    format_set,   \* has AudioResampling::open() set the source format?
    swr,          \* swr_ctx: none, ready, or without a destination (dst_data)
    memory,       \* AudioResampling::memory_buffer_
    queue_out,    \* queue_out_: labels of packets
    resampler,    \* the resampling thread and the label of what it holds
    is_terminated,
    packets,      \* packets taken from the device
    failures,
    ended,        \* the process has ended
    overlapped,   \* history: unlocked accesses have overlapped
    early,        \* history: the format was read before it was set
    stale         \* history: packets drawn that were captured before start()

device == <<pwfx, client, worker, is_stoped>>
sound == <<queue_in, buffer, memory, queue_out>>
resampling == <<format_set, swr, resampler, is_terminated>>
budget == <<session, packets, failures>>
history == <<overlapped, early, stale>>
vars == <<ui, device, sound, resampling, budget, ended, history>>

Noise == 0  \* label of frames that were never written
Label == Noise .. MaxStarts
Holding(at, label) == [at |-> at, label |-> label]
Idle == Holding("idle", Noise)

Init ==
    /\ ui = "idle" /\ session = 0
    /\ pwfx = "null" /\ client = FALSE /\ worker = "none" /\ is_stoped = TRUE
    /\ queue_in = <<>> /\ queue_out = <<>>
    /\ buffer = [size |-> 0, frames |-> <<>>]
    /\ memory = [size |-> 0, frames |-> <<>>]
    /\ format_set = FALSE /\ swr = "none"
    /\ resampler = Idle /\ is_terminated = FALSE
    /\ packets = 0 /\ failures = 0
    /\ ended = FALSE
    /\ overlapped = FALSE /\ early = FALSE /\ stale = 0

(* MemoryBuffer                                                            *)

Cleared == [size |-> 0, frames |-> <<>>]

\* mutant: the new frames come before the old
WrittenInFront(b, n, label) ==
    [size |-> b.size + n, frames |-> [i \in 1 .. n |-> label] \o b.frames]

Written(b, n, label) ==
    [size |-> b.size + n, frames |-> b.frames \o [i \in 1 .. n |-> label]]

\* read(n), where n <= b.size.  To read nothing empties the queue, as every
\* Buffer in it then answers that it has nothing left, but not size_.
AfterRead(b, n) ==
    [size |-> b.size - n,
     frames |-> IF n = 0 THEN <<>> ELSE SubSeq(b.frames, n + 1, Len(b.frames))]

\* The label of what read() returns is that of its oldest frame.
Oldest(b) == IF b.frames = <<>> THEN Noise ELSE Head(b.frames)

\* An unlocked access, when the other thread is or is not inside one.
Touch(inside) ==
    IF inside
    THEN ended' \in BOOLEAN /\ overlapped' = TRUE
    ELSE UNCHANGED <<ended, overlapped>>

Fail(n) == failures + n <= MaxFailures /\ failures' = failures + n

-----------------------------------------------------------------------------
(* The UI thread: AudioCapture calls start() once for each stop() or more. *)

Start ==
    /\ ui = "idle" /\ worker = "none" /\ ~is_terminated /\ session < MaxStarts
    /\ session' = session + 1
    /\ stale' = 0
    /\ ui' = "clear buffer"
    /\ Touch(resampler.at = "buffering")
    /\ UNCHANGED <<device, sound, resampling, packets, failures, early>>

\* do_clear(): the buffer, then the queues.
ClearBuffer ==
    /\ ui = "clear buffer"
    /\ buffer' = Cleared
    /\ ui' = "clear in"
    /\ UNCHANGED <<device, queue_in, memory, queue_out, resampling, budget, ended, history>>

\* mutant: queue_in_ is left as it is
ClearInForgotten ==
    /\ ui = "clear in"
    /\ ui' = "clear out"
    /\ UNCHANGED <<device, sound, resampling, budget, ended, history>>

ClearIn ==
    /\ ui = "clear in"
    /\ queue_in' = <<>>
    /\ ui' = "clear out"
    /\ UNCHANGED <<device, buffer, memory, queue_out, resampling, budget, ended, history>>

ClearOut ==
    /\ ui = "clear out"
    /\ queue_out' = <<>>
    /\ ui' = IF is_terminated THEN "deleted" ELSE "open"
    /\ UNCHANGED <<device, queue_in, buffer, memory, resampling, budget, ended, history>>

\* The format is freed and stays in pwfx, the clients are released and forgotten.
FinValues == client' = FALSE /\ pwfx' = "freed"

\* SystemAudio::open(): the worker runs from here on.
OpenDevice ==
    /\ ui = "open"
    /\ pwfx' = "valid" /\ client' = TRUE
    /\ is_stoped' = FALSE /\ worker' = "top"
    /\ ui' = "format"
    /\ UNCHANGED <<sound, resampling, budget, ended, history>>

\* It fails before GetMixFormat: fin_values() frees what pwfx points to, which
\* it may have freed before.
OpenFailsEarly ==
    /\ ui = "open" /\ Fail(1)
    /\ IF pwfx = "freed" THEN ended' \in BOOLEAN ELSE UNCHANGED ended
    /\ ui' = "format"
    /\ UNCHANGED <<device, sound, resampling, session, packets, history>>

\* It fails after GetMixFormat: the new format is freed and stays in pwfx.
OpenFailsLate ==
    /\ ui = "open" /\ Fail(1)
    /\ pwfx' = "freed"
    /\ ui' = "format"
    /\ UNCHANGED <<client, worker, is_stoped, sound, resampling, session, packets, ended, history>>

\* getChannels() and the others, whatever open() returned; then the resampler
\* is closed and its memory_buffer_ cleared.
ReadFormat ==
    /\ ui = "format"
    /\ UNCHANGED <<device, queue_in, buffer, queue_out, resampler, is_terminated, budget, early, stale>>
    /\ \/ /\ pwfx = "null"
          /\ ended' = TRUE
          /\ UNCHANGED <<ui, format_set, swr, memory, overlapped>>
       \/ /\ pwfx # "null"
          /\ Touch(resampler.at = "converting")
          /\ format_set' = TRUE
          /\ swr' = "none"
          /\ memory' = Cleared
          /\ ui' = "resampler"

\* The rest of AudioResampling::open(): a device with more than two channels is
\* refused, and so is what a freed format may hold; when the destination cannot
\* be allocated swr_ctx stays.
OpenResampler ==
    /\ ui = "resampler"
    /\ \/ /\ swr' = "ready" /\ UNCHANGED failures
       \/ /\ swr' \in {"none", "half"} /\ Fail(1)
    /\ ui' = "idle"
    /\ UNCHANGED <<device, sound, format_set, resampler, is_terminated, session, packets, ended, history>>

\* stop(); without a worker SystemAudio::close() returns at once.
Stop ==
    /\ ui = "idle" /\ session > 0 /\ ~is_terminated
    /\ \/ /\ worker # "none"
          /\ is_stoped' = TRUE
          /\ ui' = "join"
          /\ UNCHANGED <<ended, overlapped, swr>>
       \/ /\ worker = "none" /\ swr # "none"
          /\ Touch(resampler.at = "converting")
          /\ swr' = "none"
          /\ UNCHANGED <<ui, is_stoped>>
    /\ UNCHANGED <<pwfx, client, worker, sound, format_set, resampler, is_terminated, budget, early, stale>>

\* mutant: the thread is not joined
CloseDeviceAtOnce ==
    /\ ui = "join"
    /\ FinValues
    /\ ui' = "close resampler"
    /\ UNCHANGED <<worker, is_stoped, sound, resampling, budget, ended, history>>

\* The worker is joined, the device released, and the resampler closed.
CloseDevice ==
    /\ ui = "join" /\ worker = "exited"
    /\ worker' = "none" /\ FinValues
    /\ ui' = "close resampler"
    /\ UNCHANGED <<is_stoped, sound, resampling, budget, ended, history>>

CloseResampler ==
    /\ ui = "close resampler"
    /\ Touch(resampler.at = "converting")
    /\ swr' = "none"
    /\ ui' = "idle"
    /\ UNCHANGED <<device, sound, format_set, resampler, is_terminated, budget, early, stale>>

\* The destructor, after a stop(): the thread is joined before the clearing.
Terminate ==
    /\ ui = "idle" /\ session > 0 /\ worker = "none" /\ ~is_terminated
    /\ is_terminated' = TRUE
    /\ ui' = "join thread"
    /\ UNCHANGED <<device, sound, format_set, swr, resampler, budget, ended, history>>

JoinThread ==
    /\ ui = "join thread" /\ resampler.at = "exited"
    /\ ui' = "clear buffer"
    /\ UNCHANGED <<device, sound, resampling, budget, ended, history>>

UI ==
    \/ Start \/ ClearBuffer \/ ClearIn \/ ClearOut
    \/ OpenDevice \/ OpenFailsEarly \/ OpenFailsLate \/ ReadFormat \/ OpenResampler
    \/ Stop \/ CloseDevice \/ CloseResampler \/ Terminate \/ JoinThread

-----------------------------------------------------------------------------
(* SystemAudio's worker: do_repeat() and the callback it makes.            *)

GetBuffer ==
    /\ worker = "top" /\ ~is_stoped /\ packets < MaxPackets
    /\ packets' = packets + 1
    /\ worker' = "got"
    /\ UNCHANGED <<ui, pwfx, client, is_stoped, sound, resampling, session, failures, ended, history>>

\* The packet is dropped when enough sound waits to be drawn.
TestQueue ==
    /\ worker = "got"
    /\ worker' = IF Len(queue_out) > QUEUE_LIMIT THEN "top" ELSE "push"
    /\ UNCHANGED <<ui, pwfx, client, is_stoped, sound, resampling, budget, ended, history>>

PushIn ==
    /\ worker = "push"
    /\ queue_in' = Append(queue_in, session)
    /\ worker' = "top"
    /\ UNCHANGED <<ui, pwfx, client, is_stoped, buffer, memory, queue_out, resampling, budget, ended, history>>

WorkerExit ==
    /\ worker = "top" /\ is_stoped
    /\ worker' = "exited"
    /\ UNCHANGED <<ui, pwfx, client, is_stoped, sound, resampling, budget, ended, history>>

Worker == GetBuffer \/ TestQueue \/ PushIn \/ WorkerExit

-----------------------------------------------------------------------------
(* The resampling thread.                                                  *)

Pop ==
    /\ resampler = Idle /\ ~is_terminated /\ queue_in # <<>>
    /\ resampler' = Holding("popped", Head(queue_in))
    /\ queue_in' = Tail(queue_in)
    /\ UNCHANGED <<ui, device, buffer, memory, queue_out, format_set, swr, is_terminated, budget, ended, history>>

EnterBuffer ==
    /\ resampler.at = "popped"
    /\ resampler' = [resampler EXCEPT !.at = "buffering"]
    /\ Touch(ui = "clear buffer")
    /\ UNCHANGED <<ui, device, sound, format_set, swr, is_terminated, budget, early, stale>>

\* mutant: the channels are counted twice
SourceSizeTwice == {2 * CHUNK}

\* getSrcBufferSize() before the first AudioResampling::open() multiplies what
\* happens to be in memory: nothing, too much, or less than nothing, with which
\* read() writes outside its block.
SourceSize == IF format_set THEN {CHUNK} ELSE {0, buffer.size + PACKET + 1, -1}

\* The packet is written and at most one chunk read.
WriteAndRead ==
    /\ resampler.at = "buffering"
    /\ early' = (early \/ ~format_set)
    /\ LET b == Written(buffer, PACKET, resampler.label)
       IN  \E n \in SourceSize :
             /\ ended' = (n < 0)
             /\ IF 0 <= n /\ n <= b.size
                THEN /\ buffer' = AfterRead(b, n)
                     /\ resampler' = Holding("chunk", Oldest(b))
                ELSE /\ buffer' = b
                     /\ resampler' = Idle
    /\ UNCHANGED <<ui, device, queue_in, memory, queue_out, format_set, swr, is_terminated, budget, overlapped, stale>>

\* execute() returns at once when the resampler is closed.
EnterExecute ==
    /\ resampler.at = "chunk"
    /\ resampler' = IF swr = "none" THEN Idle ELSE [resampler EXCEPT !.at = "converting"]
    /\ UNCHANGED <<ui, device, sound, format_set, swr, is_terminated, budget, ended, history>>

Convert ==
    /\ resampler.at = "converting"
    /\ LET m == Written(memory, CONVERTED, resampler.label)
       IN  \/ /\ m.size < FRAMES
              /\ memory' = m
              /\ resampler' = Idle
           \/ /\ m.size >= FRAMES
              /\ memory' = AfterRead(m, FRAMES)
              /\ resampler' = Holding("pushing", Oldest(m))
    /\ IF swr = "half" THEN ended' \in BOOLEAN ELSE UNCHANGED ended
    /\ UNCHANGED <<ui, device, queue_in, buffer, queue_out, format_set, swr, is_terminated, budget, history>>

ConvertFails ==
    /\ resampler.at = "converting" /\ Fail(1)
    /\ resampler' = Idle
    /\ UNCHANGED <<ui, device, sound, format_set, swr, is_terminated, session, packets, ended, history>>

PushOut ==
    /\ resampler.at = "pushing"
    /\ queue_out' = Append(queue_out, resampler.label)
    /\ resampler' = Idle
    /\ UNCHANGED <<ui, device, queue_in, buffer, memory, format_set, swr, is_terminated, budget, ended, history>>

ResamplerExit ==
    /\ resampler = Idle /\ is_terminated
    /\ resampler' = Holding("exited", Noise)
    /\ UNCHANGED <<ui, device, sound, format_set, swr, is_terminated, budget, ended, history>>

Resampler ==
    \/ Pop \/ EnterBuffer \/ WriteAndRead \/ EnterExecute
    \/ Convert \/ ConvertFails \/ PushOut \/ ResamplerExit

-----------------------------------------------------------------------------
\* The audio thread: getAudioData().
Draw ==
    /\ queue_out # <<>> /\ ui # "deleted"
    /\ queue_out' = Tail(queue_out)
    /\ stale' = IF Head(queue_out) < session /\ ui \in {"open", "format", "resampler", "idle"} THEN stale + 1 ELSE stale
    /\ UNCHANGED <<ui, device, queue_in, buffer, memory, resampling, budget, ended, overlapped, early>>

Next == ~ended /\ (UI \/ Worker \/ Resampler \/ Draw)

Spec == Init /\ [][Next]_vars

-----------------------------------------------------------------------------
(* Properties                                                              *)

\* Every variable has its type; what is kept of the sound are labels.
At(places) == [at : places, label : Label]
Frames == [size : Nat, frames : Seq(Label)]

TypeOK ==
    /\ ui \in {"idle", "clear buffer", "clear in", "clear out", "open", "format",
              "resampler", "join", "close resampler", "join thread", "deleted"}
    /\ session \in 0 .. MaxStarts
    /\ pwfx \in {"null", "valid", "freed"} /\ client \in BOOLEAN
    /\ worker \in {"none", "top", "got", "push", "exited"} /\ is_stoped \in BOOLEAN
    /\ queue_in \in Seq(Label) /\ queue_out \in Seq(Label)
    /\ buffer \in Frames /\ memory \in Frames
    /\ format_set \in BOOLEAN /\ swr \in {"none", "ready", "half"}
    /\ resampler \in At({"idle", "popped", "buffering", "chunk", "converting", "pushing", "exited"})
    /\ is_terminated \in BOOLEAN
    /\ packets \in Nat /\ failures \in Nat /\ stale \in Nat
    /\ {ended, overlapped, early} \subseteq BOOLEAN

\* As long as the worker's thread may call do_repeat() the capture client and
\* the format it reads are there, although stop() releases and frees both
\* and a failed open() leaves a dangling format behind.
WorkerHoldsClient ==
    worker # "none" => client /\ pwfx = "valid" /\ (worker = "exited" => is_stoped)

\* The resampler keeps up: at most a chunk waits in buffer_ and at most a
\* packet in memory_buffer_, although a round reads only one of each.  It
\* needs packets no longer than a chunk, a device not slower than 44100 Hz,
\* and a format that was set before the first packet.
BacklogBounded ==
    /\ ~early /\ PACKET <= CHUNK => buffer.size < CHUNK
    /\ CONVERTED <= FRAMES => memory.size < FRAMES

\* Sound keeps its order on the way through five buffers and two threads, and
\* what was captured in one recording never follows what was in the next.
Held(places) == IF resampler.at \in places THEN <<resampler.label>> ELSE <<>>

SoundInOrder ==
    LET way == queue_out \o Held({"pushing"}) \o memory.frames \o Held({"chunk", "converting"})
               \o buffer.frames \o Held({"popped", "buffering"}) \o queue_in
    IN  ~early => /\ \A i, j \in 1 .. Len(way) : i < j => way[i] <= way[j]
                  /\ buffer.size = Len(buffer.frames) /\ memory.size = Len(memory.frames)

\* Of the sound of earlier recordings at most two packets are drawn in the next:
\* of what the resampler takes from queue_in_ between the clearing of buffer_
\* and of queue_in_, the chunk in its hands and less than a chunk in buffer_.
\* It takes a resampler that keeps up: see BacklogBounded.
OldSoundBounded ==
    ~overlapped /\ ~early /\ PACKET <= CHUNK /\ CONVERTED <= FRAMES => stale <= 2

=============================================================================
