--------------------------- MODULE SystemAudioProofs ---------------------------
(***************************************************************************)
(* Theorems about SystemAudio, for any sizes of packets and chunks and any *)
(* number of starts, packets and failures.                                 *)
(***************************************************************************)
EXTENDS SystemAudio, SequenceTheorems, TLAPS

\* The device is opened, and the threads are ended, only where no worker runs.
NoWorkerYet ==
    ui \in {"clear buffer", "clear in", "clear out", "open", "join thread", "deleted"} => worker = "none"

AudioInv == TypeOK /\ NoWorkerYet /\ WorkerHoldsClient /\ BacklogBounded
-------------------------------------------------------------------------------
(* Types                                                                   *)

LEMMA Sizes ==
    /\ PACKET \in Nat \ {0} /\ CHUNK \in Nat \ {0} /\ CONVERTED \in Nat \ {0} /\ FRAMES \in Nat \ {0}
    /\ QUEUE_LIMIT \in Nat /\ MaxStarts \in Nat /\ MaxPackets \in Nat /\ MaxFailures \in Nat
BY SystemAudioAssumption

LEMMA Labels ==
    /\ Noise \in Label /\ \A s \in 0 .. MaxStarts : s \in Label
    /\ <<>> \in Seq(Label) /\ Cleared \in Frames
<1>1. Noise \in Label /\ \A s \in 0 .. MaxStarts : s \in Label
    BY Sizes DEF Noise, Label
<1>2. <<>> \in Seq(Label)
    OBVIOUS
<1> QED
    BY <1>1, <1>2 DEF Cleared, Frames

\* TypeOK in parts: where the threads are, what they share, and the counters.
Places ==
    /\ ui \in {"idle", "clear buffer", "clear in", "clear out", "open", "format",
              "resampler", "join", "close resampler", "join thread", "deleted"}
    /\ worker \in {"none", "top", "got", "push", "exited"}
    /\ resampler \in At({"idle", "popped", "buffering", "chunk", "converting", "pushing", "exited"})
Device ==
    /\ pwfx \in {"null", "valid", "freed"} /\ client \in BOOLEAN /\ is_stoped \in BOOLEAN
    /\ format_set \in BOOLEAN /\ swr \in {"none", "ready", "half"} /\ is_terminated \in BOOLEAN
Sound == queue_in \in Seq(Label) /\ queue_out \in Seq(Label) /\ buffer \in Frames /\ memory \in Frames
Counters == session \in 0 .. MaxStarts /\ packets \in Nat /\ failures \in Nat /\ stale \in Nat
Flags == ended \in BOOLEAN /\ overlapped \in BOOLEAN /\ early \in BOOLEAN

LEMMA TypeParts == TypeOK <=> Places /\ Device /\ Sound /\ Counters /\ Flags
BY DEF TypeOK, Places, Device, Sound, Counters, Flags

LEMMA TypePartsNext == TypeOK' <=> Places' /\ Device' /\ Sound' /\ Counters' /\ Flags'
BY DEF TypeOK, Places, Device, Sound, Counters, Flags

LEMMA HoldingType ==
    ASSUME NEW places, NEW at \in places, NEW label \in Label
    PROVE  Holding(at, label) \in At(places)
BY DEF Holding, At

\* What MemoryBuffer does keeps its type, and read() takes what it is asked for.
LEMMA WrittenType ==
    ASSUME NEW b \in Frames, NEW n \in Nat, NEW label \in Label
    PROVE  Written(b, n, label) \in Frames /\ Written(b, n, label).size = b.size + n
<1>1. b.frames \in Seq(Label) /\ b.size \in Nat
    BY DEF Frames
<1>2. [i \in 1 .. n |-> label] \in Seq(Label)
    OBVIOUS
<1>3. b.frames \o [i \in 1 .. n |-> label] \in Seq(Label)
    BY <1>1, <1>2, ConcatProperties
<1> QED
    BY <1>1, <1>3 DEF Written, Frames

LEMMA ReadType ==
    ASSUME NEW b \in Frames, NEW n \in Nat, n <= b.size
    PROVE  AfterRead(b, n) \in Frames /\ AfterRead(b, n).size = b.size - n
<1>1. b.frames \in Seq(Label) /\ b.size \in Nat
    BY DEF Frames
<1>2. b.size - n \in Nat
    BY <1>1
<1>3. (IF n = 0 THEN <<>> ELSE SubSeq(b.frames, n + 1, Len(b.frames))) \in Seq(Label)
    <2>1. \A i \in n + 1 .. Len(b.frames) : b.frames[i] \in Label
        BY <1>1
    <2>2. SubSeq(b.frames, n + 1, Len(b.frames)) \in Seq(Label)
        BY <1>1, <2>1, SubSeqProperties
    <2> QED
        BY <2>2
<1> QED
    BY <1>2, <1>3 DEF AfterRead, Frames

LEMMA OldestType == \A b \in Frames : Oldest(b) \in Label
<1> TAKE b \in Frames
<1>1. b.frames \in Seq(Label)
    BY DEF Frames
<1>2. b.frames # <<>> => Head(b.frames) \in Label
    BY <1>1
<1> QED
    BY <1>2, Labels DEF Oldest

LEMMA InitAudio == Init => AudioInv
<1> SUFFICES ASSUME Init PROVE AudioInv
    OBVIOUS
<1>1. Places
    BY Labels, HoldingType DEF Init, Places, Idle
<1>2. Device /\ Flags
    BY DEF Init, Device, Flags
<1>3. Sound
    BY Labels DEF Init, Sound, Cleared
<1>4. Counters
    BY Sizes DEF Init, Counters
<1>5. NoWorkerYet /\ WorkerHoldsClient
    BY DEF Init, NoWorkerYet, WorkerHoldsClient
<1>6. BacklogBounded
    <2>1. buffer.size = 0 /\ memory.size = 0
        BY DEF Init
    <2> QED
        BY <2>1, Sizes DEF BacklogBounded
<1> QED
    BY <1>1, <1>2, <1>3, <1>4, <1>5, <1>6, TypeParts DEF AudioInv

-------------------------------------------------------------------------------
(* Each action keeps them.                                                 *)

LEMMA UISteps == AudioInv /\ UI => AudioInv'
<1> SUFFICES ASSUME AudioInv, UI PROVE AudioInv'
    OBVIOUS
<1>i. Places /\ Device /\ Sound /\ Counters /\ Flags
    BY TypeParts DEF AudioInv
<1>1. Places'
    BY <1>i DEF Start, ClearBuffer, ClearIn, ClearOut, OpenDevice, OpenFailsEarly, OpenFailsLate,
                ReadFormat, OpenResampler, Stop, CloseDevice, CloseResampler, Terminate, JoinThread, Touch,
                Fail, FinValues, device, sound, resampling, budget, history, UI, Places
<1>2. Device'
    BY <1>i DEF Start, ClearBuffer, ClearIn, ClearOut, OpenDevice, OpenFailsEarly, OpenFailsLate,
                ReadFormat, OpenResampler, Stop, CloseDevice, CloseResampler, Terminate, JoinThread, Touch,
                Fail, FinValues, device, sound, resampling, budget, history, UI, Device
<1>3. Sound'
    <2>1. UNCHANGED queue_in \/ queue_in' = <<>>
        BY DEF Start, ClearBuffer, ClearIn, ClearOut, OpenDevice, OpenFailsEarly, OpenFailsLate,
               ReadFormat, OpenResampler, Stop, CloseDevice, CloseResampler, Terminate, JoinThread, Touch,
               Fail, FinValues, device, sound, resampling, budget, history, UI
    <2>2. UNCHANGED queue_out \/ queue_out' = <<>>
        BY DEF Start, ClearBuffer, ClearIn, ClearOut, OpenDevice, OpenFailsEarly, OpenFailsLate,
               ReadFormat, OpenResampler, Stop, CloseDevice, CloseResampler, Terminate, JoinThread, Touch,
               Fail, FinValues, device, sound, resampling, budget, history, UI
    <2>3. (UNCHANGED buffer \/ buffer' = Cleared) /\ (UNCHANGED memory \/ memory' = Cleared)
        BY DEF Start, ClearBuffer, ClearIn, ClearOut, OpenDevice, OpenFailsEarly, OpenFailsLate,
               ReadFormat, OpenResampler, Stop, CloseDevice, CloseResampler, Terminate, JoinThread, Touch,
               Fail, FinValues, device, sound, resampling, budget, history, UI
    <2> QED
        BY <1>i, <2>1, <2>2, <2>3, Labels DEF Sound
<1>4. Counters'
    <2>1. (UNCHANGED session \/ (session < MaxStarts /\ session' = session + 1)) /\ UNCHANGED packets
        BY DEF Start, ClearBuffer, ClearIn, ClearOut, OpenDevice, OpenFailsEarly, OpenFailsLate,
               ReadFormat, OpenResampler, Stop, CloseDevice, CloseResampler, Terminate, JoinThread, Touch,
               Fail, FinValues, device, sound, resampling, budget, history, UI
    <2>2. stale' \in {stale, 0} /\ failures' \in {failures, failures + 1}
        BY DEF Start, ClearBuffer, ClearIn, ClearOut, OpenDevice, OpenFailsEarly, OpenFailsLate,
               ReadFormat, OpenResampler, Stop, CloseDevice, CloseResampler, Terminate, JoinThread, Touch,
               Fail, FinValues, device, sound, resampling, budget, history, UI
    <2> QED
        BY <1>i, <2>1, <2>2, Sizes DEF Counters
<1>5. Flags'
    BY <1>i DEF Start, ClearBuffer, ClearIn, ClearOut, OpenDevice, OpenFailsEarly, OpenFailsLate,
                ReadFormat, OpenResampler, Stop, CloseDevice, CloseResampler, Terminate, JoinThread, Touch,
                Fail, FinValues, device, sound, resampling, budget, history, UI, Flags
<1>6. NoWorkerYet'
    BY DEF Start, ClearBuffer, ClearIn, ClearOut, OpenDevice, OpenFailsEarly, OpenFailsLate, ReadFormat,
           OpenResampler, Stop, CloseDevice, CloseResampler, Terminate, JoinThread, Touch, Fail, FinValues,
           device, sound, resampling, budget, history, UI, NoWorkerYet, AudioInv
<1>7. WorkerHoldsClient'
    BY DEF Start, ClearBuffer, ClearIn, ClearOut, OpenDevice, OpenFailsEarly, OpenFailsLate, ReadFormat,
           OpenResampler, Stop, CloseDevice, CloseResampler, Terminate, JoinThread, Touch, Fail, FinValues,
           device, sound, resampling, budget, history, UI, NoWorkerYet, AudioInv, WorkerHoldsClient
<1>8. BacklogBounded'
    <2>1. UNCHANGED early /\ (UNCHANGED buffer \/ buffer' = Cleared) /\ (UNCHANGED memory \/ memory' = Cleared)
        BY DEF Start, ClearBuffer, ClearIn, ClearOut, OpenDevice, OpenFailsEarly, OpenFailsLate,
               ReadFormat, OpenResampler, Stop, CloseDevice, CloseResampler, Terminate, JoinThread, Touch,
               Fail, FinValues, device, sound, resampling, budget, history, UI
    <2>2. Cleared.size = 0
        BY DEF Cleared
    <2> QED
        BY <2>1, <2>2, Sizes DEF BacklogBounded, AudioInv
<1> QED
    BY <1>1, <1>2, <1>3, <1>4, <1>5, <1>6, <1>7, <1>8, TypePartsNext DEF AudioInv

LEMMA WorkerSteps == AudioInv /\ (Worker \/ Draw) => AudioInv'
<1> SUFFICES ASSUME AudioInv, Worker \/ Draw PROVE AudioInv'
    OBVIOUS
<1>i. Places /\ Device /\ Sound /\ Counters /\ Flags
    BY TypeParts DEF AudioInv
<1> USE DEF Worker, device, sound, resampling, budget, history
<1>1. Places' /\ Device' /\ Flags'
    <2>1. Places'
        BY <1>i DEF GetBuffer, TestQueue, PushIn, WorkerExit, Draw, Places
    <2>2. Device'
        BY <1>i DEF GetBuffer, TestQueue, PushIn, WorkerExit, Draw, Device
    <2>3. Flags'
        BY <1>i DEF GetBuffer, TestQueue, PushIn, WorkerExit, Draw, Flags
    <2> QED
        BY <2>1, <2>2, <2>3
<1>2. UNCHANGED <<ui, buffer, memory, early, session, failures>>
    BY DEF GetBuffer, TestQueue, PushIn, WorkerExit, Draw
<1>3. Sound'
    <2>1. CASE UNCHANGED <<queue_in, queue_out>>
        BY <1>i, <1>2, <2>1 DEF Sound
    <2>2. CASE PushIn
        <3>1. session \in Label /\ queue_in \in Seq(Label)
            BY <1>i, Labels DEF Counters, Sound
        <3>2. queue_in' = Append(queue_in, session) /\ UNCHANGED queue_out
            BY <2>2 DEF PushIn
        <3>3. queue_in' \in Seq(Label)
            BY <3>1, <3>2
        <3> QED
            BY <1>i, <1>2, <3>2, <3>3 DEF Sound
    <2>3. CASE Draw
        <3>1. queue_out \in Seq(Label) /\ queue_out # <<>> /\ queue_out' = Tail(queue_out) /\ UNCHANGED queue_in
            BY <1>i, <2>3 DEF Draw, Sound
        <3>2. queue_out' \in Seq(Label)
            BY <3>1
        <3> QED
            BY <1>i, <1>2, <3>1, <3>2 DEF Sound
    <2> QED
        BY <2>1, <2>2, <2>3 DEF GetBuffer, TestQueue, WorkerExit
<1>4. Counters'
    <2>1. packets' \in {packets, packets + 1} /\ stale' \in {stale, stale + 1}
        BY DEF GetBuffer, TestQueue, PushIn, WorkerExit, Draw
    <2> QED
        BY <1>i, <1>2, <2>1 DEF Counters
<1>5. NoWorkerYet' /\ WorkerHoldsClient'
    BY DEF GetBuffer, TestQueue, PushIn, WorkerExit, Draw, NoWorkerYet, WorkerHoldsClient, AudioInv
<1>6. BacklogBounded'
    BY <1>2 DEF BacklogBounded, AudioInv
<1> QED
    BY <1>1, <1>3, <1>4, <1>5, <1>6, TypePartsNext DEF AudioInv

LEMMA ResamplerSteps == AudioInv /\ Resampler => AudioInv'
<1> SUFFICES ASSUME AudioInv, Resampler PROVE AudioInv'
    OBVIOUS
<1>i. Places /\ Device /\ Sound /\ Counters /\ Flags
    BY TypeParts DEF AudioInv
<1>l. resampler.label \in Label /\ buffer \in Frames /\ memory \in Frames /\ Idle.label \in Label
    BY <1>i, Labels DEF Places, Sound, At, Idle, Holding
<1> DEFINE P == {"idle", "popped", "buffering", "chunk", "converting", "pushing", "exited"}
<1>h. ASSUME NEW at \in P, NEW label \in Label PROVE Holding(at, label) \in At(P)
    BY HoldingType
<1>x. ASSUME NEW at \in P PROVE [resampler EXCEPT !.at = at] \in At(P)
    BY <1>i DEF Places, At
<1>d. Idle \in At(P)
    BY <1>h, Labels DEF Idle
<1>u. UNCHANGED <<ui, worker, pwfx, client, is_stoped, format_set, swr, is_terminated, session, packets, stale>>
    BY DEF Pop, EnterBuffer, WriteAndRead, EnterExecute, Convert, ConvertFails, PushOut, ResamplerExit,
           Resampler, device, budget, history
<1>1. Device' /\ NoWorkerYet' /\ WorkerHoldsClient'
    BY <1>i, <1>u DEF Device, NoWorkerYet, WorkerHoldsClient, AudioInv
<1>2. Counters'
    <2>1. failures' \in {failures, failures + 1}
        BY DEF Pop, EnterBuffer, WriteAndRead, EnterExecute, Convert, ConvertFails, PushOut, ResamplerExit,
               Resampler, Fail, budget
    <2> QED
        BY <1>i, <1>u, <2>1 DEF Counters
<1>3. Flags'
    <2>1. CASE WriteAndRead
        <3>1. early' = (early \/ ~format_set) /\ UNCHANGED overlapped /\ \E n \in SourceSize : ended' = (n < 0)
            BY <2>1 DEF WriteAndRead
        <3> QED
            BY <1>i, <3>1 DEF Flags
    <2>2. CASE EnterBuffer
        BY <1>i, <2>2 DEF EnterBuffer, Touch, Flags
    <2>3. CASE Convert
        <3>1. UNCHANGED <<overlapped, early>> /\ (ended' \in BOOLEAN \/ UNCHANGED ended)
            BY <2>3 DEF Convert, history
        <3> QED
            BY <1>i, <3>1 DEF Flags
    <2>4. CASE Pop \/ EnterExecute \/ ConvertFails \/ PushOut \/ ResamplerExit
        BY <1>i, <2>4 DEF Pop, EnterExecute, ConvertFails, PushOut, ResamplerExit, Flags, history
    <2> QED
        BY <2>1, <2>2, <2>3, <2>4 DEF Resampler
<1>q. ASSUME Places', Sound', BacklogBounded' PROVE AudioInv'
    BY <1>1, <1>2, <1>3, <1>q, TypePartsNext DEF AudioInv
<1>p. ASSUME resampler' \in At(P) PROVE Places'
    BY <1>i, <1>u, <1>p DEF Places
<1>b. ASSUME UNCHANGED <<buffer, memory, early>> PROVE BacklogBounded'
    BY <1>b DEF BacklogBounded, AudioInv
<1>s. ASSUME UNCHANGED sound PROVE Sound'
    BY <1>i, <1>s DEF sound, Sound
<1> HIDE DEF P
<1>in. "idle" \in P /\ "popped" \in P /\ "buffering" \in P /\ "chunk" \in P /\ "converting" \in P /\ "pushing" \in P
      /\ "exited" \in P
    BY DEF P
<1>4. CASE Pop
    <2>1. /\ queue_in # <<>> /\ queue_in' = Tail(queue_in) /\ resampler' = Holding("popped", Head(queue_in))
          /\ UNCHANGED <<buffer, memory, queue_out, early>>
        BY <1>4 DEF Pop, history
    <2>2. queue_in' \in Seq(Label) /\ Head(queue_in) \in Label
        BY <1>i, <2>1 DEF Sound
    <2>3. Sound' /\ Places'
        BY <1>h, <1>i, <1>in, <1>p, <2>1, <2>2 DEF Sound
    <2> QED
        BY <1>b, <1>q, <2>1, <2>3
<1>5. CASE EnterBuffer \/ EnterExecute \/ ConvertFails \/ ResamplerExit
    <2>1. UNCHANGED <<sound, buffer, memory, early>>
        BY <1>5 DEF EnterBuffer, EnterExecute, ConvertFails, ResamplerExit, sound, history
    <2>2. Holding("exited", Noise) \in At(P)
        BY <1>h, <1>in, Labels
    <2>3. resampler' \in At(P)
        BY <1>5, <1>d, <1>in, <1>x, <2>2 DEF EnterBuffer, EnterExecute, ConvertFails, ResamplerExit
    <2> QED
        BY <1>b, <1>p, <1>q, <1>s, <2>1, <2>3
<1>6. CASE WriteAndRead
    <2> DEFINE b == Written(buffer, PACKET, resampler.label)
    <2>1. b \in Frames /\ b.size = buffer.size + PACKET
        BY <1>l, Sizes, WrittenType
    <2>2. UNCHANGED <<queue_in, memory, queue_out>> /\ early' = (early \/ ~format_set)
        BY <1>6 DEF WriteAndRead
    <2>3. PICK n \in SourceSize :
            /\ ended' = (n < 0)
            /\ IF 0 <= n /\ n <= b.size
               THEN buffer' = AfterRead(b, n) /\ resampler' = Holding("chunk", Oldest(b))
               ELSE buffer' = b /\ resampler' = Idle
        BY <1>6 DEF WriteAndRead
    <2> HIDE DEF b
    <2>4. n \in Int /\ (format_set => n = CHUNK)
        <3>1. SourceSize = IF format_set THEN {CHUNK} ELSE {0, buffer.size + PACKET + 1, -1}
            BY DEF SourceSize
        <3>2. buffer.size \in Nat
            BY <1>l DEF Frames
        <3> QED
            BY <2>3, <3>1, <3>2, Sizes
    <2>5. b.size \in Nat /\ buffer.size \in Nat
        BY <1>l, <2>1 DEF Frames
    <2>6. CASE 0 <= n /\ n <= b.size
        <3>1. n \in Nat /\ buffer' = AfterRead(b, n) /\ resampler' = Holding("chunk", Oldest(b))
            BY <2>3, <2>4, <2>6
        <3>2. buffer' \in Frames /\ buffer'.size = b.size - n
            BY <2>1, <2>6, <3>1, ReadType
        <3>3. Oldest(b) \in Label
            BY <2>1, OldestType
        <3>4. Places' /\ Sound'
            BY <1>h, <1>i, <1>in, <1>p, <2>2, <3>1, <3>2, <3>3 DEF Sound
        <3>5. BacklogBounded'
            <4>1. ASSUME ~early', PACKET <= CHUNK PROVE buffer'.size < CHUNK
                <5>1. buffer.size < CHUNK /\ n = CHUNK
                    BY <1>i, <2>2, <2>4, <4>1 DEF BacklogBounded, AudioInv
                <5> QED
                    BY <2>1, <2>5, <3>2, <4>1, <5>1, Sizes
            <4> QED
                BY <2>2, <4>1 DEF BacklogBounded, AudioInv
        <3> QED
            BY <1>q, <3>4, <3>5
    <2>7. CASE ~(0 <= n /\ n <= b.size)
        <3>1. buffer' = b /\ resampler' = Idle
            BY <2>3, <2>7
        <3>2. Places' /\ Sound'
            BY <1>d, <1>i, <1>p, <2>1, <2>2, <3>1 DEF Sound
        <3>3. BacklogBounded'
            <4>1. ASSUME ~early', PACKET <= CHUNK PROVE buffer'.size < CHUNK
                <5>1. n = CHUNK
                    BY <2>2, <2>4, <4>1
                <5> QED
                    BY <2>5, <2>7, <3>1, <5>1, Sizes
            <4> QED
                BY <2>2, <4>1 DEF BacklogBounded, AudioInv
        <3> QED
            BY <1>q, <3>2, <3>3
    <2> QED
        BY <2>6, <2>7
<1>7. CASE Convert
    <2> DEFINE m == Written(memory, CONVERTED, resampler.label)
    <2>1. m \in Frames /\ m.size = memory.size + CONVERTED
        BY <1>l, Sizes, WrittenType
    <2>2. UNCHANGED <<queue_in, buffer, queue_out, early>>
        BY <1>7 DEF Convert, history
    <2>3. \/ m.size < FRAMES /\ memory' = m /\ resampler' = Idle
          \/ m.size >= FRAMES /\ memory' = AfterRead(m, FRAMES) /\ resampler' = Holding("pushing", Oldest(m))
        BY <1>7 DEF Convert
    <2> HIDE DEF m
    <2>4. m.size \in Nat /\ memory.size \in Nat
        BY <1>l, <2>1 DEF Frames
    <2>5. CASE m.size < FRAMES /\ memory' = m /\ resampler' = Idle
        <3>1. Places' /\ Sound'
            BY <1>d, <1>i, <1>p, <2>1, <2>2, <2>5 DEF Sound
        <3>2. BacklogBounded'
            BY <2>2, <2>5 DEF BacklogBounded, AudioInv
        <3> QED
            BY <1>q, <3>1, <3>2
    <2>6. CASE m.size >= FRAMES /\ memory' = AfterRead(m, FRAMES) /\ resampler' = Holding("pushing", Oldest(m))
        <3>1. memory' \in Frames /\ memory'.size = m.size - FRAMES
            BY <2>1, <2>4, <2>6, ReadType, Sizes
        <3>2. Oldest(m) \in Label
            BY <2>1, OldestType
        <3>3. Places' /\ Sound'
            BY <1>h, <1>i, <1>in, <1>p, <2>2, <2>6, <3>1, <3>2 DEF Sound
        <3>4. CONVERTED <= FRAMES => memory'.size < FRAMES
            BY <2>1, <2>4, <3>1, Sizes DEF BacklogBounded, AudioInv
        <3>5. BacklogBounded'
            BY <2>2, <3>4 DEF BacklogBounded, AudioInv
        <3> QED
            BY <1>q, <3>3, <3>5
    <2> QED
        BY <2>3, <2>5, <2>6
<1>8. CASE PushOut
    <2>1. /\ queue_out' = Append(queue_out, resampler.label) /\ resampler' = Idle
          /\ UNCHANGED <<queue_in, buffer, memory, early>>
        BY <1>8 DEF PushOut, history
    <2>2. queue_out' \in Seq(Label)
        BY <1>i, <1>l, <2>1 DEF Sound
    <2>3. Sound' /\ Places'
        BY <1>d, <1>i, <1>p, <2>1, <2>2 DEF Sound
    <2> QED
        BY <1>b, <1>q, <2>1, <2>3
<1> QED
    BY <1>4, <1>5, <1>6, <1>7, <1>8 DEF Resampler
-------------------------------------------------------------------------------
(* The theorems                                                            *)

\* The types, the life of the worker and the bounds of the buffers together.
THEOREM AudioInvariant == Spec => []AudioInv
<1>1. Init => AudioInv
    BY InitAudio
<1>2. AudioInv /\ [Next]_vars => AudioInv'
    <2>1. AudioInv /\ Next => AudioInv'
        BY UISteps, WorkerSteps, ResamplerSteps DEF Next
    <2>2. AudioInv /\ UNCHANGED vars => AudioInv'
        <3> SUFFICES ASSUME AudioInv, UNCHANGED vars PROVE AudioInv'
            OBVIOUS
        <3> USE DEF vars, device, sound, resampling, budget, history
        <3>0. Places /\ Device /\ Sound /\ Counters /\ Flags
            BY TypeParts DEF AudioInv
        <3>1. Places' /\ Device' /\ Sound' /\ Counters' /\ Flags'
            <4>1. Places'
                BY <3>0 DEF Places
            <4>2. Device'
                BY <3>0 DEF Device
            <4>3. Sound'
                BY <3>0 DEF Sound
            <4>4. Counters'
                BY <3>0 DEF Counters
            <4>5. Flags'
                BY <3>0 DEF Flags
            <4> QED
                BY <4>1, <4>2, <4>3, <4>4, <4>5
        <3>2. NoWorkerYet' /\ WorkerHoldsClient' /\ BacklogBounded'
            BY DEF AudioInv, NoWorkerYet, WorkerHoldsClient, BacklogBounded
        <3> QED
            BY <3>1, <3>2, TypePartsNext DEF AudioInv
    <2> QED
        BY <2>1, <2>2
<1> QED
    BY <1>1, <1>2, PTL DEF Spec

\* Every variable keeps its type; the sizes of the two buffers never go below
\* zero, whatever read() is asked for.
THEOREM AudioTypes == Spec => []TypeOK
<1>1. AudioInv => TypeOK
    BY DEF AudioInv
<1> QED
    BY <1>1, AudioInvariant, PTL

\* The worker of SystemAudio never runs without a client and a valid format.
THEOREM ClientForWorker == Spec => []WorkerHoldsClient
<1>1. AudioInv => WorkerHoldsClient
    BY DEF AudioInv
<1> QED
    BY <1>1, AudioInvariant, PTL

\* The resampler keeps up with the device, for all sizes that allow it.
THEOREM BacklogStaysBounded == Spec => []BacklogBounded
<1>1. AudioInv => BacklogBounded
    BY DEF AudioInv
<1> QED
    BY <1>1, AudioInvariant, PTL

-------------------------------------------------------------------------------
(* The order of the sound                                                  *)

\* Labels that rise from lo to hi at most.
Rising(s, lo, hi) ==
    /\ \A i \in 1 .. Len(s) : lo <= s[i] /\ s[i] <= hi
    /\ \A i, j \in 1 .. Len(s) : i < j => s[i] <= s[j]

LEMMA LabelIsNat == \A l \in Label : l \in Nat
BY Sizes DEF Label, Noise

LEMMA RisingEmpty == \A lo, hi : Rising(<<>>, lo, hi)
BY DEF Rising

LEMMA RisingWider ==
    ASSUME NEW s \in Seq(Label), NEW lo \in Nat, NEW hi \in Nat, Rising(s, lo, hi),
           NEW low \in Nat, NEW high \in Nat, low <= lo, hi <= high
    PROVE  Rising(s, low, high)
<1>1. \A i \in 1 .. Len(s) : s[i] \in Nat
    BY LabelIsNat, ElementOfSeq
<1> QED
    BY <1>1 DEF Rising

LEMMA RisingConcat ==
    ASSUME NEW s \in Seq(Label), NEW t \in Seq(Label), NEW lo \in Nat, NEW mid \in Nat, NEW hi \in Nat,
           lo <= mid, mid <= hi, Rising(s, lo, mid), Rising(t, mid, hi)
    PROVE  s \o t \in Seq(Label) /\ Rising(s \o t, lo, hi)
<1>1. PICK u \in Seq(Label) :
          /\ u = s \o t /\ Len(u) = Len(s) + Len(t)
          /\ \A i \in 1 .. Len(s) + Len(t) : u[i] = IF i <= Len(s) THEN s[i] ELSE t[i - Len(s)]
    <2>1. /\ s \o t \in Seq(Label) /\ Len(s \o t) = Len(s) + Len(t)
          /\ \A i \in 1 .. Len(s) + Len(t) :
                (s \o t)[i] = IF i <= Len(s) THEN s[i] ELSE t[i - Len(s)]
        BY ConcatProperties
    <2> QED
        BY <2>1
<1>2. Len(s) \in Nat /\ Len(t) \in Nat
    BY LenProperties
<1>3. \A i \in 1 .. Len(s) : s[i] \in Nat
    BY LabelIsNat, ElementOfSeq
<1>4. \A i \in 1 .. Len(t) : t[i] \in Nat
    BY LabelIsNat, ElementOfSeq
<1>5. ASSUME NEW i \in 1 .. Len(u)
      PROVE  \/ i \in 1 .. Len(s) /\ u[i] = s[i]
             \/ i > Len(s) /\ i - Len(s) \in 1 .. Len(t) /\ u[i] = t[i - Len(s)]
    BY <1>1, <1>2
<1>6. ASSUME NEW i \in 1 .. Len(u) PROVE lo <= u[i] /\ u[i] <= hi
    <2>1. CASE i \in 1 .. Len(s) /\ u[i] = s[i]
        <3>1. u[i] \in Nat /\ lo <= u[i] /\ u[i] <= mid
            BY <1>3, <2>1 DEF Rising
        <3> QED
            BY <3>1
    <2>2. CASE i - Len(s) \in 1 .. Len(t) /\ u[i] = t[i - Len(s)]
        <3>1. u[i] \in Nat /\ mid <= u[i] /\ u[i] <= hi
            BY <1>4, <2>2 DEF Rising
        <3> QED
            BY <3>1
    <2> QED
        BY <1>5, <2>1, <2>2
<1>7. ASSUME NEW i \in 1 .. Len(u), NEW j \in 1 .. Len(u), i < j PROVE u[i] <= u[j]
    <2>1. CASE j \in 1 .. Len(s) /\ u[j] = s[j]
        <3>1. i \in 1 .. Len(s) /\ u[i] = s[i]
            BY <1>1, <1>2, <1>5, <1>7, <2>1
        <3> QED
            BY <1>7, <2>1, <3>1 DEF Rising
    <2>2. CASE j > Len(s) /\ j - Len(s) \in 1 .. Len(t) /\ u[j] = t[j - Len(s)]
        <3>1. CASE i \in 1 .. Len(s) /\ u[i] = s[i]
            <4>1. u[i] \in Nat /\ u[i] <= mid
                BY <1>3, <3>1 DEF Rising
            <4>2. u[j] \in Nat /\ mid <= u[j]
                BY <1>4, <2>2 DEF Rising
            <4> QED
                BY <4>1, <4>2
        <3>2. CASE i > Len(s) /\ i - Len(s) \in 1 .. Len(t) /\ u[i] = t[i - Len(s)]
            <4>1. i - Len(s) < j - Len(s)
                BY <1>1, <1>2, <1>7
            <4> QED
                BY <2>2, <3>2, <4>1 DEF Rising
        <3> QED
            BY <1>5, <3>1, <3>2
    <2> QED
        BY <1>5, <2>1, <2>2
<1> QED
    BY <1>1, <1>6, <1>7 DEF Rising

LEMMA RisingOne ==
    ASSUME NEW l \in Label
    PROVE  <<l>> \in Seq(Label) /\ Rising(<<l>>, l, l)
<1>1. PICK s \in Seq(Label) : s = <<l>> /\ Len(s) = 1 /\ s[1] = l
    <2>1. <<l>> \in Seq(Label) /\ Len(<<l>>) = 1 /\ <<l>>[1] = l
        OBVIOUS
    <2> QED
        BY <2>1
<1>2. \A i \in 1 .. Len(s) : i = 1 /\ s[i] = l
    BY <1>1
<1> QED
    BY <1>1, <1>2, LabelIsNat DEF Rising

LEMMA RisingCopies ==
    ASSUME NEW n \in Nat, NEW l \in Label
    PROVE  /\ [i \in 1 .. n |-> l] \in Seq(Label) /\ Len([i \in 1 .. n |-> l]) = n
           /\ Rising([i \in 1 .. n |-> l], l, l)
<1>1. PICK s \in Seq(Label) : s = [i \in 1 .. n |-> l] /\ Len(s) = n /\ \A i \in 1 .. n : s[i] = l
    <2>1. /\ [i \in 1 .. n |-> l] \in Seq(Label) /\ Len([i \in 1 .. n |-> l]) = n
          /\ \A i \in 1 .. n : [j \in 1 .. n |-> l][i] = l
        OBVIOUS
    <2> QED
        BY <2>1
<1> QED
    BY <1>1, LabelIsNat DEF Rising

LEMMA RisingTail ==
    ASSUME NEW s \in Seq(Label), s # <<>>, NEW lo, NEW hi, Rising(s, lo, hi)
    PROVE  /\ Tail(s) \in Seq(Label) /\ Head(s) \in Label
           /\ Rising(Tail(s), Head(s), hi) /\ lo <= Head(s) /\ Head(s) <= hi
<1>1. PICK t \in Seq(Label) :
          /\ t = Tail(s) /\ Head(s) \in Label /\ Head(s) = s[1] /\ Len(s) \in Nat \ {0}
          /\ Len(t) = Len(s) - 1
          /\ \A i \in 1 .. Len(t) : i + 1 \in 1 .. Len(s) /\ t[i] = s[i + 1]
    <2>1. /\ Tail(s) \in Seq(Label) /\ Head(s) \in Label /\ Head(s) = s[1] /\ Len(s) \in Nat \ {0}
          /\ Len(Tail(s)) = Len(s) - 1
          /\ \A i \in 1 .. Len(Tail(s)) : i + 1 \in 1 .. Len(s) /\ Tail(s)[i] = s[i + 1]
        OBVIOUS
    <2> QED
        BY <2>1
<1>2. 1 \in 1 .. Len(s)
    BY <1>1
<1>3. lo <= Head(s) /\ Head(s) <= hi
    BY <1>1, <1>2 DEF Rising
<1>4. \A i \in 1 .. Len(t) : Head(s) <= t[i] /\ t[i] <= hi
    <2> TAKE i \in 1 .. Len(t)
    <2>1. i + 1 \in 1 .. Len(s) /\ t[i] = s[i + 1] /\ 1 < i + 1
        BY <1>1
    <2> QED
        BY <1>1, <1>2, <2>1 DEF Rising
<1>5. \A i, j \in 1 .. Len(t) : i < j => t[i] <= t[j]
    <2> TAKE i, j \in 1 .. Len(t)
    <2>1. /\ i + 1 \in 1 .. Len(s) /\ t[i] = s[i + 1] /\ j + 1 \in 1 .. Len(s) /\ t[j] = s[j + 1]
          /\ i < j => i + 1 < j + 1
        BY <1>1
    <2> QED
        BY <2>1 DEF Rising
<1> QED
    BY <1>1, <1>3, <1>4, <1>5 DEF Rising

LEMMA RisingRest ==
    ASSUME NEW s \in Seq(Label), NEW n \in Nat \ {0}, n <= Len(s), NEW lo, NEW hi, Rising(s, lo, hi)
    PROVE  /\ Head(s) \in Label /\ lo <= Head(s) /\ Head(s) <= hi
           /\ Len(SubSeq(s, n + 1, Len(s))) = Len(s) - n
           /\ Rising(SubSeq(s, n + 1, Len(s)), Head(s), hi)
<1>1. PICK r : /\ r = SubSeq(s, n + 1, Len(s)) /\ Len(s) \in Nat /\ Len(r) = Len(s) - n
               /\ Head(s) \in Label /\ Head(s) = s[1]
               /\ \A i \in 1 .. Len(r) : r[i] = s[i + n]
    <2>0. Len(s) \in Nat /\ s # <<>>
        BY LenProperties, EmptySeq
    <2>1. Head(s) \in Label /\ Head(s) = s[1]
        BY <2>0, HeadTailProperties
    <2>2. \A i \in n + 1 .. Len(s) : s[i] \in Label
        BY <2>0, ElementOfSeq
    <2>3. /\ SubSeq(s, n + 1, Len(s)) \in Seq(Label)
          /\ Len(SubSeq(s, n + 1, Len(s))) = IF n + 1 <= Len(s) THEN Len(s) - (n + 1) + 1 ELSE 0
          /\ \A i \in 1 .. Len(s) - (n + 1) + 1 : SubSeq(s, n + 1, Len(s))[i] = s[(n + 1) + i - 1]
        BY <2>0, <2>2, SubSeqProperties
    <2>4. Len(SubSeq(s, n + 1, Len(s))) = Len(s) - n
        BY <2>0, <2>3
    <2>5. \A i \in 1 .. Len(s) - n : SubSeq(s, n + 1, Len(s))[i] = s[i + n]
        <3> TAKE i \in 1 .. Len(s) - n
        <3>1. i \in 1 .. Len(s) - (n + 1) + 1 /\ (n + 1) + i - 1 = i + n
            BY <2>0
        <3> QED
            BY <2>3, <3>1
    <2> QED
        BY <2>0, <2>1, <2>4, <2>5
<1>2. \A i \in 1 .. Len(r) : i + n \in 1 .. Len(s) /\ 1 < i + n /\ r[i] = s[i + n]
    BY <1>1
<1>3. 1 \in 1 .. Len(s)
    BY <1>1
<1>4. lo <= Head(s) /\ Head(s) <= hi
    BY <1>1, <1>3 DEF Rising
<1>5. \A i \in 1 .. Len(r) : Head(s) <= r[i] /\ r[i] <= hi
    BY <1>1, <1>2, <1>3 DEF Rising
<1>6. \A i, j \in 1 .. Len(r) : i < j => r[i] <= r[j]
    <2> TAKE i, j \in 1 .. Len(r)
    <2>1. i < j => i + n < j + n
        BY <1>1
    <2> QED
        BY <1>2, <2>1 DEF Rising
<1> QED
    BY <1>1, <1>4, <1>5, <1>6 DEF Rising

LEMMA RisingAppend ==
    ASSUME NEW s \in Seq(Label), NEW lo \in Nat, NEW l \in Label, lo <= l, Rising(s, lo, l)
    PROVE  Append(s, l) \in Seq(Label) /\ Rising(Append(s, l), lo, l)
<1>1. <<l>> \in Seq(Label) /\ Rising(<<l>>, l, l) /\ l \in Nat /\ l <= l
    BY RisingOne, LabelIsNat
<1>2. s \o <<l>> \in Seq(Label) /\ Rising(s \o <<l>>, lo, l)
    BY <1>1, RisingConcat
<1>3. Append(s, l) = s \o <<l>>
    BY AppendIsConcat
<1> QED
    BY <1>2, <1>3

\* size_ says what the buffer holds, and that rises.
Ordered(b, lo, hi) == b.size = Len(b.frames) /\ Rising(b.frames, lo, hi)

LEMMA ClearedOrdered == \A lo, hi : Ordered(Cleared, lo, hi)
<1>1. Cleared.size = 0 /\ Cleared.frames = <<>> /\ Len(<<>>) = 0
    BY DEF Cleared
<1> QED
    BY <1>1, RisingEmpty DEF Ordered

LEMMA WrittenOrdered ==
    ASSUME NEW b \in Frames, NEW n \in Nat, NEW l \in Label, NEW lo \in Nat, lo <= l, Ordered(b, lo, l)
    PROVE  Ordered(Written(b, n, l), lo, l)
<1>1. b.frames \in Seq(Label) /\ b.size = Len(b.frames) /\ Rising(b.frames, lo, l)
    BY DEF Frames, Ordered
<1>2. PICK s \in Seq(Label) : s = [i \in 1 .. n |-> l] /\ Len(s) = n /\ Rising(s, l, l)
    BY RisingCopies
<1>3. l \in Nat /\ l <= l
    BY LabelIsNat
<1>4. Rising(b.frames \o s, lo, l)
    BY <1>1, <1>2, <1>3, RisingConcat
<1>5. Len(b.frames \o s) = Len(b.frames) + n
    BY <1>1, <1>2, ConcatProperties
<1>6. Written(b, n, l).size = b.size + n /\ Written(b, n, l).frames = b.frames \o s
    BY <1>2 DEF Written
<1> QED
    BY <1>1, <1>4, <1>5, <1>6 DEF Ordered

LEMMA ReadOrdered ==
    ASSUME NEW b \in Frames, NEW n \in Nat \ {0}, n <= b.size, NEW lo, NEW hi, Ordered(b, lo, hi)
    PROVE  Oldest(b) \in Label /\ lo <= Oldest(b) /\ Oldest(b) <= hi /\ Ordered(AfterRead(b, n), Oldest(b), hi)
<1>1. b.frames \in Seq(Label) /\ b.size = Len(b.frames) /\ Rising(b.frames, lo, hi)
    BY DEF Frames, Ordered
<1>2. /\ Head(b.frames) \in Label /\ lo <= Head(b.frames) /\ Head(b.frames) <= hi
      /\ Len(SubSeq(b.frames, n + 1, Len(b.frames))) = Len(b.frames) - n
      /\ Rising(SubSeq(b.frames, n + 1, Len(b.frames)), Head(b.frames), hi)
    BY <1>1, RisingRest
<1>3. b.frames # <<>>
    BY <1>1, LenProperties, EmptySeq
<1>4. Oldest(b) = Head(b.frames)
    BY <1>3 DEF Oldest
<1>5. /\ AfterRead(b, n).size = b.size - n
      /\ AfterRead(b, n).frames = SubSeq(b.frames, n + 1, Len(b.frames))
    BY DEF AfterRead
<1> QED
    BY <1>1, <1>2, <1>4, <1>5 DEF Ordered

-------------------------------------------------------------------------------
(* The way of the sound, cut where the resampler stands.                    *)

\* What waits to be drawn was captured in recording a or before, what waits to
\* be completed between a and b, what waits to be converted between b and c and
\* the packets after c; what the resampler holds is at the cut it stands at.
Laid(a, b, c) ==
    /\ a <= b /\ b <= c /\ c <= session
    /\ Rising(queue_out, Noise, a) /\ Ordered(memory, a, b)
    /\ Ordered(buffer, b, c) /\ Rising(queue_in, c, session)
    /\ resampler.at = "pushing" => resampler.label = a
    /\ resampler.at \in {"chunk", "converting"} => resampler.label = b
    /\ resampler.at \in {"popped", "buffering"} => resampler.label = c

OrderInv == ~early => \E a, b, c \in Label : Laid(a, b, c)

LEMMA SessionIsLabel == TypeOK => session \in Label /\ session \in Nat
BY Labels, LabelIsNat DEF TypeOK

\* The cuts stay where a step only drops what a buffer has, and the resampler
\* keeps what it holds or lets go of it.
Kept ==
    /\ queue_in' \in {queue_in, <<>>} /\ queue_out' \in {queue_out, <<>>}
    /\ buffer' \in {buffer, Cleared} /\ memory' \in {memory, Cleared}
    /\ session' \in {session, session + 1}
    /\ \/ resampler' = resampler
       \/ resampler'.at \in {"idle", "exited"}
       \/ resampler.at = "popped" /\ resampler'.at = "buffering" /\ resampler'.label = resampler.label
       \/ resampler.at = "chunk" /\ resampler'.at = "converting" /\ resampler'.label = resampler.label
    /\ early' = early

LEMMA KeptOrder ==
    ASSUME TypeOK, TypeOK', OrderInv, Kept
    PROVE  OrderInv'
<1> SUFFICES ASSUME ~early' PROVE \E a, b, c \in Label : Laid(a, b, c)'
    BY DEF OrderInv
<1>1. PICK a \in Label, b \in Label, c \in Label : Laid(a, b, c)
    BY DEF OrderInv, Kept
<1>2. a \in Nat /\ b \in Nat /\ c \in Nat /\ session \in Nat /\ session' \in Nat /\ session <= session'
    <2>1. session \in Nat /\ session' \in {session, session + 1}
        BY SessionIsLabel DEF Kept
    <2> QED
        BY <2>1, LabelIsNat
<1>3. a <= b /\ b <= c /\ c <= session'
    BY <1>1, <1>2 DEF Laid
<1>4. Rising(queue_out', Noise, a)
    BY <1>1, RisingEmpty DEF Laid, Kept
<1>5. Ordered(memory', a, b) /\ Ordered(buffer', b, c)
    BY <1>1, ClearedOrdered DEF Laid, Kept
<1>6. Rising(queue_in', c, session')
    <2>1. queue_in \in Seq(Label) /\ Rising(queue_in, c, session)
        BY <1>1 DEF Laid, TypeOK
    <2>2. Rising(queue_in, c, session')
        BY <1>2, <2>1, RisingWider
    <2> QED
        BY <2>2, RisingEmpty DEF Kept
<1>7. /\ resampler'.at = "pushing" => resampler'.label = a
      /\ resampler'.at \in {"chunk", "converting"} => resampler'.label = b
      /\ resampler'.at \in {"popped", "buffering"} => resampler'.label = c
    BY <1>1 DEF Laid, Kept
<1> QED
    BY <1>3, <1>4, <1>5, <1>6, <1>7 DEF Laid

LEMMA UIKeeps == UI => Kept
<1> SUFFICES ASSUME UI PROVE Kept
    OBVIOUS
<1>1. queue_in' \in {queue_in, <<>>} /\ queue_out' \in {queue_out, <<>>}
    BY DEF Start, ClearBuffer, ClearIn, ClearOut, OpenDevice, OpenFailsEarly, OpenFailsLate,
           ReadFormat, OpenResampler, Stop, CloseDevice, CloseResampler, Terminate, JoinThread, Touch,
           Fail, FinValues, device, sound, resampling, budget, history, UI
<1>2. buffer' \in {buffer, Cleared} /\ memory' \in {memory, Cleared}
    BY DEF Start, ClearBuffer, ClearIn, ClearOut, OpenDevice, OpenFailsEarly, OpenFailsLate,
           ReadFormat, OpenResampler, Stop, CloseDevice, CloseResampler, Terminate, JoinThread, Touch,
           Fail, FinValues, device, sound, resampling, budget, history, UI
<1>3. session' \in {session, session + 1} /\ resampler' = resampler /\ early' = early
    BY DEF Start, ClearBuffer, ClearIn, ClearOut, OpenDevice, OpenFailsEarly, OpenFailsLate,
           ReadFormat, OpenResampler, Stop, CloseDevice, CloseResampler, Terminate, JoinThread, Touch,
           Fail, FinValues, device, sound, resampling, budget, history, UI
<1> QED
    BY <1>1, <1>2, <1>3 DEF Kept

LEMMA WorkerOrder ==
    ASSUME AudioInv, OrderInv, Worker \/ Draw, AudioInv'
    PROVE  OrderInv'
<1>t. TypeOK /\ TypeOK'
    BY DEF AudioInv
<1>1. CASE GetBuffer \/ TestQueue \/ WorkerExit
    <2>1. Kept
        BY <1>1 DEF GetBuffer, TestQueue, WorkerExit, Kept, device, sound, resampling, budget, history
    <2> QED
        BY <1>t, <2>1, KeptOrder
<1>2. CASE PushIn
    <2> SUFFICES ASSUME ~early' PROVE \E a, b, c \in Label : Laid(a, b, c)'
        BY DEF OrderInv
    <2>1. /\ queue_in' = Append(queue_in, session)
          /\ UNCHANGED <<buffer, memory, queue_out, session, resampler, early>>
        BY <1>2 DEF PushIn, resampling, budget, history
    <2>2. PICK a \in Label, b \in Label, c \in Label : Laid(a, b, c)
        BY <2>1 DEF OrderInv
    <2>3. Rising(Append(queue_in, session), c, session)
        <3>1. queue_in \in Seq(Label) /\ Rising(queue_in, c, session) /\ c <= session
            BY <1>t, <2>2 DEF Laid, TypeOK
        <3>2. session \in Label /\ c \in Nat
            BY <1>t, LabelIsNat, SessionIsLabel
        <3> QED
            BY <3>1, <3>2, RisingAppend
    <2>4. Laid(a, b, c)'
        BY <2>1, <2>2, <2>3 DEF Laid
    <2> QED
        BY <2>4
<1>3. CASE Draw
    <2> SUFFICES ASSUME ~early' PROVE \E a, b, c \in Label : Laid(a, b, c)'
        BY DEF OrderInv
    <2>1. /\ queue_out # <<>> /\ queue_out' = Tail(queue_out)
          /\ UNCHANGED <<buffer, memory, queue_in, session, resampler, early>>
        BY <1>3 DEF Draw, resampling, budget
    <2>2. PICK a \in Label, b \in Label, c \in Label : Laid(a, b, c)
        BY <2>1 DEF OrderInv
    <2>3. Rising(Tail(queue_out), Noise, a)
        <3>1. queue_out \in Seq(Label) /\ Rising(queue_out, Noise, a)
            BY <1>t, <2>2 DEF Laid, TypeOK
        <3>2. /\ Tail(queue_out) \in Seq(Label) /\ Head(queue_out) \in Label
              /\ Rising(Tail(queue_out), Head(queue_out), a) /\ Noise <= Head(queue_out)
            BY <2>1, <3>1, RisingTail
        <3>3. a \in Nat /\ Noise \in Nat /\ Head(queue_out) \in Nat /\ a <= a
            BY <3>2, LabelIsNat DEF Noise
        <3> QED
            BY <3>2, <3>3, RisingWider
    <2>4. Laid(a, b, c)'
        BY <2>1, <2>2, <2>3 DEF Laid
    <2> QED
        BY <2>4
<1> QED
    BY <1>1, <1>2, <1>3 DEF Worker

\* A step of the resampler moves one cut: to the oldest of what it takes.
LEMMA PopOrder ==
    ASSUME AudioInv, OrderInv, Pop
    PROVE  OrderInv'
<1> SUFFICES ASSUME ~early' PROVE \E a, b, c \in Label : Laid(a, b, c)'
    BY DEF OrderInv
<1>1. /\ queue_in # <<>> /\ queue_in' = Tail(queue_in) /\ resampler' = Holding("popped", Head(queue_in))
      /\ UNCHANGED <<buffer, memory, queue_out, session, early>>
    BY DEF Pop, budget, history
<1>2. PICK a \in Label, b \in Label, c \in Label : Laid(a, b, c)
    BY <1>1 DEF OrderInv
<1>3. PICK d \in Label : d = Head(queue_in) /\ Rising(Tail(queue_in), d, session) /\ c <= d /\ d <= session
    <2>1. queue_in \in Seq(Label) /\ Rising(queue_in, c, session)
        BY <1>2 DEF Laid, AudioInv, TypeOK
    <2>2. /\ Head(queue_in) \in Label /\ Rising(Tail(queue_in), Head(queue_in), session)
          /\ c <= Head(queue_in) /\ Head(queue_in) <= session
        BY <1>1, <2>1, RisingTail
    <2> QED
        BY <2>2
<1>4. Ordered(buffer, b, d)
    <2>1. buffer.frames \in Seq(Label) /\ Ordered(buffer, b, c)
        BY <1>2 DEF Laid, AudioInv, TypeOK, Frames
    <2>2. b \in Nat /\ c \in Nat /\ d \in Nat /\ b <= b
        BY LabelIsNat
    <2> QED
        BY <1>3, <2>1, <2>2, RisingWider DEF Ordered
<1>5. b <= d
    <2>1. b \in Nat /\ c \in Nat /\ d \in Nat /\ b <= c
        BY <1>2, LabelIsNat DEF Laid
    <2> QED
        BY <1>3, <2>1
<1>6. resampler'.at = "popped" /\ resampler'.label = d
    BY <1>1, <1>3 DEF Holding
<1>7. Laid(a, b, d)'
    BY <1>1, <1>2, <1>3, <1>4, <1>5, <1>6 DEF Laid
<1> QED
    BY <1>7

LEMMA ReadOrder ==
    ASSUME AudioInv, OrderInv, WriteAndRead
    PROVE  OrderInv'
<1> SUFFICES ASSUME ~early' PROVE \E a, b, c \in Label : Laid(a, b, c)'
    BY DEF OrderInv
<1>t. buffer \in Frames /\ memory.frames \in Seq(Label) /\ buffer.frames \in Seq(Label)
    BY DEF AudioInv, TypeOK, Frames
<1>1. /\ ~early /\ format_set /\ resampler.at = "buffering"
      /\ UNCHANGED <<queue_in, memory, queue_out, session>>
    BY DEF WriteAndRead, budget
<1>2. PICK a \in Label, b \in Label, c \in Label : Laid(a, b, c)
    BY <1>1 DEF OrderInv
<1>3. a \in Nat /\ b \in Nat /\ c \in Nat /\ a <= b /\ b <= c /\ resampler.label = c
    BY <1>1, <1>2, LabelIsNat DEF Laid
<1>4. PICK w \in Frames : w = Written(buffer, PACKET, resampler.label) /\ Ordered(w, b, c)
    <2>1. Written(buffer, PACKET, c) \in Frames
        BY <1>t, Sizes, WrittenType
    <2>2. Ordered(buffer, b, c) /\ PACKET \in Nat
        BY <1>2, Sizes DEF Laid
    <2>3. Ordered(Written(buffer, PACKET, c), b, c)
        BY <1>t, <1>3, <2>2, WrittenOrdered
    <2> QED
        BY <1>3, <2>1, <2>3
<1>5. \/ CHUNK <= w.size /\ buffer' = AfterRead(w, CHUNK) /\ resampler' = Holding("chunk", Oldest(w))
      \/ buffer' = w /\ resampler' = Idle
    <2>1. PICK n \in SourceSize :
            IF 0 <= n /\ n <= w.size
            THEN buffer' = AfterRead(w, n) /\ resampler' = Holding("chunk", Oldest(w))
            ELSE buffer' = w /\ resampler' = Idle
        BY <1>4 DEF WriteAndRead
    <2>2. n = CHUNK
        BY <1>1, <2>1 DEF SourceSize
    <2> QED
        BY <2>1, <2>2
<1>6. CASE CHUNK <= w.size /\ buffer' = AfterRead(w, CHUNK) /\ resampler' = Holding("chunk", Oldest(w))
    <2>1. PICK d \in Label : d = Oldest(w) /\ b <= d /\ d <= c /\ Ordered(AfterRead(w, CHUNK), d, c)
        <3>1. /\ Oldest(w) \in Label /\ b <= Oldest(w) /\ Oldest(w) <= c
              /\ Ordered(AfterRead(w, CHUNK), Oldest(w), c)
            BY <1>4, <1>6, ReadOrdered, Sizes
        <3> QED
            BY <3>1
    <2>2. d \in Nat /\ a <= a /\ a <= d
        <3>1. d \in Nat
            BY LabelIsNat
        <3> QED
            BY <1>3, <2>1, <3>1
    <2>3. Ordered(memory, a, d)
        BY <1>t, <1>2, <1>3, <2>1, <2>2, RisingWider DEF Laid, Ordered
    <2>4. resampler'.at = "chunk" /\ resampler'.label = d
        BY <1>6, <2>1 DEF Holding
    <2>5. Laid(a, d, c)'
        BY <1>1, <1>2, <1>6, <2>1, <2>2, <2>3, <2>4 DEF Laid
    <2> QED
        BY <2>5
<1>7. CASE buffer' = w /\ resampler' = Idle
    <2>1. resampler'.at = "idle"
        BY <1>7 DEF Idle, Holding
    <2>2. Laid(a, b, c)'
        BY <1>1, <1>2, <1>4, <1>7, <2>1 DEF Laid
    <2> QED
        BY <2>2
<1> QED
    BY <1>5, <1>6, <1>7

LEMMA ConvertOrder ==
    ASSUME AudioInv, OrderInv, Convert
    PROVE  OrderInv'
<1> SUFFICES ASSUME ~early' PROVE \E a, b, c \in Label : Laid(a, b, c)'
    BY DEF OrderInv
<1>t. memory \in Frames /\ queue_out \in Seq(Label)
    BY DEF AudioInv, TypeOK
<1>1. resampler.at = "converting" /\ UNCHANGED <<queue_in, buffer, queue_out, session, early>>
    BY DEF Convert, budget, history
<1>2. PICK a \in Label, b \in Label, c \in Label : Laid(a, b, c)
    BY <1>1 DEF OrderInv
<1>3. a \in Nat /\ b \in Nat /\ a <= b /\ resampler.label = b
    BY <1>1, <1>2, LabelIsNat DEF Laid
<1>4. PICK w \in Frames : w = Written(memory, CONVERTED, resampler.label) /\ Ordered(w, a, b)
    <2>1. Written(memory, CONVERTED, b) \in Frames
        BY <1>t, Sizes, WrittenType
    <2>2. Ordered(memory, a, b) /\ CONVERTED \in Nat
        BY <1>2, Sizes DEF Laid
    <2>3. Ordered(Written(memory, CONVERTED, b), a, b)
        BY <1>t, <1>3, <2>2, WrittenOrdered
    <2> QED
        BY <1>3, <2>1, <2>3
<1>5. \/ w.size >= FRAMES /\ memory' = AfterRead(w, FRAMES) /\ resampler' = Holding("pushing", Oldest(w))
      \/ memory' = w /\ resampler' = Idle
    BY <1>4 DEF Convert
<1>6. CASE w.size >= FRAMES /\ memory' = AfterRead(w, FRAMES) /\ resampler' = Holding("pushing", Oldest(w))
    <2>0. w.size \in Nat /\ FRAMES <= w.size /\ FRAMES \in Nat \ {0}
        <3>1. w.size \in Nat
            BY DEF Frames
        <3> QED
            BY <1>6, <3>1, Sizes
    <2>1. PICK d \in Label : d = Oldest(w) /\ a <= d /\ d <= b /\ Ordered(AfterRead(w, FRAMES), d, b)
        <3>1. /\ Oldest(w) \in Label /\ a <= Oldest(w) /\ Oldest(w) <= b
              /\ Ordered(AfterRead(w, FRAMES), Oldest(w), b)
            BY <1>4, <2>0, ReadOrdered
        <3> QED
            BY <3>1
    <2>2. d \in Nat /\ Noise \in Nat /\ Noise <= Noise
        BY LabelIsNat DEF Noise
    <2>3. Rising(queue_out, Noise, d)
        BY <1>t, <1>2, <1>3, <2>1, <2>2, RisingWider DEF Laid
    <2>4. resampler'.at = "pushing" /\ resampler'.label = d
        BY <1>6, <2>1 DEF Holding
    <2>5. Laid(d, b, c)'
        BY <1>1, <1>2, <1>6, <2>1, <2>3, <2>4 DEF Laid
    <2> QED
        BY <2>5
<1>7. CASE memory' = w /\ resampler' = Idle
    <2>1. resampler'.at = "idle"
        BY <1>7 DEF Idle, Holding
    <2>2. Laid(a, b, c)'
        BY <1>1, <1>2, <1>4, <1>7, <2>1 DEF Laid
    <2> QED
        BY <2>2
<1> QED
    BY <1>5, <1>6, <1>7

LEMMA PushOrder ==
    ASSUME AudioInv, OrderInv, PushOut
    PROVE  OrderInv'
<1> SUFFICES ASSUME ~early' PROVE \E a, b, c \in Label : Laid(a, b, c)'
    BY DEF OrderInv
<1>1. /\ resampler.at = "pushing" /\ queue_out' = Append(queue_out, resampler.label) /\ resampler' = Idle
      /\ UNCHANGED <<buffer, memory, queue_in, session, early>>
    BY DEF PushOut, budget, history
<1>2. PICK a \in Label, b \in Label, c \in Label : Laid(a, b, c)
    BY <1>1 DEF OrderInv
<1>3. queue_out \in Seq(Label) /\ Rising(queue_out, Noise, a) /\ resampler.label = a
    BY <1>1, <1>2 DEF Laid, AudioInv, TypeOK
<1>4. Noise \in Nat /\ Noise <= a
    BY LabelIsNat DEF Noise
<1>5. Rising(queue_out', Noise, a)
    BY <1>1, <1>3, <1>4, RisingAppend
<1>6. resampler'.at = "idle"
    BY <1>1 DEF Idle, Holding
<1>7. Laid(a, b, c)'
    BY <1>1, <1>2, <1>5, <1>6 DEF Laid
<1> QED
    BY <1>7

LEMMA ResamplerKeeps ==
    ASSUME TypeOK, EnterBuffer \/ EnterExecute \/ ConvertFails \/ ResamplerExit
    PROVE  Kept
<1>1. UNCHANGED <<queue_in, queue_out, buffer, memory, session, early>>
    BY DEF EnterBuffer, EnterExecute, ConvertFails, ResamplerExit, sound, budget, history
<1>2. \/ resampler'.at \in {"idle", "exited"}
      \/ resampler.at = "popped" /\ resampler'.at = "buffering" /\ resampler'.label = resampler.label
      \/ resampler.at = "chunk" /\ resampler'.at = "converting" /\ resampler'.label = resampler.label
    <2>1. resampler \in At({"idle", "popped", "buffering", "chunk", "converting", "pushing", "exited"})
        BY DEF TypeOK
    <2>2. CASE EnterBuffer
        BY <2>1, <2>2 DEF EnterBuffer, At
    <2>3. CASE EnterExecute
        BY <2>1, <2>3 DEF EnterExecute, Idle, Holding, At
    <2>4. CASE ConvertFails \/ ResamplerExit
        BY <2>4 DEF ConvertFails, ResamplerExit, Idle, Holding
    <2> QED
        BY <2>2, <2>3, <2>4
<1> QED
    BY <1>1, <1>2 DEF Kept

LEMMA ResamplerOrder ==
    ASSUME AudioInv, OrderInv, Resampler, AudioInv'
    PROVE  OrderInv'
<1>1. CASE EnterBuffer \/ EnterExecute \/ ConvertFails \/ ResamplerExit
    BY <1>1, ResamplerKeeps, KeptOrder DEF AudioInv
<1> QED
    BY <1>1, PopOrder, ReadOrder, ConvertOrder, PushOrder DEF Resampler

THEOREM Cuts == Spec => []OrderInv
<1>1. Init => OrderInv
    <2> SUFFICES ASSUME Init PROVE Laid(Noise, Noise, Noise)
        BY Labels DEF OrderInv
    <2>1. memory = Cleared /\ buffer = Cleared /\ queue_in = <<>> /\ queue_out = <<>> /\ session = Noise
        BY DEF Init, Cleared, Noise
    <2>2. resampler.at = "idle"
        BY DEF Init, Idle, Holding
    <2> QED
        BY <2>1, <2>2, RisingEmpty, ClearedOrdered DEF Laid, Noise
<1>2. AudioInv /\ AudioInv' /\ OrderInv /\ [Next]_vars => OrderInv'
    <2> SUFFICES ASSUME AudioInv, AudioInv', OrderInv, [Next]_vars PROVE OrderInv'
        OBVIOUS
    <2>1. CASE UI
        BY <2>1, UIKeeps, KeptOrder DEF AudioInv
    <2>2. CASE Worker \/ Draw
        BY <2>2, WorkerOrder
    <2>3. CASE Resampler
        BY <2>3, ResamplerOrder
    <2>4. CASE UNCHANGED vars
        <3>1. Kept
            BY <2>4 DEF Kept, vars, sound, resampling, budget, history
        <3> QED
            BY <3>1, KeptOrder DEF AudioInv
    <2> QED
        BY <2>1, <2>2, <2>3, <2>4 DEF Next
<1> QED
    BY <1>1, <1>2, AudioInvariant, PTL DEF Spec

LEMMA HeldRising ==
    ASSUME TypeOK, NEW places, NEW l \in Label, resampler.at \in places => resampler.label = l
    PROVE  Held(places) \in Seq(Label) /\ Rising(Held(places), l, l)
<1>1. CASE resampler.at \in places
    <2>1. Held(places) = <<l>>
        BY <1>1 DEF Held
    <2> QED
        BY <2>1, RisingOne
<1>2. CASE resampler.at \notin places
    <2>1. Held(places) = <<>>
        BY <1>2 DEF Held
    <2> QED
        BY <2>1, RisingEmpty
<1> QED
    BY <1>1, <1>2

\* Sound keeps its order from the device to the audio thread.
THEOREM SoundKeepsOrder == Spec => []SoundInOrder
<1>1. TypeOK /\ OrderInv => SoundInOrder
    <2> SUFFICES ASSUME TypeOK, OrderInv, ~early
                 PROVE  LET way == queue_out \o Held({"pushing"}) \o memory.frames
                                   \o Held({"chunk", "converting"}) \o buffer.frames
                                   \o Held({"popped", "buffering"}) \o queue_in
                        IN  /\ \A i, j \in 1 .. Len(way) : i < j => way[i] <= way[j]
                            /\ buffer.size = Len(buffer.frames) /\ memory.size = Len(memory.frames)
        BY DEF SoundInOrder
    <2>1. PICK a \in Label, b \in Label, c \in Label : Laid(a, b, c)
        BY DEF OrderInv
    <2>2. a \in Nat /\ b \in Nat /\ c \in Nat /\ session \in Nat /\ Noise \in Nat /\ Noise <= a
        BY LabelIsNat, SessionIsLabel DEF Noise
    <2>3. a <= a /\ a <= b /\ b <= b /\ b <= c /\ c <= c /\ c <= session /\ Noise <= b /\ Noise <= c
        BY <2>1, <2>2 DEF Laid
    <2>4. /\ queue_out \in Seq(Label) /\ Rising(queue_out, Noise, a)
          /\ memory.frames \in Seq(Label) /\ Rising(memory.frames, a, b)
          /\ buffer.frames \in Seq(Label) /\ Rising(buffer.frames, b, c)
          /\ queue_in \in Seq(Label) /\ Rising(queue_in, c, session)
        BY <2>1 DEF Laid, Ordered, TypeOK, Frames
    <2>5. /\ Held({"pushing"}) \in Seq(Label) /\ Rising(Held({"pushing"}), a, a)
          /\ Held({"chunk", "converting"}) \in Seq(Label) /\ Rising(Held({"chunk", "converting"}), b, b)
          /\ Held({"popped", "buffering"}) \in Seq(Label) /\ Rising(Held({"popped", "buffering"}), c, c)
        <3>1. /\ resampler.at \in {"pushing"} => resampler.label = a
              /\ resampler.at \in {"chunk", "converting"} => resampler.label = b
              /\ resampler.at \in {"popped", "buffering"} => resampler.label = c
            BY <2>1 DEF Laid
        <3> QED
            BY <3>1, HeldRising
    <2>6. PICK s1 \in Seq(Label) : s1 = queue_out \o Held({"pushing"}) /\ Rising(s1, Noise, a)
        BY <2>2, <2>3, <2>4, <2>5, RisingConcat, ZenonT(60)
    <2>7. PICK s2 \in Seq(Label) : s2 = s1 \o memory.frames /\ Rising(s2, Noise, b)
        <3>1. s1 \o memory.frames \in Seq(Label) /\ Rising(s1 \o memory.frames, Noise, b)
            BY <2>2, <2>3, <2>4, <2>6, RisingConcat
        <3> QED
            BY <3>1
    <2>8. PICK s3 \in Seq(Label) : s3 = s2 \o Held({"chunk", "converting"}) /\ Rising(s3, Noise, b)
        <3>1. s2 \o Held({"chunk", "converting"}) \in Seq(Label) /\ Rising(s2 \o Held({"chunk", "converting"}), Noise, b)
            BY <2>2, <2>3, <2>5, <2>7, RisingConcat
        <3> QED
            BY <3>1
    <2>9. PICK s4 \in Seq(Label) : s4 = s3 \o buffer.frames /\ Rising(s4, Noise, c)
        <3>1. s3 \o buffer.frames \in Seq(Label) /\ Rising(s3 \o buffer.frames, Noise, c)
            BY <2>2, <2>3, <2>4, <2>8, RisingConcat
        <3> QED
            BY <3>1
    <2>10. PICK s5 \in Seq(Label) : s5 = s4 \o Held({"popped", "buffering"}) /\ Rising(s5, Noise, c)
        <3>1. s4 \o Held({"popped", "buffering"}) \in Seq(Label) /\ Rising(s4 \o Held({"popped", "buffering"}), Noise, c)
            BY <2>2, <2>3, <2>5, <2>9, RisingConcat
        <3> QED
            BY <3>1
    <2>11. PICK s6 \in Seq(Label) : s6 = s5 \o queue_in /\ Rising(s6, Noise, session)
        <3>1. s5 \o queue_in \in Seq(Label) /\ Rising(s5 \o queue_in, Noise, session)
            BY <2>2, <2>3, <2>4, <2>10, RisingConcat
        <3> QED
            BY <3>1
    <2>12. \A i, j \in 1 .. Len(s6) : i < j => s6[i] <= s6[j]
        BY <2>11 DEF Rising
    <2>13. buffer.size = Len(buffer.frames) /\ memory.size = Len(memory.frames)
        BY <2>1 DEF Laid, Ordered
    <2> QED
        BY <2>6, <2>7, <2>8, <2>9, <2>10, <2>11, <2>12, <2>13
<1>2. AudioInv => TypeOK
    BY DEF AudioInv
<1> QED
    BY <1>1, <1>2, AudioInvariant, Cuts, PTL

-------------------------------------------------------------------------------
(* What is left of the sound of earlier recordings.                        *)

\* Only the first n are older than recording l.
OldUpTo(s, n, l) == \A i \in 1 .. Len(s) : s[i] < l => i <= n

\* All are older than recording l.
Below(s, l) == \A i \in 1 .. Len(s) : s[i] < l

LEMMA OldEmpty == \A n, l : OldUpTo(<<>>, n, l) /\ Below(<<>>, l)
BY DEF OldUpTo, Below

LEMMA OldWider ==
    ASSUME NEW s \in Seq(Label), NEW n \in Nat, NEW m \in Nat, n <= m, NEW l, OldUpTo(s, n, l)
    PROVE  OldUpTo(s, m, l)
<1>1. Len(s) \in Nat
    BY LenProperties
<1> QED
    BY <1>1 DEF OldUpTo

\* What rises from l is not older.
LEMMA NotOlder ==
    ASSUME NEW s \in Seq(Label), NEW lo \in Nat, NEW hi, Rising(s, lo, hi), NEW l \in Nat, l <= lo
    PROVE  OldUpTo(s, 0, l) /\ \A i \in 1 .. Len(s) : s[i] >= l
<1> SUFFICES ASSUME NEW i \in 1 .. Len(s) PROVE s[i] >= l /\ ~(s[i] < l)
    BY DEF OldUpTo
<1>1. s[i] \in Nat /\ lo <= s[i]
    BY LabelIsNat, ElementOfSeq DEF Rising
<1> QED
    BY <1>1

LEMMA OldConcatNew ==
    ASSUME NEW s \in Seq(Label), NEW t \in Seq(Label), NEW n, NEW l \in Nat, OldUpTo(s, n, l),
           \A i \in 1 .. Len(t) : t[i] >= l
    PROVE  OldUpTo(s \o t, n, l)
<1>1. Len(s) \in Nat /\ Len(t) \in Nat
    BY LenProperties
<1>2. /\ Len(s \o t) = Len(s) + Len(t)
      /\ \A i \in 1 .. Len(s) + Len(t) : (s \o t)[i] = IF i <= Len(s) THEN s[i] ELSE t[i - Len(s)]
    BY ConcatProperties
<1> SUFFICES ASSUME NEW i \in 1 .. Len(s) + Len(t), (s \o t)[i] < l PROVE i <= n
    BY <1>2 DEF OldUpTo
<1>3. CASE i <= Len(s)
    <2>1. i \in 1 .. Len(s) /\ s[i] < l
        BY <1>1, <1>2, <1>3
    <2> QED
        BY <2>1 DEF OldUpTo
<1>4. CASE i > Len(s)
    <2>1. i - Len(s) \in 1 .. Len(t) /\ (s \o t)[i] = t[i - Len(s)]
        BY <1>1, <1>2, <1>4
    <2>2. t[i - Len(s)] \in Nat /\ t[i - Len(s)] >= l
        BY <2>1, LabelIsNat, ElementOfSeq
    <2>3. FALSE
        BY <2>1, <2>2
    <2> QED
        BY <2>3
<1> QED
    BY <1>1, <1>3, <1>4

\* Before an old label that they rise to all are old.
LEMMA AllOld ==
    ASSUME NEW s \in Seq(Label), NEW n \in Nat, NEW l \in Nat, OldUpTo(s, n, l),
           NEW x \in Label, x < l, NEW lo, Rising(s, lo, x)
    PROVE  Len(s) <= n
<1>1. Len(s) \in Nat
    BY LenProperties
<1>2. CASE Len(s) = 0
    BY <1>2
<1>3. CASE Len(s) # 0
    <2>1. Len(s) \in 1 .. Len(s)
        BY <1>1, <1>3
    <2>2. s[Len(s)] \in Nat /\ s[Len(s)] <= x /\ x \in Nat
        BY <2>1, LabelIsNat, ElementOfSeq DEF Rising
    <2>3. s[Len(s)] < l
        BY <2>2
    <2> QED
        BY <2>1, <2>3 DEF OldUpTo
<1> QED
    BY <1>2, <1>3

LEMMA OldConcat ==
    ASSUME NEW s \in Seq(Label), NEW t \in Seq(Label), NEW n \in Nat, Len(s) <= n, NEW l
    PROVE  OldUpTo(s \o t, n + Len(t), l)
<1>1. Len(s) \in Nat /\ Len(t) \in Nat /\ Len(s \o t) = Len(s) + Len(t)
    BY LenProperties, ConcatProperties
<1> QED
    BY <1>1 DEF OldUpTo

LEMMA OldTail ==
    ASSUME NEW s \in Seq(Label), s # <<>>, NEW n \in Nat, NEW l \in Nat, OldUpTo(s, n, l)
    PROVE  /\ OldUpTo(Tail(s), n, l)
           /\ Head(s) < l => n >= 1 /\ OldUpTo(Tail(s), n - 1, l)
<1>1. /\ Len(s) \in Nat \ {0} /\ Head(s) = s[1] /\ Len(Tail(s)) = Len(s) - 1
      /\ \A i \in 1 .. Len(Tail(s)) : i + 1 \in 1 .. Len(s) /\ Tail(s)[i] = s[i + 1]
    OBVIOUS
<1>2. \A i \in 1 .. Len(Tail(s)) : Tail(s)[i] < l => i + 1 <= n
    BY <1>1 DEF OldUpTo
<1>3. OldUpTo(Tail(s), n - 1, l) /\ OldUpTo(Tail(s), n, l)
    BY <1>1, <1>2 DEF OldUpTo
<1>4. Head(s) < l => n >= 1
    BY <1>1 DEF OldUpTo
<1> QED
    BY <1>3, <1>4

LEMMA OldRest ==
    ASSUME NEW s \in Seq(Label), NEW c \in Nat \ {0}, c <= Len(s), NEW n \in Nat, NEW l \in Nat, OldUpTo(s, n, l)
    PROVE  OldUpTo(SubSeq(s, c + 1, Len(s)), IF n > c THEN n - c ELSE 0, l)
<1>0. Len(s) \in Nat
    BY LenProperties
<1>1. PICK r : /\ r = SubSeq(s, c + 1, Len(s)) /\ Len(r) = Len(s) - c
               /\ \A i \in 1 .. Len(s) - c : r[i] = s[i + c]
    <2>1. \A i \in c + 1 .. Len(s) : s[i] \in Label
        BY <1>0, ElementOfSeq
    <2>2. /\ SubSeq(s, c + 1, Len(s)) \in Seq(Label)
          /\ Len(SubSeq(s, c + 1, Len(s))) = IF c + 1 <= Len(s) THEN Len(s) - (c + 1) + 1 ELSE 0
          /\ \A i \in 1 .. Len(s) - (c + 1) + 1 : SubSeq(s, c + 1, Len(s))[i] = s[(c + 1) + i - 1]
        BY <1>0, <2>1, SubSeqProperties
    <2>3. Len(SubSeq(s, c + 1, Len(s))) = Len(s) - c
        BY <1>0, <2>2
    <2>4. \A i \in 1 .. Len(s) - c : SubSeq(s, c + 1, Len(s))[i] = s[i + c]
        <3> TAKE i \in 1 .. Len(s) - c
        <3>1. i \in 1 .. Len(s) - (c + 1) + 1 /\ (c + 1) + i - 1 = i + c
            BY <1>0
        <3> QED
            BY <2>2, <3>1
    <2> QED
        BY <2>3, <2>4
<1>2. \A i \in 1 .. Len(r) : r[i] < l => i + c <= n
    <2> TAKE i \in 1 .. Len(r)
    <2>1. i + c \in 1 .. Len(s) /\ r[i] = s[i + c]
        BY <1>0, <1>1
    <2> QED
        BY <2>1 DEF OldUpTo
<1>3. Len(r) \in Nat
    BY <1>0, <1>1
<1>4. OldUpTo(r, IF n > c THEN n - c ELSE 0, l)
    BY <1>2, <1>3 DEF OldUpTo
<1> QED
    BY <1>1, <1>4

LEMMA BelowConcat ==
    ASSUME NEW s \in Seq(Label), NEW t \in Seq(Label), NEW l, Below(s, l), Below(t, l)
    PROVE  Below(s \o t, l)
<1>1. Len(s) \in Nat /\ Len(t) \in Nat
    BY LenProperties
<1>2. /\ Len(s \o t) = Len(s) + Len(t)
      /\ \A i \in 1 .. Len(s) + Len(t) : (s \o t)[i] = IF i <= Len(s) THEN s[i] ELSE t[i - Len(s)]
    BY ConcatProperties
<1> SUFFICES ASSUME NEW i \in 1 .. Len(s) + Len(t) PROVE (s \o t)[i] < l
    BY <1>2 DEF Below
<1>3. CASE i <= Len(s)
    <2>1. i \in 1 .. Len(s) /\ (s \o t)[i] = s[i]
        BY <1>1, <1>2, <1>3
    <2> QED
        BY <2>1 DEF Below
<1>4. CASE i > Len(s)
    <2>1. i - Len(s) \in 1 .. Len(t) /\ (s \o t)[i] = t[i - Len(s)]
        BY <1>1, <1>2, <1>4
    <2> QED
        BY <2>1 DEF Below
<1> QED
    BY <1>1, <1>3, <1>4

LEMMA BelowTail ==
    ASSUME NEW s \in Seq(Label), s # <<>>, NEW l, Below(s, l)
    PROVE  Head(s) < l /\ Below(Tail(s), l)
<1>1. /\ Len(s) \in Nat \ {0} /\ Head(s) = s[1]
      /\ \A i \in 1 .. Len(Tail(s)) : i + 1 \in 1 .. Len(s) /\ Tail(s)[i] = s[i + 1]
    OBVIOUS
<1> QED
    BY <1>1 DEF Below

LEMMA BelowRest ==
    ASSUME NEW s \in Seq(Label), NEW c \in Nat \ {0}, c <= Len(s), NEW l, Below(s, l)
    PROVE  Below(SubSeq(s, c + 1, Len(s)), l)
<1>0. Len(s) \in Nat
    BY LenProperties
<1>1. \A i \in c + 1 .. Len(s) : s[i] \in Label
    BY <1>0, ElementOfSeq
<1>2. /\ Len(SubSeq(s, c + 1, Len(s))) = IF c + 1 <= Len(s) THEN Len(s) - (c + 1) + 1 ELSE 0
      /\ \A i \in 1 .. Len(s) - (c + 1) + 1 : SubSeq(s, c + 1, Len(s))[i] = s[(c + 1) + i - 1]
    BY <1>0, <1>1, SubSeqProperties
<1> SUFFICES ASSUME NEW i \in 1 .. Len(SubSeq(s, c + 1, Len(s))) PROVE SubSeq(s, c + 1, Len(s))[i] < l
    BY DEF Below
<1>3. i \in 1 .. Len(s) - (c + 1) + 1 /\ (c + 1) + i - 1 = i + c /\ i + c \in 1 .. Len(s)
    BY <1>0, <1>2
<1>4. SubSeq(s, c + 1, Len(s))[i] = s[i + c]
    BY <1>2, <1>3
<1> QED
    BY <1>3, <1>4 DEF Below

\* What MemoryBuffer does to the old sound in it.
LEMMA WrittenOld ==
    ASSUME NEW b \in Frames, NEW c \in Nat, NEW x \in Label, NEW lo, Ordered(b, lo, x),
           NEW k \in Nat, NEW l \in Nat, OldUpTo(b.frames, k, l)
    PROVE  /\ OldUpTo(Written(b, c, x).frames, IF x < l THEN k + c ELSE k, l)
           /\ x < l => Written(b, c, x).size <= k + c
<1>1. b.frames \in Seq(Label) /\ b.size = Len(b.frames) /\ Rising(b.frames, lo, x)
    BY DEF Frames, Ordered
<1>2. PICK s \in Seq(Label) : s = [i \in 1 .. c |-> x] /\ Len(s) = c /\ \A i \in 1 .. Len(s) : s[i] = x
    <2>1. /\ [i \in 1 .. c |-> x] \in Seq(Label) /\ Len([i \in 1 .. c |-> x]) = c
          /\ \A i \in 1 .. Len([j \in 1 .. c |-> x]) : [j \in 1 .. c |-> x][i] = x
        OBVIOUS
    <2> QED
        BY <2>1
<1>3. Written(b, c, x).size = b.size + c /\ Written(b, c, x).frames = b.frames \o s
    BY <1>2 DEF Written
<1>4. CASE x < l
    <2>1. Len(b.frames) <= k
        BY <1>1, <1>4, AllOld
    <2>2. OldUpTo(b.frames \o s, k + Len(s), l)
        BY <1>1, <2>1, OldConcat
    <2>3. Len(b.frames) \in Nat
        BY <1>1, LenProperties
    <2> QED
        BY <1>1, <1>2, <1>3, <1>4, <2>1, <2>2, <2>3
<1>5. CASE ~(x < l)
    <2>1. \A i \in 1 .. Len(s) : s[i] >= l
        BY <1>2, <1>5, LabelIsNat
    <2>2. OldUpTo(b.frames \o s, k, l)
        BY <1>1, <2>1, OldConcatNew
    <2> QED
        BY <1>3, <1>5, <2>2
<1> QED
    BY <1>4, <1>5

LEMMA ReadOld ==
    ASSUME NEW b \in Frames, NEW c \in Nat \ {0}, c <= b.size, b.size = Len(b.frames),
           NEW k \in Nat, NEW l \in Nat, OldUpTo(b.frames, k, l)
    PROVE  /\ OldUpTo(AfterRead(b, c).frames, IF k > c THEN k - c ELSE 0, l)
           /\ Oldest(b) < l => k >= 1
<1>1. b.frames \in Seq(Label) /\ b.frames # <<>>
    <2>1. b.frames \in Seq(Label)
        BY DEF Frames
    <2> QED
        BY <2>1, LenProperties, EmptySeq
<1>2. AfterRead(b, c).frames = SubSeq(b.frames, c + 1, Len(b.frames)) /\ Oldest(b) = Head(b.frames)
    BY <1>1 DEF AfterRead, Oldest
<1>3. OldUpTo(SubSeq(b.frames, c + 1, Len(b.frames)), IF k > c THEN k - c ELSE 0, l)
    BY <1>1, OldRest
<1>4. Head(b.frames) < l => k >= 1
    BY <1>1, OldTail
<1> QED
    BY <1>2, <1>3, <1>4

LEMMA WrittenBelow ==
    ASSUME NEW b \in Frames, NEW c \in Nat, NEW x \in Label, NEW l, x < l, Below(b.frames, l)
    PROVE  Below(Written(b, c, x).frames, l)
<1>1. [i \in 1 .. c |-> x] \in Seq(Label) /\ Below([i \in 1 .. c |-> x], l)
    BY DEF Below
<1>2. b.frames \in Seq(Label) /\ Written(b, c, x).frames = b.frames \o [i \in 1 .. c |-> x]
    BY DEF Frames, Written
<1> QED
    BY <1>1, <1>2, BelowConcat

LEMMA ReadBelow ==
    ASSUME NEW b \in Frames, NEW c \in Nat \ {0}, c <= b.size, b.size = Len(b.frames), NEW l, Below(b.frames, l)
    PROVE  Below(AfterRead(b, c).frames, l) /\ Oldest(b) < l
<1>1. b.frames \in Seq(Label) /\ b.frames # <<>>
    <2>1. b.frames \in Seq(Label)
        BY DEF Frames
    <2> QED
        BY <2>1, LenProperties, EmptySeq
<1>2. AfterRead(b, c).frames = SubSeq(b.frames, c + 1, Len(b.frames)) /\ Oldest(b) = Head(b.frames)
    BY <1>1 DEF AfterRead, Oldest
<1> QED
    BY <1>1, <1>2, BelowTail, BelowRest

-------------------------------------------------------------------------------
(* The old packets that are still to come.                                 *)

Times(n, size) == IF n = 0 THEN 0 ELSE IF n = 1 THEN size ELSE size + size

\* Old frames and packets on the way make no more than two packets with those
\* already drawn (s): o packets wait in queue_out and p is about to, memory has
\* m frames, h chunk is being converted, buffer has k frames and g packet is
\* about to be written; q chunks and r packets have room for what comes.
Fits(o, p, m, h, k, g, q, r, s) ==
    /\ {o, m, k, s} \subseteq Nat /\ {p, h, g} \subseteq {0, 1} /\ {q, r} \subseteq {0, 1, 2}
    /\ k + Times(g, PACKET) <= Times(q, CHUNK)
    /\ h + q <= 2
    /\ m + Times(h + q, CONVERTED) <= Times(r, FRAMES)
    /\ o + p + r + s <= 2

LEMMA FitsWritten ==
    ASSUME NEW o, NEW p, NEW m, NEW h, NEW k, NEW g, NEW q, NEW r, NEW s, Fits(o, p, m, h, k, g, q, r, s)
    PROVE  Fits(o, p, m, h, k + Times(g, PACKET), 0, q, r, s) /\ Fits(o, p, m, h, k, 0, q, r, s)
BY Sizes DEF Fits, Times

LEMMA FitsRead ==
    ASSUME NEW o, NEW p, NEW m, NEW h, NEW k, NEW q, NEW r, NEW s, Fits(o, p, m, h, k, 0, q, r, s)
    PROVE  /\ k >= 1 => Fits(o, p, m, 1, IF k > CHUNK THEN k - CHUNK ELSE 0, 0, q - 1, r, s)
           /\ k = 0 => (IF k > CHUNK THEN k - CHUNK ELSE 0) = 0
<1>1. k \in Nat /\ CHUNK \in Nat \ {0}
    BY Sizes DEF Fits
<1>2. CASE k >= 1
    <2>1. q \in {1, 2} /\ q - 1 \in {0, 1, 2} /\ 1 + (q - 1) = q
        BY <1>1, <1>2 DEF Fits, Times
    <2>2. (IF k > CHUNK THEN k - CHUNK ELSE 0) \in Nat
        BY <1>1
    <2>3. (IF k > CHUNK THEN k - CHUNK ELSE 0) + Times(0, PACKET) <= Times(q - 1, CHUNK)
        BY <1>1, <1>2, <2>1 DEF Fits, Times
    <2>4. m + Times(q, CONVERTED) <= Times(r, FRAMES)
        BY <2>1, Sizes DEF Fits, Times
    <2>5. Fits(o, p, m, 1, IF k > CHUNK THEN k - CHUNK ELSE 0, 0, q - 1, r, s)
        BY <2>1, <2>2, <2>3, <2>4 DEF Fits
    <2> QED
        BY <1>2, <2>5
<1>3. CASE k = 0
    BY <1>1, <1>3
<1> QED
    BY <1>1, <1>2, <1>3

LEMMA FitsCompleted ==
    ASSUME NEW o, NEW p, NEW m, NEW h, NEW k, NEW g, NEW q, NEW r, NEW s, Fits(o, p, m, h, k, g, q, r, s)
    PROVE  Fits(o, p, m + Times(h, CONVERTED), 0, k, g, q, r, s) /\ Fits(o, p, m, 0, k, g, q, r, s)
BY Sizes DEF Fits, Times

LEMMA FitsTaken ==
    ASSUME NEW o, NEW p, NEW m, NEW k, NEW g, NEW q, NEW r, NEW s, Fits(o, p, m, 0, k, g, q, r, s)
    PROVE  /\ m >= FRAMES => Fits(o, 1, m - FRAMES, 0, k, g, q, r - 1, s)
           /\ m >= 1 => Fits(o, 1, IF m > FRAMES THEN m - FRAMES ELSE 0, 0, 0, 0, 0, r - 1, s)
           /\ m = 0 => Fits(o, p, 0, 0, 0, 0, 0, r, s)
<1>1. m \in Nat /\ FRAMES \in Nat \ {0} /\ CONVERTED \in Nat
    BY Sizes DEF Fits
<1>2. CASE m >= 1
    <2>1. r \in {1, 2} /\ r - 1 \in {0, 1, 2} /\ Times(r - 1, FRAMES) + FRAMES = Times(r, FRAMES)
        BY <1>1, <1>2 DEF Fits, Times
    <2>2. o + 1 + (r - 1) + s <= 2
        BY <2>1 DEF Fits
    <2>3. m >= FRAMES => Fits(o, 1, m - FRAMES, 0, k, g, q, r - 1, s)
        BY <1>1, <2>1, <2>2 DEF Fits, Times
    <2>4. (IF m > FRAMES THEN m - FRAMES ELSE 0) + Times(0, CONVERTED) <= Times(r - 1, FRAMES)
        BY <1>1, <2>1 DEF Fits, Times
    <2>5. Fits(o, 1, IF m > FRAMES THEN m - FRAMES ELSE 0, 0, 0, 0, 0, r - 1, s)
        BY <1>1, <2>1, <2>2, <2>4 DEF Fits, Times
    <2> QED
        BY <1>1, <1>2, <2>3, <2>5
<1>3. CASE m = 0
    BY <1>1, <1>3 DEF Fits, Times
<1> QED
    BY <1>1, <1>2, <1>3

LEMMA FitsDrawn ==
    ASSUME NEW o, NEW p, NEW m, NEW h, NEW k, NEW g, NEW q, NEW r, NEW s, Fits(o, p, m, h, k, g, q, r, s)
    PROVE  /\ p = 1 => Fits(o + 1, 0, m, h, k, g, q, r, s)
           /\ o >= 1 => Fits(o - 1, p, m, h, k, g, q, r, s + 1)
           /\ Fits(o, p, m, h, k, g, q, r, 0) /\ s \in Nat /\ s <= 2
BY DEF Fits

\* Where nothing was counted yet: less than a chunk in the buffer, and one
\* packet or chunk in the hands of the resampler.
LEMMA FitsFirst ==
    ASSUME PACKET <= CHUNK, CONVERTED <= FRAMES, NEW k \in Nat, k < CHUNK
    PROVE  /\ Fits(0, 0, 0, 0, k, 1, 2, 2, 0)
           /\ Fits(0, 0, 0, 1, k, 0, 1, 2, 0)
           /\ Fits(0, 1, 0, 0, k, 0, 1, 1, 0)
BY Sizes DEF Fits, Times

-------------------------------------------------------------------------------
(* Old sound in the states of the system.                                  *)

\* open() closes the resampler before it uses what memory_buffer_ has.
MemoryCounts == swr # "none" \/ ui \notin {"open", "format"}

Counted(o, p, m, h, k, g) ==
    /\ OldUpTo(queue_out, o, session) /\ OldUpTo(buffer.frames, k, session)
    /\ MemoryCounts => OldUpTo(memory.frames, m, session)
    /\ resampler.at = "pushing" /\ resampler.label < session => p = 1
    /\ resampler.at \in {"chunk", "converting"} /\ resampler.label < session => h = 1
    /\ resampler.at \in {"popped", "buffering"} /\ resampler.label < session => g = 1

Budgeted ==
    \E o \in Nat, p \in Nat, m \in Nat, h \in Nat, k \in Nat, g \in Nat, q \in Nat, r \in Nat :
        Counted(o, p, m, h, k, g) /\ Fits(o, p, m, h, k, g, q, r, stale)

\* Nothing of this recording is on its way.
AllBelow ==
    /\ Below(queue_out, session) /\ Below(memory.frames, session)
    /\ Below(buffer.frames, session) /\ Below(queue_in, session)
    /\ resampler.at \notin {"idle", "exited"} => resampler.label < session

Clearing == ui \in {"clear buffer", "clear in", "clear out"}

\* Nothing was captured since start(), or since an open() that failed.
Dry ==
    \/ ui \in {"clear buffer", "clear in", "clear out", "open"}
    \/ worker = "none" /\ (ui \in {"format", "resampler"} \/ (ui = "idle" /\ swr # "none"))

\* start() has cleared, or the resampler stayed open as nothing was opened.
Due ==
    \/ ui \in {"open", "format", "resampler", "idle", "join", "close resampler"}
    \/ Clearing /\ swr # "none"

Tidy == ~overlapped /\ ~early /\ PACKET <= CHUNK /\ CONVERTED <= FRAMES

Ending ==
    /\ ui \in {"join thread", "deleted"} => is_terminated
    /\ is_terminated => ui \in {"join thread", "deleted"} \/ Clearing

\* The resampler is not closed under execute().
Closed ==
    /\ resampler.at = "converting" => swr # "none"
    /\ ui = "resampler" => swr = "none"

NoneOlder(s, l) == \A i \in 1 .. Len(s) : s[i] >= l

Remaining ==
    /\ Clearing => stale = 0
    /\ Dry => AllBelow
    /\ ui = "clear out" => queue_in = <<>>
    /\ Due => NoneOlder(queue_in, session) /\ Budgeted

OldInv == Ending /\ (Tidy => Closed /\ stale <= 2 /\ (~is_terminated => Remaining))

LEMMA TidyBefore == AudioInv /\ Next /\ Tidy' => Tidy
<1> SUFFICES ASSUME AudioInv, Next, Tidy' PROVE ~overlapped /\ ~early
    BY DEF Tidy
<1>0. ~overlapped' /\ ~early' /\ overlapped \in BOOLEAN /\ early \in BOOLEAN
    BY DEF Tidy, AudioInv, TypeOK
<1>1. CASE UI
    <2>1. (overlapped' = overlapped \/ overlapped' = TRUE) /\ early' = early
        BY <1>1 DEF Start, ClearBuffer, ClearIn, ClearOut, OpenDevice, OpenFailsEarly, OpenFailsLate,
               ReadFormat, OpenResampler, Stop, CloseDevice, CloseResampler, Terminate, JoinThread, Touch,
               Fail, FinValues, device, sound, resampling, budget, history, UI
    <2> QED
        BY <1>0, <2>1
<1>2. CASE Worker \/ Draw
    <2>1. overlapped' = overlapped /\ early' = early
        BY <1>2 DEF Worker, GetBuffer, TestQueue, PushIn, WorkerExit, Draw, history
    <2> QED
        BY <1>0, <2>1
<1>3. CASE Resampler
    <2>1. overlapped' = overlapped \/ overlapped' = TRUE
        BY <1>3 DEF Pop, EnterBuffer, WriteAndRead, EnterExecute, Convert, ConvertFails, PushOut, ResamplerExit,
               Resampler, Touch, history
    <2>2. early' = early \/ early' = (early \/ ~format_set)
        BY <1>3 DEF Pop, EnterBuffer, WriteAndRead, EnterExecute, Convert, ConvertFails, PushOut, ResamplerExit,
               Resampler, history
    <2> QED
        BY <1>0, <2>1, <2>2
<1> QED
    BY <1>1, <1>2, <1>3 DEF Next

LEMMA EndingKept == AudioInv /\ Ending /\ Next => Ending'
<1> SUFFICES ASSUME AudioInv, Ending, Next PROVE Ending'
    OBVIOUS
<1>0. is_terminated \in BOOLEAN
    BY DEF AudioInv, TypeOK
<1>1. CASE UI
    <2>1. \/ ui' \in {"join thread", "deleted"} /\ is_terminated'
          \/ ui' \in {"clear buffer", "clear in", "clear out"}
          \/ ~is_terminated' /\ ui' \notin {"join thread", "deleted"}
        <3>1. CASE Start \/ ClearBuffer \/ ClearIn \/ ClearOut \/ JoinThread \/ Terminate
            BY <1>0, <3>1 DEF Start, ClearBuffer, ClearIn, ClearOut, JoinThread, Terminate, resampling
        <3>2. CASE OpenDevice \/ OpenFailsEarly \/ OpenFailsLate \/ ReadFormat \/ OpenResampler
            <4>1. /\ ui \in {"open", "format", "resampler"} /\ ui' \in {"open", "format", "resampler", "idle"}
                  /\ is_terminated' = is_terminated
                BY <3>2 DEF OpenDevice, OpenFailsEarly, OpenFailsLate, ReadFormat, OpenResampler, resampling
            <4> QED
                BY <4>1 DEF Ending, Clearing
        <3>3. CASE Stop \/ CloseDevice \/ CloseResampler
            <4>1. /\ ui \in {"idle", "join", "close resampler"} /\ ui' \in {"idle", "join", "close resampler"}
                  /\ is_terminated' = is_terminated
                BY <3>3 DEF Stop, CloseDevice, CloseResampler, resampling
            <4> QED
                BY <4>1 DEF Ending, Clearing
        <3> QED
            BY <1>1, <3>1, <3>2, <3>3 DEF UI
    <2> QED
        BY <2>1 DEF Ending, Clearing
<1>2. CASE Worker \/ Draw
    <2>1. ui' = ui /\ is_terminated' = is_terminated
        BY <1>2 DEF Worker, GetBuffer, TestQueue, PushIn, WorkerExit, Draw, resampling
    <2> QED
        BY <2>1 DEF Ending, Clearing
<1>3. CASE Resampler
    <2>1. ui' = ui /\ is_terminated' = is_terminated
        BY <1>3 DEF Pop, EnterBuffer, WriteAndRead, EnterExecute, Convert, ConvertFails, PushOut, ResamplerExit, Resampler
    <2> QED
        BY <2>1 DEF Ending, Clearing
<1> QED
    BY <1>1, <1>2, <1>3 DEF Next

LEMMA ClosedKept == AudioInv /\ Closed /\ Next /\ Tidy' => Closed'
<1> SUFFICES ASSUME AudioInv, Closed, Next, Tidy' PROVE Closed'
    OBVIOUS
<1>1. CASE UI
    BY <1>1 DEF Start, ClearBuffer, ClearIn, ClearOut, OpenDevice, OpenFailsEarly, OpenFailsLate,
           ReadFormat, OpenResampler, Stop, CloseDevice, CloseResampler, Terminate, JoinThread, Touch,
           Fail, FinValues, device, sound, resampling, budget, history, UI, Closed, Tidy
<1>2. CASE Worker \/ Draw
    BY <1>2 DEF Worker, GetBuffer, TestQueue, PushIn, WorkerExit, Draw, resampling, Closed
<1>3. CASE Resampler
    <2>1. ui' = ui /\ swr' = swr
        BY <1>3 DEF Pop, EnterBuffer, WriteAndRead, EnterExecute, Convert, ConvertFails, PushOut, ResamplerExit, Resampler
    <2>2. resampler'.at = "converting" => swr # "none"
        <3>1. resampler \in At({"idle", "popped", "buffering", "chunk", "converting", "pushing", "exited"})
            BY DEF AudioInv, TypeOK
        <3>2. CASE Pop
            BY <3>2 DEF Pop, Holding
        <3>3. CASE EnterBuffer
            BY <3>1, <3>3 DEF EnterBuffer, At
        <3>4. CASE WriteAndRead
            BY <3>4 DEF WriteAndRead, Holding, Idle
        <3>5. CASE EnterExecute
            BY <3>1, <3>5 DEF EnterExecute, At, Holding, Idle
        <3>6. CASE Convert
            BY <3>6 DEF Convert, Holding, Idle
        <3>7. CASE ConvertFails \/ PushOut \/ ResamplerExit
            BY <3>7 DEF ConvertFails, PushOut, ResamplerExit, Holding, Idle
        <3> QED
            BY <1>3, <3>2, <3>3, <3>4, <3>5, <3>6, <3>7 DEF Resampler
    <2> QED
        BY <2>1, <2>2 DEF Closed
<1> QED
    BY <1>1, <1>2, <1>3 DEF Next

\* Where a step only drops sound (Kept), what was old before covers the old.
LEMMA KeptBudget ==
    ASSUME Kept, session' = session, stale' = stale, MemoryCounts' => MemoryCounts \/ memory' = Cleared,
           Budgeted
    PROVE  Budgeted'
<1>1. PICK o \in Nat, p \in Nat, m \in Nat, h \in Nat, k \in Nat, g \in Nat, q \in Nat, r \in Nat :
          Counted(o, p, m, h, k, g) /\ Fits(o, p, m, h, k, g, q, r, stale)
    BY DEF Budgeted
<1>2. OldUpTo(queue_out', o, session') /\ OldUpTo(buffer'.frames, k, session')
    <2>1. queue_out' \in {queue_out, <<>>} /\ buffer' \in {buffer, Cleared} /\ Cleared.frames = <<>>
        BY DEF Kept, Cleared
    <2>2. OldUpTo(queue_out, o, session) /\ OldUpTo(buffer.frames, k, session)
        BY <1>1 DEF Counted
    <2> QED
        BY <2>1, <2>2, OldEmpty
<1>3. MemoryCounts' => OldUpTo(memory'.frames, m, session')
    <2>1. memory' \in {memory, Cleared} /\ Cleared.frames = <<>>
        BY DEF Kept, Cleared
    <2>2. MemoryCounts => OldUpTo(memory.frames, m, session)
        BY <1>1 DEF Counted
    <2> QED
        BY <2>1, <2>2, OldEmpty
<1>4. /\ resampler'.at = "pushing" /\ resampler'.label < session' => p = 1
      /\ resampler'.at \in {"chunk", "converting"} /\ resampler'.label < session' => h = 1
      /\ resampler'.at \in {"popped", "buffering"} /\ resampler'.label < session' => g = 1
    BY <1>1 DEF Kept, Counted
<1>5. Counted(o, p, m, h, k, g)' /\ Fits(o, p, m, h, k, g, q, r, stale)'
    <2>1. Counted(o, p, m, h, k, g)'
        BY <1>2, <1>3, <1>4 DEF Counted
    <2>2. Fits(o, p, m, h, k, g, q, r, stale')
        BY <1>1
    <2> QED
        BY <2>1, <2>2 DEF Fits
<1> QED
    BY <1>5 DEF Budgeted

LEMMA KeptBelow ==
    ASSUME TypeOK, Kept, session' = session, AllBelow
    PROVE  AllBelow'
<1>1. Cleared.frames = <<>>
    BY DEF Cleared
<1>2. /\ Below(queue_out', session') /\ Below(memory'.frames, session')
      /\ Below(buffer'.frames, session') /\ Below(queue_in', session')
    <2>1. /\ Below(queue_out, session) /\ Below(memory.frames, session)
          /\ Below(buffer.frames, session) /\ Below(queue_in, session)
        BY DEF AllBelow
    <2>2. /\ queue_in' \in {queue_in, <<>>} /\ queue_out' \in {queue_out, <<>>}
          /\ buffer' \in {buffer, Cleared} /\ memory' \in {memory, Cleared}
        BY DEF Kept
    <2> QED
        BY <1>1, <2>1, <2>2, OldEmpty
<1>3. resampler'.at \notin {"idle", "exited"} => resampler'.label < session'
    BY DEF AllBelow, Kept
<1> QED
    BY <1>2, <1>3 DEF AllBelow

LEMMA KeptNoneOlder ==
    ASSUME Kept, session' = session, NoneOlder(queue_in, session)
    PROVE  NoneOlder(queue_in', session')
BY DEF Kept, NoneOlder

\* What start() finds is older than the recording it starts.
LEMMA StartBelow ==
    ASSUME AudioInv, OrderInv, ~early, Start
    PROVE  AllBelow'
<1>1. session' = session + 1 /\ UNCHANGED <<queue_in, queue_out, buffer, memory, resampler>>
    BY DEF Start, sound, resampling
<1>2. PICK a \in Label, b \in Label, c \in Label : Laid(a, b, c)
    BY DEF OrderInv
<1>3. a \in Nat /\ b \in Nat /\ c \in Nat /\ session \in Nat /\ a <= session /\ b <= session /\ c <= session
    <2>1. a \in Nat /\ b \in Nat /\ c \in Nat /\ session \in Nat /\ a <= b /\ b <= c /\ c <= session
        BY <1>2, LabelIsNat, SessionIsLabel DEF Laid, AudioInv
    <2> QED
        BY <2>1
<1>4. ASSUME NEW s \in Seq(Label), NEW lo, NEW hi \in Nat, hi <= session, Rising(s, lo, hi)
      PROVE  Below(s, session')
    <2> SUFFICES ASSUME NEW i \in 1 .. Len(s) PROVE s[i] < session'
        BY DEF Below
    <2>1. s[i] \in Nat /\ s[i] <= hi
        BY <1>4, LabelIsNat, ElementOfSeq DEF Rising
    <2> QED
        BY <1>1, <1>3, <1>4, <2>1
<1>5. /\ queue_out \in Seq(Label) /\ Rising(queue_out, Noise, a)
      /\ memory.frames \in Seq(Label) /\ Rising(memory.frames, a, b)
      /\ buffer.frames \in Seq(Label) /\ Rising(buffer.frames, b, c)
      /\ queue_in \in Seq(Label) /\ Rising(queue_in, c, session)
    BY <1>2 DEF Laid, Ordered, AudioInv, TypeOK, Frames
<1>6. /\ Below(queue_out, session') /\ Below(memory.frames, session')
      /\ Below(buffer.frames, session') /\ Below(queue_in, session')
    <2>1. session <= session
        BY <1>3
    <2> QED
        BY <1>3, <1>4, <1>5, <2>1
<1>7. resampler.at \notin {"idle", "exited"} => resampler.label < session'
    <2>1. resampler.at \in {"idle", "popped", "buffering", "chunk", "converting", "pushing", "exited"}
        BY DEF AudioInv, TypeOK, At
    <2>2. resampler.at \notin {"idle", "exited"} => resampler.label \in {a, b, c}
        BY <1>2, <2>1 DEF Laid
    <2> QED
        BY <1>1, <1>3, <2>2
<1> QED
    BY <1>1, <1>6, <1>7 DEF AllBelow

\* start() while the resampler stayed open: what was counted stays counted.
LEMMA StartRemaining ==
    ASSUME AudioInv, OrderInv, Remaining, ~early, ~is_terminated, Start
    PROVE  Remaining'
<1>1. /\ ui = "idle" /\ worker = "none" /\ ui' = "clear buffer" /\ stale' = 0 /\ session' = session + 1
      /\ UNCHANGED <<queue_in, queue_out, buffer, memory, resampler, swr>>
    BY DEF Start, sound, resampling
<1>2. AllBelow'
    BY StartBelow
<1>3. (Clearing => stale = 0)' /\ (Dry => AllBelow)' /\ (ui = "clear out" => queue_in = <<>>)'
    BY <1>1, <1>2
<1>4. ASSUME Due' PROVE NoneOlder(queue_in, session)' /\ Budgeted'
    <2>1. swr # "none"
        BY <1>1, <1>4 DEF Due, Clearing
    <2>2. AllBelow /\ NoneOlder(queue_in, session) /\ Budgeted
        BY <1>1, <2>1 DEF Remaining, Dry, Due
    <2>3. queue_in = <<>>
        <3>1. queue_in \in Seq(Label) /\ session \in Nat
            BY SessionIsLabel DEF AudioInv, TypeOK
        <3>2. \A i \in 1 .. Len(queue_in) : queue_in[i] \in Nat /\ queue_in[i] < session /\ queue_in[i] >= session
            BY <2>2, <3>1, LabelIsNat, ElementOfSeq DEF AllBelow, Below, NoneOlder
        <3>3. \A i \in 1 .. Len(queue_in) : FALSE
            BY <3>1, <3>2
        <3>4. Len(queue_in) \in Nat
            BY <3>1, LenProperties
        <3>5. Len(queue_in) = 0
            BY <3>3, <3>4
        <3> QED
            BY <3>1, <3>5, EmptySeq
    <2>4. NoneOlder(queue_in, session)'
        <3>1. NoneOlder(<<>>, session')
            BY DEF NoneOlder
        <3> QED
            BY <1>1, <2>3, <3>1
    <2>5. PICK o \in Nat, p \in Nat, m \in Nat, h \in Nat, k \in Nat, g \in Nat, q \in Nat, r \in Nat :
              Counted(o, p, m, h, k, g) /\ Fits(o, p, m, h, k, g, q, r, stale)
        BY <2>2 DEF Budgeted
    <2>6. OldUpTo(queue_out, o, session') /\ OldUpTo(buffer.frames, k, session') /\ OldUpTo(memory.frames, m, session')
        <3>1. OldUpTo(queue_out, o, session) /\ OldUpTo(buffer.frames, k, session) /\ OldUpTo(memory.frames, m, session)
            BY <2>1, <2>5 DEF Counted, MemoryCounts
        <3>2. Below(queue_out, session) /\ Below(buffer.frames, session) /\ Below(memory.frames, session)
            BY <2>2 DEF AllBelow
        <3> QED
            BY <3>1, <3>2 DEF OldUpTo, Below
    <2>7. /\ resampler.at = "pushing" => p = 1
          /\ resampler.at \in {"chunk", "converting"} => h = 1
          /\ resampler.at \in {"popped", "buffering"} => g = 1
        <3>1. resampler.at \notin {"idle", "exited"} => resampler.label < session
            BY <2>2 DEF AllBelow
        <3> QED
            BY <2>5, <3>1 DEF Counted
    <2>8. Counted(o, p, m, h, k, g)'
        BY <1>1, <2>6, <2>7 DEF Counted
    <2>9. Fits(o, p, m, h, k, g, q, r, stale')
        BY <1>1, <2>5, FitsDrawn
    <2>10. Fits(o, p, m, h, k, g, q, r, stale)'
        BY <2>9 DEF Fits
    <2> QED
        BY <2>4, <2>8, <2>10 DEF Budgeted
<1> QED
    BY <1>3, <1>4 DEF Remaining

\* The end of do_clear() with the resampler closed: nothing was counted yet.
LEMMA FirstBudget ==
    ASSUME AudioInv, OrderInv, Tidy, Closed, Remaining, ~is_terminated, ClearOut, swr = "none"
    PROVE  Budgeted'
<1>1. /\ ui = "clear out" /\ ui' = "open" /\ queue_out' = <<>>
      /\ UNCHANGED <<queue_in, buffer, memory, resampler, swr, session, stale>>
    BY DEF ClearOut, resampling, budget, history
<1>2. stale' = 0 /\ ~MemoryCounts'
    BY <1>1 DEF Remaining, Clearing, MemoryCounts
<1>3. PICK k \in Nat : k < CHUNK /\ OldUpTo(buffer.frames, k, session)
    <2>1. buffer.frames \in Seq(Label) /\ buffer.size < CHUNK
        BY DEF AudioInv, TypeOK, Frames, BacklogBounded, Tidy
    <2>2. buffer.size = Len(buffer.frames)
        BY DEF OrderInv, Laid, Ordered, Tidy
    <2>3. Len(buffer.frames) \in Nat /\ Len(buffer.frames) < CHUNK
        BY <2>1, <2>2, LenProperties
    <2>4. OldUpTo(buffer.frames, Len(buffer.frames), session)
        BY <2>3 DEF OldUpTo
    <2> QED
        BY <2>3, <2>4
<1>4. PACKET <= CHUNK /\ CONVERTED <= FRAMES
    BY DEF Tidy
<1>5. /\ Fits(0, 0, 0, 0, k, 1, 2, 2, stale')
      /\ Fits(0, 0, 0, 1, k, 0, 1, 2, stale')
      /\ Fits(0, 1, 0, 0, k, 0, 1, 1, stale')
    BY <1>2, <1>3, <1>4, FitsFirst
<1>6. OldUpTo(queue_out', 0, session') /\ OldUpTo(buffer'.frames, k, session')
    BY <1>1, <1>3, OldEmpty
<1>7. ASSUME NEW p \in Nat, NEW h \in Nat, NEW g \in Nat, NEW q \in Nat, NEW r \in Nat,
             Fits(0, p, 0, h, k, g, q, r, stale'), Counted(0, p, 0, h, k, g)'
      PROVE  Budgeted'
    <2>1. Fits(0, p, 0, h, k, g, q, r, stale)'
        BY <1>7 DEF Fits
    <2> QED
        BY <1>3, <1>7, <2>1 DEF Budgeted
<1>8. resampler'.at \in {"idle", "popped", "buffering", "chunk", "pushing", "exited"}
    BY <1>1 DEF AudioInv, TypeOK, At, Closed
<1>9. CASE resampler'.at \in {"popped", "buffering"}
    <2>1. Counted(0, 0, 0, 0, k, 1)'
        BY <1>2, <1>6, <1>9 DEF Counted
    <2> QED
        BY <1>5, <1>7, <2>1
<1>10. CASE resampler'.at = "chunk"
    <2>1. Counted(0, 0, 0, 1, k, 0)'
        BY <1>2, <1>6, <1>10 DEF Counted
    <2> QED
        BY <1>5, <1>7, <2>1
<1>11. CASE resampler'.at \in {"pushing", "idle", "exited"}
    <2>1. Counted(0, 1, 0, 0, k, 0)'
        BY <1>2, <1>6, <1>11 DEF Counted
    <2> QED
        BY <1>5, <1>7, <2>1
<1> QED
    BY <1>8, <1>9, <1>10, <1>11

\* The steps of the UI thread that make sound count which did not.
LEMMA UIPlaces ==
    ASSUME AudioInv, Ending, Closed, UI, ~is_terminated', ~Start
    PROVE  /\ Dry' => Dry
           /\ Clearing' => Clearing
           /\ Due' => Due \/ (ClearOut /\ swr = "none")
           /\ MemoryCounts' => MemoryCounts \/ memory' = Cleared
<1>1. CASE ClearBuffer \/ ClearIn
    BY <1>1 DEF ClearBuffer, ClearIn, resampling, Dry, Clearing, Due, MemoryCounts
<1>2. CASE ClearOut
    BY <1>2 DEF ClearOut, resampling, Dry, Clearing, Due, MemoryCounts
<1>3. CASE OpenDevice
    BY <1>3 DEF OpenDevice, resampling, Dry, Clearing, Due, MemoryCounts
<1>4. CASE OpenFailsEarly \/ OpenFailsLate
    BY <1>4 DEF OpenFailsEarly, OpenFailsLate, resampling, device, Dry, Clearing, Due, MemoryCounts
<1>5. CASE ReadFormat
    BY <1>5 DEF ReadFormat, device, Dry, Clearing, Due, MemoryCounts
<1>6. CASE OpenResampler
    BY <1>6 DEF OpenResampler, device, Dry, Clearing, Due, MemoryCounts
<1>7. CASE Stop
    BY <1>7 DEF Stop, Dry, Clearing, Due, MemoryCounts
<1>8. CASE CloseDevice
    BY <1>8 DEF CloseDevice, resampling, Dry, Clearing, Due, MemoryCounts
<1>9. CASE CloseResampler
    BY <1>9 DEF CloseResampler, device, Dry, Clearing, Due, MemoryCounts
<1>10. CASE Terminate \/ JoinThread
    <2>1. CASE Terminate
        BY <2>1 DEF Terminate
    <2>2. CASE JoinThread
        BY <2>2 DEF JoinThread, resampling, Ending
    <2> QED
        BY <1>10, <2>1, <2>2
<1> QED
    BY <1>1, <1>2, <1>3, <1>4, <1>5, <1>6, <1>7, <1>8, <1>9, <1>10 DEF UI

LEMMA UIRemaining ==
    ASSUME AudioInv, OrderInv, Ending, Tidy, Closed, ~is_terminated => Remaining, UI, ~is_terminated'
    PROVE  Remaining'
<1>1. CASE Start
    <2>1. ~is_terminated
        BY <1>1 DEF Start
    <2> QED
        BY <1>1, <2>1, StartRemaining DEF Tidy
<1>2. CASE ~Start
    <2>1. ~is_terminated /\ session' = session /\ stale' = stale
        <3>1. session' = session /\ stale' = stale
            BY <1>2 DEF ClearBuffer, ClearIn, ClearOut, OpenDevice, OpenFailsEarly, OpenFailsLate, ReadFormat,
                   OpenResampler, Stop, CloseDevice, CloseResampler, Terminate, JoinThread, budget, history, UI
        <3>2. is_terminated' = is_terminated \/ is_terminated'
            BY <1>2 DEF ClearBuffer, ClearIn, ClearOut, OpenDevice, OpenFailsEarly, OpenFailsLate, ReadFormat,
                   OpenResampler, Stop, CloseDevice, CloseResampler, Terminate, JoinThread, resampling, UI
        <3> QED
            BY <3>1, <3>2
    <2>2. Remaining /\ Kept /\ TypeOK
        BY <2>1, UIKeeps DEF AudioInv
    <2>3. /\ Dry' => Dry
          /\ Clearing' => Clearing
          /\ Due' => Due \/ (ClearOut /\ swr = "none")
          /\ MemoryCounts' => MemoryCounts \/ memory' = Cleared
        BY <1>2, UIPlaces
    <2>4. Clearing' => stale' = 0
        BY <2>1, <2>2, <2>3 DEF Remaining
    <2>5. Dry' => AllBelow'
        BY <2>1, <2>2, <2>3, KeptBelow DEF Remaining
    <2>6. ui' = "clear out" => queue_in' = <<>>
        BY DEF Start, ClearBuffer, ClearIn, ClearOut, OpenDevice, OpenFailsEarly, OpenFailsLate,
               ReadFormat, OpenResampler, Stop, CloseDevice, CloseResampler, Terminate, JoinThread, UI
    <2>7. CASE Due
        BY <2>1, <2>2, <2>3, <2>4, <2>5, <2>6, <2>7, KeptBudget, KeptNoneOlder DEF Remaining
    <2>8. CASE ClearOut /\ swr = "none"
        <3>1. Budgeted'
            BY <2>1, <2>2, <2>8, FirstBudget
        <3>2. queue_in' = <<>>
            BY <2>2, <2>8 DEF ClearOut, Remaining
        <3>3. NoneOlder(queue_in', session')
            BY <3>2 DEF NoneOlder
        <3> QED
            BY <2>4, <2>5, <2>6, <3>1, <3>3 DEF Remaining
    <2>9. CASE ~Due'
        BY <2>4, <2>5, <2>6, <2>9 DEF Remaining
    <2> QED
        BY <2>3, <2>7, <2>8, <2>9
<1> QED
    BY <1>1, <1>2

\* The device and the audio thread.
LEMMA WorkerRemaining ==
    ASSUME AudioInv, Ending, Remaining, ~is_terminated, Worker
    PROVE  Remaining'
<1>1. /\ UNCHANGED <<ui, session, stale, buffer, memory, queue_out, swr, resampler>>
      /\ worker # "none" /\ worker' # "none"
    BY DEF Worker, GetBuffer, TestQueue, PushIn, WorkerExit, sound, resampling, budget, history
<1>2. ~Dry' /\ ~Clearing' /\ ui # "clear out"
    BY <1>1 DEF Dry, Clearing, NoWorkerYet, AudioInv
<1>3. Due' => Budgeted'
    <2>1. Due' => Due
        BY <1>1 DEF Due, Clearing
    <2>2. Budgeted => Budgeted'
        <3> SUFFICES ASSUME Budgeted PROVE Budgeted'
            OBVIOUS
        <3>1. PICK o \in Nat, p \in Nat, m \in Nat, h \in Nat, k \in Nat, g \in Nat, q \in Nat, r \in Nat :
                  Counted(o, p, m, h, k, g) /\ Fits(o, p, m, h, k, g, q, r, stale)
            BY DEF Budgeted
        <3>2. Counted(o, p, m, h, k, g)'
            BY <1>1, <3>1 DEF Counted, MemoryCounts
        <3>3. Fits(o, p, m, h, k, g, q, r, stale')
            BY <1>1, <3>1
        <3>4. Fits(o, p, m, h, k, g, q, r, stale)'
            BY <3>3 DEF Fits
        <3> QED
            BY <3>2, <3>4 DEF Budgeted
    <2> QED
        BY <2>1, <2>2 DEF Remaining
<1>4. Due' => NoneOlder(queue_in, session)'
    <2>0. Due' => Due
        BY <1>1 DEF Due, Clearing
    <2>1. CASE PushIn
        <3>1. queue_in' = Append(queue_in, session) /\ queue_in \in Seq(Label) /\ session \in Nat
            BY <2>1, SessionIsLabel DEF PushIn, AudioInv, TypeOK
        <3>2. /\ Len(queue_in) \in Nat /\ Len(Append(queue_in, session)) = Len(queue_in) + 1
              /\ \A i \in 1 .. Len(queue_in) : Append(queue_in, session)[i] = queue_in[i]
              /\ Append(queue_in, session)[Len(queue_in) + 1] = session
            BY <3>1
        <3>3. NoneOlder(queue_in, session) => NoneOlder(Append(queue_in, session), session)
            BY <3>1, <3>2 DEF NoneOlder
        <3> QED
            BY <1>1, <2>0, <3>1, <3>3 DEF Remaining
    <2>2. CASE queue_in' = queue_in
        BY <1>1, <2>0, <2>2 DEF Remaining, NoneOlder
    <2> QED
        BY <2>1, <2>2 DEF Worker, GetBuffer, TestQueue, WorkerExit, sound
<1> QED
    BY <1>1, <1>2, <1>3, <1>4 DEF Remaining

LEMMA DrawRemaining ==
    ASSUME AudioInv, Remaining, Draw
    PROVE  Remaining'
<1>1. /\ queue_out # <<>> /\ queue_out' = Tail(queue_out)
      /\ stale' = IF Head(queue_out) < session /\ ui \in {"open", "format", "resampler", "idle"} THEN stale + 1 ELSE stale
      /\ UNCHANGED <<ui, worker, session, buffer, memory, queue_in, swr, resampler>>
    BY DEF Draw, device, resampling, budget
<1>2. queue_out \in Seq(Label) /\ session \in Nat
    BY SessionIsLabel DEF AudioInv, TypeOK
<1>3. Clearing' => stale' = 0
    BY <1>1 DEF Remaining, Clearing
<1>4. Dry' => AllBelow'
    <2>1. Dry' => Dry
        BY <1>1 DEF Dry
    <2>2. Below(queue_out, session) => Below(Tail(queue_out), session)
        BY <1>1, <1>2, BelowTail
    <2> QED
        BY <1>1, <2>1, <2>2 DEF Remaining, AllBelow
<1>5. ui' = "clear out" => queue_in' = <<>>
    BY <1>1 DEF Remaining
<1>6. ASSUME Due' PROVE NoneOlder(queue_in, session)' /\ Budgeted'
    <2>1. Due
        BY <1>1, <1>6 DEF Due, Clearing
    <2>2. NoneOlder(queue_in, session)'
        BY <1>1, <2>1 DEF Remaining, NoneOlder
    <2>3. PICK o \in Nat, p \in Nat, m \in Nat, h \in Nat, k \in Nat, g \in Nat, q \in Nat, r \in Nat :
              Counted(o, p, m, h, k, g) /\ Fits(o, p, m, h, k, g, q, r, stale)
        BY <2>1 DEF Remaining, Budgeted
    <2>4. /\ OldUpTo(Tail(queue_out), o, session)
          /\ Head(queue_out) < session => o >= 1 /\ OldUpTo(Tail(queue_out), o - 1, session)
        BY <1>1, <1>2, <2>3, OldTail DEF Counted
    <2>5. ASSUME NEW n \in Nat, OldUpTo(Tail(queue_out), n, session), Fits(n, p, m, h, k, g, q, r, stale')
          PROVE  Budgeted'
        <3>1. Counted(n, p, m, h, k, g)'
            BY <1>1, <2>3, <2>5 DEF Counted, MemoryCounts
        <3>2. Fits(n, p, m, h, k, g, q, r, stale)'
            BY <2>5 DEF Fits
        <3> QED
            BY <3>1, <3>2 DEF Budgeted
    <2>6. CASE stale' = stale
        BY <2>2, <2>3, <2>4, <2>5, <2>6
    <2>7. CASE Head(queue_out) < session /\ stale' = stale + 1
        <3>1. o - 1 \in Nat /\ Fits(o - 1, p, m, h, k, g, q, r, stale')
            BY <2>3, <2>4, <2>7, FitsDrawn
        <3> QED
            BY <2>2, <2>4, <2>5, <2>7, <3>1
    <2> QED
        BY <1>1, <2>2, <2>6, <2>7
<1> QED
    BY <1>3, <1>4, <1>5, <1>6 DEF Remaining

\* The steps of the resampler: what they take, they pass on.
LEMMA ResamplerRemaining ==
    ASSUME Remaining, UNCHANGED <<ui, worker, swr, session, stale>>,
           queue_in' = queue_in \/ (queue_in # <<>> /\ queue_in' = Tail(queue_in)), queue_in \in Seq(Label),
           AllBelow => AllBelow',
           NoneOlder(queue_in, session) /\ Budgeted => Budgeted'
    PROVE  Remaining'
<1>1. (Dry' => Dry) /\ (Clearing' => Clearing) /\ (Due' => Due)
    BY DEF Dry, Clearing, Due
<1>2. NoneOlder(queue_in, session) => NoneOlder(queue_in', session')
    <2>1. queue_in # <<>> /\ NoneOlder(queue_in, session) => NoneOlder(Tail(queue_in), session)
        <3>1. queue_in # <<>> => \A i \in 1 .. Len(Tail(queue_in)) : i + 1 \in 1 .. Len(queue_in) /\ Tail(queue_in)[i] = queue_in[i + 1]
            OBVIOUS
        <3> QED
            BY <3>1 DEF NoneOlder
    <2> QED
        BY <2>1 DEF NoneOlder
<1>3. ui' = "clear out" => queue_in' = <<>>
    BY DEF Remaining
<1>4. Clearing' => stale' = 0
    BY <1>1 DEF Remaining
<1> QED
    BY <1>1, <1>2, <1>3, <1>4 DEF Remaining

LEMMA PopRemaining ==
    ASSUME AudioInv, Remaining, Pop
    PROVE  Remaining'
<1>1. /\ queue_in # <<>> /\ queue_in' = Tail(queue_in) /\ resampler' = Holding("popped", Head(queue_in))
      /\ UNCHANGED <<ui, worker, swr, session, stale, buffer, memory, queue_out>>
    BY DEF Pop, device, budget, history
<1>2. queue_in \in Seq(Label) /\ session \in Nat
    BY SessionIsLabel DEF AudioInv, TypeOK
<1>3. resampler'.at = "popped" /\ resampler'.label = Head(queue_in)
    BY <1>1 DEF Holding
<1>4. AllBelow => AllBelow'
    <2>1. Below(queue_in, session) => Head(queue_in) < session /\ Below(Tail(queue_in), session)
        BY <1>1, <1>2, BelowTail
    <2> QED
        BY <1>1, <1>3, <2>1 DEF AllBelow
<1>5. ASSUME NoneOlder(queue_in, session), Budgeted PROVE Budgeted'
    <2>1. ~(resampler'.label < session)
        <3>1. Len(queue_in) \in Nat /\ Len(queue_in) # 0 /\ Head(queue_in) = queue_in[1] /\ Head(queue_in) \in Label
            BY <1>1, <1>2
        <3>2. 1 \in 1 .. Len(queue_in)
            BY <3>1
        <3>3. Head(queue_in) >= session /\ Head(queue_in) \in Nat
            BY <1>5, <3>1, <3>2, LabelIsNat DEF NoneOlder
        <3> QED
            BY <1>2, <1>3, <3>3
    <2>2. PICK o \in Nat, p \in Nat, m \in Nat, h \in Nat, k \in Nat, g \in Nat, q \in Nat, r \in Nat :
              Counted(o, p, m, h, k, g) /\ Fits(o, p, m, h, k, g, q, r, stale)
        BY <1>5 DEF Budgeted
    <2>3. Counted(o, p, m, h, k, g)'
        BY <1>1, <2>1, <2>2 DEF Counted, MemoryCounts
    <2>4. Fits(o, p, m, h, k, g, q, r, stale')
        BY <1>1, <2>2
    <2>5. Fits(o, p, m, h, k, g, q, r, stale)'
        BY <2>4 DEF Fits
    <2> QED
        BY <2>3, <2>5 DEF Budgeted
<1> QED
    BY <1>1, <1>2, <1>4, <1>5, ResamplerRemaining

LEMMA PushRemaining ==
    ASSUME AudioInv, OrderInv, ~early, Remaining, PushOut
    PROVE  Remaining'
<1>1. /\ resampler.at = "pushing" /\ queue_out' = Append(queue_out, resampler.label) /\ resampler' = Idle
      /\ UNCHANGED <<ui, worker, swr, session, stale, buffer, memory, queue_in>>
    BY DEF PushOut, device, budget, history
<1>2. PICK a \in Label, b \in Label, c \in Label : Laid(a, b, c)
    BY DEF OrderInv
<1>3. /\ queue_out \in Seq(Label) /\ Rising(queue_out, Noise, a) /\ resampler.label = a /\ session \in Nat
      /\ queue_in \in Seq(Label) /\ a \in Nat
    BY <1>1, <1>2, LabelIsNat, SessionIsLabel DEF Laid, AudioInv, TypeOK
<1>4. queue_out' = queue_out \o <<a>> /\ <<a>> \in Seq(Label) /\ Len(<<a>>) = 1
    BY <1>1, <1>3, AppendIsConcat
<1>5. resampler'.at = "idle"
    BY <1>1 DEF Idle, Holding
<1>6. AllBelow => AllBelow'
    <2>1. ASSUME AllBelow PROVE Below(queue_out \o <<a>>, session)
        <3>1. a < session /\ Below(queue_out, session)
            BY <1>1, <1>3, <2>1 DEF AllBelow
        <3>2. Below(<<a>>, session)
            BY <3>1 DEF Below
        <3> QED
            BY <1>3, <1>4, <3>1, <3>2, BelowConcat
    <2> QED
        BY <1>1, <1>4, <1>5, <2>1 DEF AllBelow
<1>7. ASSUME Budgeted PROVE Budgeted'
    <2>1. PICK o \in Nat, p \in Nat, m \in Nat, h \in Nat, k \in Nat, g \in Nat, q \in Nat, r \in Nat :
              Counted(o, p, m, h, k, g) /\ Fits(o, p, m, h, k, g, q, r, stale)
        BY <1>7 DEF Budgeted
    <2>2. OldUpTo(queue_out, o, session)
        BY <2>1 DEF Counted
    <2>3. ASSUME NEW n \in Nat, NEW x \in Nat, OldUpTo(queue_out', n, session), Fits(n, x, m, h, k, g, q, r, stale')
          PROVE  Budgeted'
        <3>1. Counted(n, x, m, h, k, g)'
            BY <1>1, <1>5, <2>1, <2>3 DEF Counted, MemoryCounts
        <3>2. Fits(n, x, m, h, k, g, q, r, stale)'
            BY <2>3 DEF Fits
        <3> QED
            BY <3>1, <3>2 DEF Budgeted
    <2>4. CASE a < session
        <3>1. p = 1
            BY <1>1, <1>3, <2>1, <2>4 DEF Counted
        <3>2. Len(queue_out) <= o
            BY <1>3, <2>2, <2>4, AllOld
        <3>3. OldUpTo(queue_out', o + 1, session)
            BY <1>3, <1>4, <3>2, OldConcat
        <3>4. Fits(o + 1, 0, m, h, k, g, q, r, stale')
            BY <1>1, <2>1, <3>1, FitsDrawn
        <3> QED
            BY <2>3, <3>3, <3>4
    <2>5. CASE ~(a < session)
        <3>1. \A i \in 1 .. Len(<<a>>) : <<a>>[i] >= session
            BY <1>3, <2>5
        <3>2. OldUpTo(queue_out', o, session)
            BY <1>3, <1>4, <2>2, <3>1, OldConcatNew
        <3>3. Fits(o, p, m, h, k, g, q, r, stale')
            BY <1>1, <2>1
        <3> QED
            BY <2>3, <3>2, <3>3
    <2> QED
        BY <2>4, <2>5
<1> QED
    BY <1>1, <1>3, <1>6, <1>7, ResamplerRemaining

LEMMA ReadRemaining ==
    ASSUME AudioInv, OrderInv, Remaining, WriteAndRead, ~early'
    PROVE  Remaining'
<1>1. /\ ~early /\ format_set /\ resampler.at = "buffering"
      /\ UNCHANGED <<ui, worker, swr, session, stale, queue_in, memory, queue_out>>
    BY DEF WriteAndRead, device, budget
<1>2. PICK a \in Label, b \in Label, c \in Label : Laid(a, b, c)
    BY <1>1 DEF OrderInv
<1>3. b \in Nat /\ c \in Nat /\ b <= c /\ resampler.label = c /\ Ordered(buffer, b, c)
    BY <1>1, <1>2, LabelIsNat DEF Laid
<1>t. buffer \in Frames /\ session \in Nat /\ queue_in \in Seq(Label) /\ PACKET \in Nat /\ CHUNK \in Nat \ {0}
    BY SessionIsLabel, Sizes DEF AudioInv, TypeOK
<1>4. PICK w \in Frames : w = Written(buffer, PACKET, c) /\ w.size = Len(w.frames)
    <2>1. Written(buffer, PACKET, c) \in Frames
        BY <1>t, WrittenType
    <2>2. Ordered(Written(buffer, PACKET, c), b, c)
        BY <1>t, <1>3, WrittenOrdered
    <2> QED
        BY <2>1, <2>2 DEF Ordered
<1>5. \/ CHUNK <= w.size /\ buffer' = AfterRead(w, CHUNK) /\ resampler' = Holding("chunk", Oldest(w))
      \/ buffer' = w /\ resampler' = Idle
    <2>1. PICK n \in SourceSize :
            IF 0 <= n /\ n <= w.size
            THEN buffer' = AfterRead(w, n) /\ resampler' = Holding("chunk", Oldest(w))
            ELSE buffer' = w /\ resampler' = Idle
        BY <1>3, <1>4 DEF WriteAndRead
    <2>2. n = CHUNK
        BY <1>1, <2>1 DEF SourceSize
    <2> QED
        BY <2>1, <2>2
<1>6. ASSUME AllBelow PROVE AllBelow'
    <2>1. Below(w.frames, session)
        <3>1. c < session /\ Below(buffer.frames, session)
            BY <1>1, <1>3, <1>6 DEF AllBelow
        <3> QED
            BY <1>t, <1>4, <3>1, WrittenBelow
    <2>2. CASE CHUNK <= w.size /\ buffer' = AfterRead(w, CHUNK) /\ resampler' = Holding("chunk", Oldest(w))
        <3>1. Below(buffer'.frames, session) /\ Oldest(w) < session
            BY <1>t, <1>4, <2>1, <2>2, ReadBelow
        <3>2. resampler'.label = Oldest(w)
            BY <2>2 DEF Holding
        <3> QED
            BY <1>1, <1>6, <3>1, <3>2 DEF AllBelow
    <2>3. CASE buffer' = w /\ resampler' = Idle
        <3>1. resampler'.at = "idle"
            BY <2>3 DEF Idle, Holding
        <3> QED
            BY <1>1, <1>6, <2>1, <2>3, <3>1 DEF AllBelow
    <2> QED
        BY <1>5, <2>2, <2>3
<1>7. ASSUME Budgeted PROVE Budgeted'
    <2>1. PICK o \in Nat, p \in Nat, m \in Nat, h \in Nat, k \in Nat, g \in Nat, q \in Nat, r \in Nat :
              Counted(o, p, m, h, k, g) /\ Fits(o, p, m, h, k, g, q, r, stale)
        BY <1>7 DEF Budgeted
    <2>2. PICK n \in Nat : OldUpTo(w.frames, n, session) /\ Fits(o, p, m, h, n, 0, q, r, stale)
        <3>1. OldUpTo(w.frames, IF c < session THEN k + PACKET ELSE k, session)
            BY <1>t, <1>3, <1>4, <2>1, WrittenOld DEF Counted
        <3>2. CASE c < session
            <4>1. g = 1 /\ Times(g, PACKET) = PACKET /\ k + PACKET \in Nat
                BY <1>t, <1>1, <1>3, <2>1, <3>2 DEF Counted, Times
            <4>2. Fits(o, p, m, h, k + PACKET, 0, q, r, stale)
                BY <2>1, <4>1, FitsWritten
            <4> QED
                BY <3>1, <3>2, <4>1, <4>2
        <3>3. CASE ~(c < session)
            <4>1. Fits(o, p, m, h, k, 0, q, r, stale)
                BY <2>1, FitsWritten
            <4> QED
                BY <3>1, <3>3, <4>1
        <3> QED
            BY <3>2, <3>3
    <2>3. ASSUME NEW x \in Nat, NEW y \in Nat, NEW z \in Nat, Counted(o, p, m, x, y, 0)',
                 Fits(o, p, m, x, y, 0, z, r, stale')
          PROVE  Budgeted'
        <3>1. Fits(o, p, m, x, y, 0, z, r, stale)'
            BY <2>3 DEF Fits
        <3> QED
            BY <2>3, <3>1 DEF Budgeted
    <2>4. CASE buffer' = w /\ resampler' = Idle
        <3>1. resampler'.at = "idle"
            BY <2>4 DEF Idle, Holding
        <3>2. Counted(o, p, m, h, n, 0)'
            BY <1>1, <2>1, <2>2, <2>4, <3>1 DEF Counted, MemoryCounts
        <3> QED
            BY <1>1, <2>2, <2>3, <3>2
    <2>5. CASE CHUNK <= w.size /\ buffer' = AfterRead(w, CHUNK) /\ resampler' = Holding("chunk", Oldest(w))
        <3>1. PICK y \in Nat : y = (IF n > CHUNK THEN n - CHUNK ELSE 0)
            <4>1. (IF n > CHUNK THEN n - CHUNK ELSE 0) \in Nat
                BY <1>t
            <4> QED
                BY <4>1
        <3>2. OldUpTo(buffer'.frames, y, session) /\ (Oldest(w) < session => n >= 1)
            BY <1>t, <1>4, <2>2, <2>5, <3>1, ReadOld
        <3>3. resampler'.at = "chunk" /\ resampler'.label = Oldest(w)
            BY <2>5 DEF Holding
        <3>4. ASSUME NEW x \in Nat, n >= 1 => x = 1 PROVE Counted(o, p, m, x, y, 0)'
            BY <1>1, <2>1, <3>2, <3>3, <3>4 DEF Counted, MemoryCounts
        <3>5. CASE n >= 1
            <4>1. Fits(o, p, m, 1, y, 0, q - 1, r, stale')
                BY <1>1, <2>2, <3>1, <3>5, FitsRead
            <4>2. q - 1 \in Nat
                BY <4>1 DEF Fits
            <4> QED
                BY <2>3, <3>4, <4>1, <4>2
        <3>6. CASE n = 0
            <4>1. y = 0 /\ Fits(o, p, m, h, 0, 0, q, r, stale')
                BY <1>t, <1>1, <2>2, <3>1, <3>6
            <4> QED
                BY <2>3, <3>4, <3>6, <4>1
        <3> QED
            BY <3>5, <3>6
    <2> QED
        BY <1>5, <2>4, <2>5
<1> QED
    BY <1>t, <1>1, <1>6, <1>7, ResamplerRemaining

LEMMA ConvertRemaining ==
    ASSUME AudioInv, OrderInv, Remaining, Closed, Convert, ~early
    PROVE  Remaining'
<1>1. /\ resampler.at = "converting"
      /\ UNCHANGED <<ui, worker, swr, session, stale, queue_in, buffer, queue_out>>
    BY DEF Convert, device, budget, history
<1>2. PICK a \in Label, b \in Label, c \in Label : Laid(a, b, c)
    BY DEF OrderInv
<1>3. a \in Nat /\ b \in Nat /\ c \in Nat /\ a <= b /\ resampler.label = b /\ Ordered(memory, a, b) /\ Ordered(buffer, b, c)
    BY <1>1, <1>2, LabelIsNat DEF Laid
<1>t. /\ memory \in Frames /\ session \in Nat /\ queue_in \in Seq(Label) /\ CONVERTED \in Nat /\ FRAMES \in Nat \ {0}
      /\ buffer.frames \in Seq(Label)
    BY SessionIsLabel, Sizes DEF AudioInv, TypeOK, Frames
<1>4. PICK w \in Frames : w = Written(memory, CONVERTED, b) /\ w.size = Len(w.frames)
    <2>1. Written(memory, CONVERTED, b) \in Frames
        BY <1>t, WrittenType
    <2>2. Ordered(Written(memory, CONVERTED, b), a, b)
        BY <1>t, <1>3, WrittenOrdered
    <2> QED
        BY <2>1, <2>2 DEF Ordered
<1>5. \/ FRAMES <= w.size /\ memory' = AfterRead(w, FRAMES) /\ resampler' = Holding("pushing", Oldest(w))
      \/ memory' = w /\ resampler' = Idle
    <2>1. w.size \in Nat
        BY DEF Frames
    <2>2. \/ w.size >= FRAMES /\ memory' = AfterRead(w, FRAMES) /\ resampler' = Holding("pushing", Oldest(w))
          \/ memory' = w /\ resampler' = Idle
        BY <1>3, <1>4 DEF Convert
    <2> QED
        BY <1>t, <2>1, <2>2
<1>6. ASSUME AllBelow PROVE AllBelow'
    <2>1. Below(w.frames, session)
        <3>1. b < session /\ Below(memory.frames, session)
            BY <1>1, <1>3, <1>6 DEF AllBelow
        <3> QED
            BY <1>t, <1>4, <3>1, WrittenBelow
    <2>2. CASE FRAMES <= w.size /\ memory' = AfterRead(w, FRAMES) /\ resampler' = Holding("pushing", Oldest(w))
        <3>1. Below(memory'.frames, session) /\ Oldest(w) < session
            BY <1>t, <1>4, <2>1, <2>2, ReadBelow
        <3>2. resampler'.label = Oldest(w)
            BY <2>2 DEF Holding
        <3> QED
            BY <1>1, <1>6, <3>1, <3>2 DEF AllBelow
    <2>3. CASE memory' = w /\ resampler' = Idle
        <3>1. resampler'.at = "idle"
            BY <2>3 DEF Idle, Holding
        <3> QED
            BY <1>1, <1>6, <2>1, <2>3, <3>1 DEF AllBelow
    <2> QED
        BY <1>5, <2>2, <2>3
<1>7. ASSUME Budgeted PROVE Budgeted'
    <2>1. PICK o \in Nat, p \in Nat, m \in Nat, h \in Nat, k \in Nat, g \in Nat, q \in Nat, r \in Nat :
              Counted(o, p, m, h, k, g) /\ Fits(o, p, m, h, k, g, q, r, stale)
        BY <1>7 DEF Budgeted
    <2>2. OldUpTo(memory.frames, m, session)
        BY <1>1, <2>1 DEF Counted, MemoryCounts, Closed
    <2>3. /\ OldUpTo(w.frames, IF b < session THEN m + CONVERTED ELSE m, session)
          /\ b < session => w.size <= m + CONVERTED
        BY <1>t, <1>3, <1>4, <2>2, WrittenOld
    <2>4. PICK n \in Nat : /\ OldUpTo(w.frames, n, session) /\ Fits(o, p, n, 0, k, g, q, r, stale)
                           /\ b < session => w.size <= n
        <3>1. CASE b < session
            <4>1. h = 1 /\ Times(h, CONVERTED) = CONVERTED /\ m + CONVERTED \in Nat
                BY <1>t, <1>1, <1>3, <2>1, <3>1 DEF Counted, Times
            <4>2. Fits(o, p, m + CONVERTED, 0, k, g, q, r, stale)
                BY <2>1, <4>1, FitsCompleted
            <4> QED
                BY <2>3, <3>1, <4>1, <4>2
        <3>2. CASE ~(b < session)
            <4>1. Fits(o, p, m, 0, k, g, q, r, stale)
                BY <2>1, FitsCompleted
            <4> QED
                BY <2>3, <3>2, <4>1
        <3> QED
            BY <3>1, <3>2
    <2>5. ASSUME NEW x \in Nat, NEW y \in Nat, NEW i \in Nat, NEW j \in Nat, NEW u \in Nat, NEW v \in Nat,
                 Counted(o, x, y, 0, i, j)', Fits(o, x, y, 0, i, j, u, v, stale')
          PROVE  Budgeted'
        <3>1. Fits(o, x, y, 0, i, j, u, v, stale)'
            BY <2>5 DEF Fits
        <3> QED
            BY <2>5, <3>1 DEF Budgeted
    <2>6. CASE memory' = w /\ resampler' = Idle
        <3>1. resampler'.at = "idle"
            BY <2>6 DEF Idle, Holding
        <3>2. Counted(o, p, n, 0, k, g)'
            BY <1>1, <2>1, <2>4, <2>6, <3>1 DEF Counted
        <3> QED
            BY <1>1, <2>4, <2>5, <3>2
    <2>7. CASE FRAMES <= w.size /\ memory' = AfterRead(w, FRAMES) /\ resampler' = Holding("pushing", Oldest(w))
        <3>1. PICK y \in Nat : y = (IF n > FRAMES THEN n - FRAMES ELSE 0)
            <4>1. (IF n > FRAMES THEN n - FRAMES ELSE 0) \in Nat
                BY <1>t
            <4> QED
                BY <4>1
        <3>2. OldUpTo(memory'.frames, y, session) /\ (Oldest(w) < session => n >= 1)
            BY <1>t, <1>4, <2>4, <2>7, <3>1, ReadOld
        <3>3. resampler'.at = "pushing" /\ resampler'.label = Oldest(w)
            BY <2>7 DEF Holding
        <3>4. ASSUME NEW x \in Nat, n >= 1 => x = 1, NEW i \in Nat, OldUpTo(buffer.frames, i, session), NEW j \in Nat
              PROVE  Counted(o, x, y, 0, i, j)'
            BY <1>1, <2>1, <3>2, <3>3, <3>4 DEF Counted
        <3>5. CASE b < session
            <4>1. n >= FRAMES /\ n >= 1 /\ y = n - FRAMES
                <5>1. w.size \in Nat
                    BY DEF Frames
                <5> QED
                    BY <1>t, <2>4, <2>7, <3>1, <3>5, <5>1
            <4>2. Fits(o, 1, y, 0, k, g, q, r - 1, stale')
                BY <1>1, <2>4, <4>1, FitsTaken
            <4>3. r - 1 \in Nat
                BY <4>2 DEF Fits
            <4>4. Counted(o, 1, y, 0, k, g)'
                BY <2>1, <3>4 DEF Counted
            <4> QED
                BY <2>5, <4>2, <4>3, <4>4
        <3>6. CASE ~(b < session)
            <4>1. OldUpTo(buffer.frames, 0, session)
                BY <1>t, <1>3, <3>6, NotOlder DEF Ordered
            <4>2. CASE n >= 1
                <5>1. Fits(o, 1, y, 0, 0, 0, 0, r - 1, stale')
                    BY <1>1, <2>4, <3>1, <4>2, FitsTaken
                <5>2. r - 1 \in Nat
                    BY <5>1 DEF Fits
                <5>3. Counted(o, 1, y, 0, 0, 0)'
                    BY <3>4, <4>1
                <5> QED
                    BY <2>5, <5>1, <5>2, <5>3
            <4>3. CASE n = 0
                <5>1. y = 0 /\ Fits(o, p, y, 0, 0, 0, 0, r, stale')
                    BY <1>t, <1>1, <2>4, <3>1, <4>3, FitsTaken
                <5>2. Counted(o, p, y, 0, 0, 0)'
                    BY <3>4, <4>1, <4>3
                <5> QED
                    BY <2>5, <5>1, <5>2
            <4> QED
                BY <4>2, <4>3
        <3> QED
            BY <3>5, <3>6
    <2> QED
        BY <1>5, <2>6, <2>7
<1> QED
    BY <1>t, <1>1, <1>6, <1>7, ResamplerRemaining

THEOREM Remnants == Spec => []OldInv
<1>1. Init => OldInv
    <2> SUFFICES ASSUME Init PROVE OldInv
        OBVIOUS
    <2>1. /\ ui = "idle" /\ swr = "none" /\ stale = 0 /\ is_terminated = FALSE /\ session = 0
          /\ queue_in = <<>> /\ queue_out = <<>> /\ buffer.frames = <<>> /\ memory.frames = <<>>
        BY DEF Init
    <2>2. resampler.at = "idle"
        BY DEF Init, Idle, Holding
    <2>3. Ending /\ Closed /\ stale <= 2
        BY <2>1, <2>2 DEF Ending, Closed, Clearing
    <2>4. NoneOlder(queue_in, session) /\ OldUpTo(<<>>, 0, session)
        <3>1. NoneOlder(<<>>, session)
            BY DEF NoneOlder
        <3> QED
            BY <2>1, <3>1, OldEmpty
    <2>5. Counted(0, 0, 0, 0, 0, 0) /\ Fits(0, 0, 0, 0, 0, 0, 0, 0, stale)
        <3>1. Counted(0, 0, 0, 0, 0, 0)
            BY <2>1, <2>2, <2>4 DEF Counted
        <3>2. Fits(0, 0, 0, 0, 0, 0, 0, 0, 0)
            BY Sizes DEF Fits, Times
        <3> QED
            BY <2>1, <3>1, <3>2
    <2>6. Budgeted
        BY <2>5 DEF Budgeted
    <2>7. Remaining
        BY <2>1, <2>4, <2>6 DEF Remaining, Dry, Clearing
    <2> QED
        BY <2>3, <2>7 DEF OldInv
<1>2. AudioInv /\ AudioInv' /\ OrderInv /\ OldInv /\ [Next]_vars => OldInv'
    <2> SUFFICES ASSUME AudioInv, AudioInv', OrderInv, OldInv, [Next]_vars PROVE OldInv'
        OBVIOUS
    <2>1. CASE Next
        <3>1. Ending /\ Ending'
            BY <2>1, EndingKept DEF OldInv
        <3> SUFFICES ASSUME Tidy' PROVE Closed' /\ stale' <= 2 /\ (~is_terminated' => Remaining')
            BY <3>1 DEF OldInv
        <3>2. Tidy /\ Closed /\ stale <= 2 /\ (~is_terminated => Remaining)
            BY <2>1, TidyBefore DEF OldInv
        <3>3. Closed'
            BY <2>1, <3>2, ClosedKept
        <3>4. ~early /\ ~early'
            BY <3>2 DEF Tidy
        <3>5. ASSUME ~is_terminated' PROVE Remaining'
            <4>1. CASE UI
                BY <3>1, <3>2, <3>5, <4>1, UIRemaining
            <4>2. CASE Worker \/ Draw \/ Resampler
                <5>1. is_terminated' = is_terminated
                    BY <4>2 DEF Worker, GetBuffer, TestQueue, PushIn, WorkerExit, Draw, resampling,
                           Pop, EnterBuffer, WriteAndRead, EnterExecute, Convert, ConvertFails, PushOut, ResamplerExit, Resampler
                <5>2. Remaining /\ ~is_terminated
                    BY <3>2, <3>5, <5>1
                <5>3. CASE Worker
                    BY <3>1, <5>2, <5>3, WorkerRemaining
                <5>4. CASE Draw
                    BY <5>2, <5>4, DrawRemaining
                <5>5. CASE EnterBuffer \/ EnterExecute \/ ConvertFails \/ ResamplerExit
                    <6>1. UNCHANGED <<ui, worker, swr, session, stale, queue_in, memory>> /\ TypeOK /\ queue_in \in Seq(Label)
                        BY <5>5 DEF EnterBuffer, EnterExecute, ConvertFails, ResamplerExit, device, sound, budget, history, AudioInv, TypeOK
                    <6>2. Kept
                        BY <5>5, <6>1, ResamplerKeeps
                    <6>3. MemoryCounts' => MemoryCounts
                        BY <6>1 DEF MemoryCounts
                    <6>4. (AllBelow => AllBelow') /\ (Budgeted => Budgeted')
                        BY <6>1, <6>2, <6>3, KeptBelow, KeptBudget
                    <6> QED
                        BY <5>2, <6>1, <6>4, ResamplerRemaining
                <5> QED
                    BY <3>2, <3>4, <4>2, <5>2, <5>3, <5>4, <5>5, PopRemaining, ReadRemaining, ConvertRemaining,
                       PushRemaining DEF Resampler
            <4> QED
                BY <2>1, <4>1, <4>2 DEF Next
        <3>6. stale' <= 2
            <4>1. CASE UNCHANGED stale
                BY <3>2, <4>1
            <4>2. CASE Start
                <5>1. stale' = 0
                    BY <4>2 DEF Start
                <5> QED
                    BY <5>1
            <4>3. CASE Draw /\ ui \in {"open", "format", "resampler", "idle"}
                <5>1. ~is_terminated' /\ Due'
                    <6>1. is_terminated' = is_terminated /\ ui' = ui
                        BY <4>3 DEF Draw, resampling
                    <6>2. ~is_terminated
                        BY <3>1, <4>3 DEF Ending, Clearing
                    <6> QED
                        BY <4>3, <6>1, <6>2 DEF Due
                <5>2. Budgeted'
                    BY <3>5, <5>1 DEF Remaining
                <5>3. PICK o \in Nat, p \in Nat, m \in Nat, h \in Nat, k \in Nat, g \in Nat, q \in Nat, r \in Nat :
                          Fits(o, p, m, h, k, g, q, r, stale)'
                    BY <5>2 DEF Budgeted
                <5>4. Fits(o, p, m, h, k, g, q, r, stale')
                    BY <5>3 DEF Fits
                <5> QED
                    BY <5>4, FitsDrawn
            <4>4. \/ UNCHANGED stale \/ Start \/ (Draw /\ ui \in {"open", "format", "resampler", "idle"})
                <5>1. CASE UI
                    BY <5>1 DEF ClearBuffer, ClearIn, ClearOut, OpenDevice, OpenFailsEarly, OpenFailsLate, ReadFormat,
                           OpenResampler, Stop, CloseDevice, CloseResampler, Terminate, JoinThread, history, UI
                <5>2. CASE Worker
                    BY <5>2 DEF Worker, GetBuffer, TestQueue, PushIn, WorkerExit, history
                <5>3. CASE Resampler
                    BY <5>3 DEF Pop, EnterBuffer, WriteAndRead, EnterExecute, Convert, ConvertFails, PushOut,
                           ResamplerExit, Resampler, history
                <5>4. CASE Draw
                    BY <5>4 DEF Draw
                <5> QED
                    BY <2>1, <5>1, <5>2, <5>3, <5>4 DEF Next
            <4> QED
                BY <4>1, <4>2, <4>3, <4>4
        <3> QED
            BY <3>3, <3>5, <3>6
    <2>2. CASE UNCHANGED vars
        <3>1. /\ UNCHANGED <<ui, swr, stale, is_terminated, session, queue_in, queue_out, buffer, memory>>
              /\ UNCHANGED <<resampler, worker, overlapped, early>>
            BY <2>2 DEF vars, device, sound, resampling, budget, history
        <3>2. (Ending' <=> Ending) /\ (Tidy' <=> Tidy) /\ (Closed' <=> Closed)
            BY <3>1 DEF Ending, Tidy, Closed, Clearing
        <3>3. Remaining => Remaining'
            <4>1. Kept /\ (MemoryCounts' => MemoryCounts) /\ TypeOK /\ queue_in \in Seq(Label)
                BY <3>1 DEF Kept, MemoryCounts, AudioInv, TypeOK
            <4>2. (AllBelow => AllBelow') /\ (Budgeted => Budgeted')
                BY <3>1, <4>1, KeptBelow, KeptBudget
            <4> QED
                BY <3>1, <4>1, <4>2, ResamplerRemaining
        <3> QED
            BY <3>1, <3>2, <3>3 DEF OldInv
    <2> QED
        BY <2>1, <2>2
<1> QED
    BY <1>1, <1>2, AudioInvariant, Cuts, PTL DEF Spec

\* No more than two packets of earlier recordings are drawn in the next one.
THEOREM OldSoundStaysBounded == Spec => []OldSoundBounded
<1>1. OldInv => OldSoundBounded
    BY DEF OldInv, OldSoundBounded, Tidy
<1> QED
    BY <1>1, Remnants, PTL

===============================================================================
