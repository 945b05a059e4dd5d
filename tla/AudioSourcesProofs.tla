-------------------------- MODULE AudioSourcesProofs --------------------------
(***************************************************************************)
(* Theorems about AudioSources, for every interval, every width of an int  *)
(* and every number of packets and pauses.                                 *)
(***************************************************************************)
EXTENDS AudioSources, FiniteSetTheorems, SequenceTheorems, TLAPS

\* The microphone is open, whether it is still there or not.
Held == {"running", "lost"}

\* What the form's thread is doing decides what may run.
FormInv ==
    /\ mic \in {"device", "none"} /\ stream \in {"closed", "opened", "running", "lost"}
    /\ started \in BOOLEAN
    /\ ui \in {"idle", "open", "count", "tick", "go", "close", "stop"}
    /\ ui = "idle" /\ state = "recording" => (stream \in Held <=> ~started)
    /\ ui = "idle" /\ state # "recording" => stream \notin Held /\ ~started
    /\ ui \in {"open", "count", "tick", "go"} =>
            stream \notin Held /\ ~started /\ state \in {"starting", "resuming"}
    /\ ui \in {"close", "stop"} => state \in {"paused", "stopped"}
    /\ ui = "stop" => stream = "closed"

\* A packet on its way: how far index_ is ahead of queue_.
Step == {"out", "read", "write", "tag", "push", "mark"}
Ahead(s) == IF on_data[s] \in {"tag", "push"} THEN 1 ELSE 0

NumberInv ==
    /\ on_data \in [Source -> Step] /\ reg \in [Source -> Nat]
    /\ packets \in Seq(Nat) /\ index \in Nat /\ marked \in Nat
    /\ overlapped \in BOOLEAN
    /\ on_data["timer"] # "out" => thread = "fire"
    /\ state = "new" => /\ index = 0 /\ packets = <<>> /\ ui = "idle"
                        /\ on_data = [s \in Source |-> "out"] /\ thread = "idle"
    /\ ~overlapped =>
        /\ on_data["mic"] = "out" \/ on_data["timer"] = "out"
        /\ \A i \in 1 .. Len(packets) : packets[i] = i
        /\ marked <= Len(packets)
        /\ index = Len(packets) + Ahead("mic") + Ahead("timer")
        /\ \A s \in Source : on_data[s] \in {"write", "push"} => reg[s] = index

\* Time counted since Timer::start(), and how far it is from what the clock
\* shows: a clock that was set back has lost one unit of it at most.
Counted == fired * INTERVAL + count
Error(tick) == Counted - (tick - began)

TimeInv ==
    /\ time \in Nat /\ skew \in {0, 1} /\ skew <= time
    /\ began \in Nat /\ began <= time
    /\ new_tick \in Int /\ old_tick \in Int /\ count \in Int /\ fired \in Nat
    /\ thread \in {"idle", "now", "count", "old", "test", "fire"} /\ raced \in BOOLEAN

\* Ticks that were read after the setting back are short of the time.
Tick(tick, error) ==
    /\ tick <= time /\ error \in {0, 1}
    /\ error = 1 => skew = 1 /\ tick <= time - 1

Counting == ~raced /\ (started \/ ui = "go")

PaceInv ==
    /\ ~raced /\ ui \in {"tick", "go"} => thread = "idle"
    /\ ~raced /\ ui = "tick" => count = 0
    /\ Counting /\ time - began <= MaxInt =>
        /\ Counted >= 0
        /\ thread \in {"idle", "now"} => Tick(old_tick, Error(old_tick))
        /\ thread = "count" =>
            /\ Tick(old_tick, Error(old_tick))
            /\ new_tick <= time /\ new_tick >= old_tick - 1
            /\ new_tick < old_tick => skew = 1 /\ Error(old_tick) = 0 /\ new_tick <= time - 1
            /\ Error(old_tick) = 1 => new_tick <= time - 1
        /\ thread \in {"old", "test"} => Tick(new_tick, Error(new_tick))
        /\ thread = "test" => old_tick = new_tick
        /\ thread = "fire" =>
            /\ Tick(new_tick, Error(new_tick) - INTERVAL) /\ old_tick = new_tick
            /\ Counted - INTERVAL >= 0

SourcesInv == FormInv /\ NumberInv /\ TimeInv /\ PaceInv
-----------------------------------------------------------------------------
(* The actions, by the variables they leave alone                          *)

LEMMA DataSteps ==
    /\ \A s \in Source : OnData(s) => UNCHANGED <<uiVars, stream, timerVars, started, began, raced, clockVars>>
    /\ RecordCallback => UNCHANGED <<uiVars, stream, timerVars, started, began, raced, clockVars>>
    /\ LoseMic => UNCHANGED <<uiVars, dataVars, timerVars, started, began, raced, clockVars>>
BY DEF OnData, RecordCallback, LoseMic

LEMMA TimerSteps == OnRepeat => UNCHANGED others
BY DEF OnRepeat, Decide, ReadNow, CountDelta, SetOldTick, Due, NotDue, SubtractInterval

LEMMA InitSources == Init => SourcesInv
<1> SUFFICES ASSUME Init PROVE SourcesInv
    OBVIOUS
<1> USE DEF Init
<1>1. FormInv
    BY DEF FormInv, Held
<1>2. NumberInv
    <2>1. packets = <<>> /\ packets \in Seq(Nat) /\ Len(packets) = 0
        OBVIOUS
    <2>2. on_data \in [Source -> Step] /\ reg \in [Source -> Nat] /\ index \in Nat /\ marked \in Nat
        BY DEF Step
    <2>3. on_data["mic"] = "out" /\ on_data["timer"] = "out" /\ Ahead("mic") = 0 /\ Ahead("timer") = 0
        BY DEF Source, Ahead
    <2>4. /\ on_data = [s \in Source |-> "out"] /\ thread = "idle" /\ ui = "idle" /\ index = 0 /\ marked = 0
          /\ overlapped = FALSE
        OBVIOUS
    <2>5. index = Len(packets) + Ahead("mic") + Ahead("timer") /\ marked <= Len(packets)
        BY <2>1, <2>3, <2>4
    <2>6. \A i \in 1 .. Len(packets) : packets[i] = i
        BY <2>1
    <2>7. \A s \in Source : on_data[s] = "out"
        BY <2>4
    <2> HIDE DEF Init
    <2> QED
        BY <2>1, <2>2, <2>3, <2>4, <2>5, <2>6, <2>7 DEF NumberInv
<1>3. TimeInv
    <2>1. time = 0 /\ skew = 0 /\ began = 0 /\ new_tick = 0 /\ old_tick = 0 /\ count = 0 /\ fired = 0
        OBVIOUS
    <2>2. thread = "idle"
        OBVIOUS
    <2>3. raced \in BOOLEAN
        OBVIOUS
    <2> HIDE DEF Init
    <2>4. /\ time \in Nat /\ skew \in {0, 1} /\ skew <= time /\ began \in Nat /\ began <= time
          /\ new_tick \in Int /\ old_tick \in Int /\ count \in Int /\ fired \in Nat
        BY <2>1
    <2> QED
        BY <2>2, <2>3, <2>4 DEF TimeInv
<1>4. PaceInv
    BY DEF PaceInv, Counting
<1> QED
    BY <1>1, <1>2, <1>3, <1>4 DEF SourcesInv

LEMMA FormStep == FormInv /\ [Next]_vars => FormInv'
<1> SUFFICES ASSUME FormInv, [Next]_vars PROVE FormInv'
    OBVIOUS
<1> USE DEF FormInv, Held, uiVars
<1>1. CASE UI
    <2>1. CASE Start \/ Resume \/ OpenMic \/ OpenMicFails
        BY <2>1 DEF Start, Resume, OpenMic, OpenMicFails
    <2>2. CASE SetCount \/ SetTick
        BY <2>2 DEF SetCount, SetTick
    <2>4. CASE SetStarted
        BY <2>4 DEF SetStarted
    <2>3. CASE Pause \/ Stop \/ CloseMic \/ StopTimer
        BY <2>3 DEF Pause, Stop, CloseMic, StopTimer
    <2> QED
        BY <1>1, <2>1, <2>2, <2>3, <2>4 DEF UI
<1>2. CASE UNCHANGED <<uiVars, stream, started>>
    BY <1>2
<1>3. CASE LoseMic
    BY <1>3 DEF LoseMic
<1> QED
    BY <1>1, <1>2, <1>3, DataSteps, TimerSteps DEF Next, Clock, SetBack, others, vars

-----------------------------------------------------------------------------
(* The numbers of the packets                                              *)

LEMMA NumberStep == FormInv /\ NumberInv /\ [Next]_vars => NumberInv'
<1> SUFFICES ASSUME FormInv, NumberInv, [Next]_vars PROVE NumberInv'
    OBVIOUS
<1> USE DEF NumberInv
<1>s. Source = {"mic", "timer"}
    BY DEF Source
<1>l. Len(packets) \in Nat
    OBVIOUS
\* One source is in on_data(), or both have been at some time.
<1>o. ASSUME NEW s \in Source, ~overlapped, on_data[s] # "out"
      PROVE  /\ \A q \in Source : q # s => on_data[q] = "out"
             /\ index = Len(packets) + Ahead(s)
    <2>1. \A q \in Source : q # s => on_data[q] = "out" /\ Ahead(q) = 0
        BY <1>o, <1>s DEF Ahead
    <2>2. Ahead(s) \in Nat /\ (s = "mic" \/ s = "timer")
        BY <1>s DEF Ahead
    <2>3. index = Len(packets) + Ahead("mic") + Ahead("timer")
        BY <1>o
    <2> QED
        BY <2>1, <2>2, <2>3, <1>s, <1>l
<1>1. ASSUME NEW s \in Source, OnData(s) PROVE NumberInv'
    <2>0. state' = state /\ ui' = ui /\ thread' = thread
        BY <1>1, DataSteps DEF uiVars, timerVars
    <2>n. state # "new"
        BY <1>1 DEF OnData, ReadIndex, WriteIndex, SetTag, PushPacket, Mark
    <2>f. on_data'["timer"] # "out" => thread' = "fire"
        BY <1>1, <2>0, <1>s DEF OnData, ReadIndex, WriteIndex, SetTag, PushPacket, Mark
    <2>a. ASSUME NEW to, on_data' = [on_data EXCEPT ![s] = to], ~overlapped, on_data[s] # "out"
          PROVE  /\ on_data'[s] = to /\ \A q \in Source : q # s => on_data'[q] = "out"
                 /\ Ahead("mic")' + Ahead("timer")' = (IF to \in {"tag", "push"} THEN 1 ELSE 0)
        BY <2>a, <1>o, <1>s DEF Ahead
    <2>1. CASE ReadIndex(s)
        <3>1. on_data' \in [Source -> Step] /\ reg' \in [Source -> Nat]
            BY <2>1 DEF ReadIndex, Step
        <3>2. ASSUME ~overlapped
              PROVE  /\ on_data'["mic"] = "out" \/ on_data'["timer"] = "out"
                     /\ index = Len(packets) + Ahead("mic")' + Ahead("timer")'
                     /\ \A q \in Source : on_data'[q] \in {"write", "push"} => reg'[q] = index
            BY <2>1, <2>a, <3>2, <1>o, <1>s, <1>l DEF ReadIndex, Ahead
        <3> QED
            BY <2>1, <2>0, <2>n, <2>f, <3>1, <3>2 DEF ReadIndex
    <2>2. CASE WriteIndex(s)
        <3>1. on_data' \in [Source -> Step] /\ index' \in Nat
            BY <2>2 DEF WriteIndex, Step
        <3>2. ASSUME ~overlapped
              PROVE  /\ on_data'["mic"] = "out" \/ on_data'["timer"] = "out"
                     /\ index' = Len(packets) + Ahead("mic")' + Ahead("timer")'
                     /\ \A q \in Source : on_data'[q] \in {"write", "push"} => reg[q] = index'
            <4>1. on_data[s] = "write" /\ on_data' = [on_data EXCEPT ![s] = "tag"] /\ index' = reg[s] + 1
                BY <2>2 DEF WriteIndex
            <4>2. reg[s] = Len(packets) /\ reg[s] \in Nat
                <5>1. index = Len(packets) + Ahead(s)
                    BY <4>1, <3>2, <1>o
                <5>2. Ahead(s) = 0
                    BY <4>1 DEF Ahead
                <5>3. index = Len(packets)
                    BY <5>1, <5>2, <1>l
                <5> QED
                    BY <4>1, <3>2, <5>3
            <4>3. /\ on_data'[s] = "tag" /\ \A q \in Source : q # s => on_data'[q] = "out"
                  /\ Ahead("mic")' + Ahead("timer")' = 1
                BY <4>1, <3>2, <2>a
            <4>4. Ahead("mic")' \in Nat /\ Ahead("timer")' \in Nat
                BY DEF Ahead
            <4> QED
                BY <4>1, <4>2, <4>3, <4>4, <1>s, <1>l
        <3> QED
            BY <2>2, <2>0, <2>n, <2>f, <3>1, <3>2 DEF WriteIndex
    <2>3. CASE SetTag(s)
        <3>1. on_data' \in [Source -> Step] /\ reg' \in [Source -> Nat]
            BY <2>3 DEF SetTag, Step
        <3>2. ASSUME ~overlapped
              PROVE  /\ on_data'["mic"] = "out" \/ on_data'["timer"] = "out"
                     /\ index = Len(packets) + Ahead("mic")' + Ahead("timer")'
                     /\ \A q \in Source : on_data'[q] \in {"write", "push"} => reg'[q] = index
            BY <2>3, <2>a, <3>2, <1>o, <1>s, <1>l DEF SetTag, Ahead
        <3> QED
            BY <2>3, <2>0, <2>n, <2>f, <3>1, <3>2 DEF SetTag
    <2>4. CASE PushPacket(s)
        <3>1. on_data' \in [Source -> Step]
            BY <2>4 DEF PushPacket, Step
        <3>2. /\ packets' \in Seq(Nat) /\ Len(packets') = Len(packets) + 1
              /\ \A i \in 1 .. Len(packets) : packets'[i] = packets[i]
              /\ packets'[Len(packets) + 1] = reg[s]
            BY <2>4, AppendProperties DEF PushPacket
        <3>3. ASSUME ~overlapped
              PROVE  /\ on_data'["mic"] = "out" \/ on_data'["timer"] = "out"
                     /\ index = Len(packets') + Ahead("mic")' + Ahead("timer")'
                     /\ \A q \in Source : on_data'[q] \in {"write", "push"} => reg[q] = index
                     /\ reg[s] = Len(packets) + 1
            <4>1. on_data[s] = "push" /\ on_data' = [on_data EXCEPT ![s] = "mark"]
                BY <2>4 DEF PushPacket
            <4>2. reg[s] = Len(packets) + 1 /\ index = Len(packets) + 1
                BY <4>1, <3>3, <1>o, <1>l DEF Ahead
            <4>3. /\ on_data'[s] = "mark" /\ \A q \in Source : q # s => on_data'[q] = "out"
                  /\ Ahead("mic")' + Ahead("timer")' = 0
                BY <4>1, <3>3, <2>a
            <4>4. Ahead("mic")' \in Nat /\ Ahead("timer")' \in Nat
                BY DEF Ahead
            <4> QED
                BY <3>2, <4>1, <4>2, <4>3, <4>4, <1>s, <1>l
        <3>4. ASSUME ~overlapped PROVE \A i \in 1 .. Len(packets') : packets'[i] = i
            <4> SUFFICES ASSUME NEW i \in 1 .. Len(packets') PROVE packets'[i] = i
                OBVIOUS
            <4>1. i \in 1 .. Len(packets) \/ i = Len(packets) + 1
                BY <3>2, <1>l
            <4> QED
                BY <3>2, <3>3, <3>4, <4>1
        <3>5. ~overlapped => marked <= Len(packets')
            BY <3>2, <1>l
        <3> QED
            BY <2>4, <2>0, <2>n, <2>f, <3>1, <3>2, <3>3, <3>4, <3>5 DEF PushPacket
    <2>5. CASE Mark(s)
        <3>1. on_data' \in [Source -> Step] /\ marked' \in Nat
            BY <2>5 DEF Mark, Step
        <3>2. ASSUME ~overlapped
              PROVE  /\ on_data'["mic"] = "out" \/ on_data'["timer"] = "out"
                     /\ index = Len(packets) + Ahead("mic")' + Ahead("timer")'
                     /\ \A q \in Source : on_data'[q] \in {"write", "push"} => reg[q] = index
                     /\ marked' <= Len(packets)
            <4>1. on_data[s] = "mark" /\ on_data' = [on_data EXCEPT ![s] = "out"] /\ marked' = index
                BY <2>5 DEF Mark
            <4>2. index = Len(packets)
                <5>1. index = Len(packets) + Ahead(s)
                    BY <4>1, <3>2, <1>o
                <5>2. Ahead(s) = 0
                    BY <4>1 DEF Ahead
                <5>3. index = Len(packets)
                    BY <5>1, <5>2, <1>l
                <5> QED
                    BY <4>1, <3>2, <5>3
            <4>3. /\ on_data'[s] = "out" /\ \A q \in Source : q # s => on_data'[q] = "out"
                  /\ Ahead("mic")' + Ahead("timer")' = 0
                BY <4>1, <3>2, <2>a
            <4>4. Ahead("mic")' \in Nat /\ Ahead("timer")' \in Nat
                BY DEF Ahead
            <4> QED
                BY <4>1, <4>2, <4>3, <4>4, <1>s, <1>l
        <3> QED
            BY <2>5, <2>0, <2>n, <2>f, <3>1, <3>2 DEF Mark
    <2> QED
        BY <1>1, <2>1, <2>2, <2>3, <2>4, <2>5 DEF OnData
<1>e. ASSUME NEW s \in Source, on_data[s] = "out", Enter(s), state' = state, state # "new",
             thread' = IF s = "timer" THEN "fire" ELSE thread
      PROVE  NumberInv'
    <2>1. on_data' \in [Source -> Step] /\ overlapped' \in BOOLEAN
        BY <1>e DEF Enter, Step
    <2>2. ASSUME ~overlapped'
          PROVE  /\ ~overlapped
                 /\ on_data'["mic"] = "out" \/ on_data'["timer"] = "out"
                 /\ Ahead("mic")' = Ahead("mic") /\ Ahead("timer")' = Ahead("timer")
                 /\ \A q \in Source : on_data'[q] \in {"write", "push"} => on_data[q] = on_data'[q]
        BY <1>e, <2>2, <1>s DEF Enter, Ahead
    <2>3. on_data'["timer"] # "out" => thread' = "fire"
        BY <1>e, <1>s DEF Enter
    <2> QED
        BY <1>e, <2>1, <2>2, <2>3 DEF Enter
<1>2. CASE RecordCallback
    <2>1. state # "new"
        BY <1>2 DEF RecordCallback, FormInv, Held
    <2> QED
        BY <1>2, <1>e, <2>1, <1>s DEF RecordCallback, uiVars, timerVars
<1>u. ASSUME UNCHANGED <<dataVars, state>>, state # "new", on_data["timer"] = "out" \/ thread' = thread
      PROVE  NumberInv'
    BY <1>u DEF dataVars, Ahead
<1>3. CASE UI
    <2>1. CASE Start
        <3>1. /\ UNCHANGED <<on_data, reg, packets, marked, overlapped, thread>> /\ index' = index
              /\ state' # "new"
            BY <2>1 DEF Start, timerVars
        <3> QED
            BY <3>1 DEF Ahead
    <2>2. ASSUME ~Start PROVE UNCHANGED <<dataVars, thread>> /\ state # "new" /\ state' # "new"
        BY <1>3, <2>2 DEF UI, Resume, OpenMic, OpenMicFails, SetCount, SetTick, SetStarted, Pause, Stop,
                    CloseMic, StopTimer, FormInv, dataVars, timerVars
    <2>3. CASE ~Start
        BY <2>2, <2>3 DEF dataVars, Ahead
    <2> QED
        BY <2>1, <2>3
<1>4. CASE OnRepeat
    <2>1. state' = state /\ ui' = ui
        BY <1>4, TimerSteps DEF others, uiVars
    <2>2. CASE Due
        <3>1. state # "new" /\ Enter("timer")
            BY <2>2 DEF Due
        <3>2. on_data["timer"] = "out" /\ thread' = "fire"
            BY <2>2 DEF Due
        <3> QED
            BY <2>1, <3>1, <3>2, <1>e, <1>s
    <2>3. CASE ~Due
        <3>1. UNCHANGED dataVars /\ (state = "new" => ~started) /\ on_data["timer"] = "out"
            BY <1>4, <2>3 DEF OnRepeat, Decide, ReadNow, CountDelta, SetOldTick, NotDue, SubtractInterval, FormInv
        <3>2. state # "new"
            BY <1>4, <3>1 DEF OnRepeat, Decide, ReadNow, CountDelta, SetOldTick, Due, NotDue, SubtractInterval
        <3> QED
            BY <2>1, <3>1, <3>2, <1>u
    <2> QED
        BY <2>2, <2>3
<1>5. CASE Clock \/ SetBack \/ LoseMic \/ UNCHANGED vars
    BY <1>5 DEF Clock, LoseMic, SetBack, vars, uiVars, dataVars, timerVars, Ahead
<1> QED
    BY <1>1, <1>2, <1>3, <1>4, <1>5 DEF Next

-----------------------------------------------------------------------------
(* The pace of the silence                                                 *)

LEMMA TimeStep == TimeInv /\ [Next]_vars => TimeInv'
<1> SUFFICES ASSUME TimeInv, [Next]_vars PROVE TimeInv'
    OBVIOUS
<1> USE DEF TimeInv
<1>1. CASE UI
    <2>1. CASE SetCount
        BY <2>1 DEF SetCount, clockVars
    <2>2. CASE SetTick
        <3>1. time' = time /\ skew' = skew /\ began' = time /\ fired' = 0 /\ old_tick' = time - skew
            BY <2>2 DEF SetTick, clockVars
        <3>2. new_tick' = new_tick /\ count' = count /\ thread' = thread /\ raced' \in BOOLEAN
            BY <2>2 DEF SetTick
        <3> QED
            BY <3>1, <3>2
    <2>3. ASSUME ~SetCount, ~SetTick PROVE UNCHANGED <<timerVars, began, raced, clockVars>>
        BY <1>1, <2>3 DEF UI, Start, Resume, OpenMic, OpenMicFails, SetStarted, Pause, Stop, CloseMic, StopTimer
    <2> QED
        BY <2>1, <2>2, <2>3 DEF timerVars, clockVars
<1>2. CASE UNCHANGED <<timerVars, began, raced, clockVars>>
    BY <1>2 DEF timerVars, clockVars
<1>3. CASE OnRepeat
    <2>1. UNCHANGED <<began, raced, time, skew>>
        BY <1>3, TimerSteps DEF others, clockVars
    <2>2. CASE Decide \/ ReadNow \/ SetOldTick \/ NotDue
        BY <2>1, <2>2 DEF Decide, ReadNow, SetOldTick, NotDue
    <2>3. CASE CountDelta
        <3>1. count' \in Int
            BY <2>3, AudioSourcesAssumption DEF CountDelta, Wrapped
        <3> QED
            BY <2>1, <2>3, <3>1 DEF CountDelta
    <2>4. CASE Due
        BY <2>1, <2>4 DEF Due
    <2>5. CASE SubtractInterval
        BY <2>1, <2>5, AudioSourcesAssumption DEF SubtractInterval
    <2> QED
        BY <1>3, <2>2, <2>3, <2>4, <2>5 DEF OnRepeat
<1>4. CASE Clock
    BY <1>4 DEF Clock, timerVars
<1>5. CASE SetBack
    BY <1>5 DEF SetBack, timerVars
<1> QED
    BY <1>1, <1>2, <1>3, <1>4, <1>5, DataSteps DEF Next, vars

\* Products of a counter.
LEMMA OneMore == \A n \in Nat, m \in Int : (n + 1) * m = n * m + m /\ n * m \in Int
BY SMT

LEMMA NoLess == \A n \in Nat, m \in Nat : n * m >= 0
BY SMT

LEMMA PaceStep == FormInv /\ TimeInv /\ PaceInv /\ [Next]_vars => PaceInv'
<1> SUFFICES ASSUME FormInv, TimeInv, PaceInv, [Next]_vars PROVE PaceInv'
    OBVIOUS
<1>t. /\ time \in Nat /\ skew \in {0, 1} /\ began \in Nat /\ began <= time
      /\ new_tick \in Int /\ old_tick \in Int /\ count \in Int /\ fired \in Nat
      /\ INTERVAL \in Nat /\ MaxInt \in Nat /\ fired * INTERVAL \in Nat /\ Counted \in Int
    <2>1. fired \in Nat /\ INTERVAL \in Nat
        BY AudioSourcesAssumption DEF TimeInv
    <2>2. fired * INTERVAL \in Nat
        BY <2>1, OneMore, NoLess
    <2> QED
        BY <2>1, <2>2, AudioSourcesAssumption DEF TimeInv, Counted
\* The steps of the others touch nothing of this, or stop the counting.
<1>u. ASSUME UNCHANGED <<thread, new_tick, old_tick, count, fired, began, raced, time, skew>>,
             ui' \notin {"tick", "go"}, Counting' => Counting
      PROVE  PaceInv'
    BY <1>u DEF PaceInv, Counted, Error, Tick
<1>d. CASE UNCHANGED <<ui, started, timerVars, began, raced, clockVars>>
    BY <1>d DEF PaceInv, Counted, Error, Tick, Counting, timerVars, clockVars
<1>1. CASE UI
    <2>1. CASE SetCount
        <3>1. ui' = "tick" /\ count' = 0 /\ raced' = (thread # "idle") /\ thread' = thread /\ ~started'
            BY <2>1 DEF SetCount, FormInv
        <3>2. ~Counting'
            BY <3>1 DEF Counting
        <3> QED
            BY <3>1, <3>2 DEF PaceInv
    <2>2. CASE SetTick
        <3>1. /\ ui' = "go" /\ fired' = 0 /\ began' = time /\ old_tick' = time - skew
              /\ time' = time /\ skew' = skew /\ count' = count /\ thread' = thread
            BY <2>2 DEF SetTick, clockVars
        <3>2. ~raced' => ~raced /\ thread = "idle"
            BY <2>2 DEF SetTick
        <3>3. ~raced' => count = 0 /\ thread' = "idle"
            BY <2>2, <3>1, <3>2 DEF PaceInv, SetTick
        <3>4. fired' * INTERVAL = 0
            BY <3>1, <1>t
        <3>5. ASSUME ~raced' PROVE Counted' = 0
            BY <3>1, <3>3, <3>4, <3>5 DEF Counted
        <3>6. ASSUME ~raced' PROVE Error(old_tick)' = skew
            BY <3>1, <3>5, <3>6, <1>t DEF Error
        <3>7. ASSUME ~raced' PROVE Tick(old_tick, Error(old_tick))'
            BY <3>1, <3>6, <3>7, <1>t DEF Tick
        <3> QED
            BY <3>1, <3>3, <3>5, <3>7 DEF PaceInv, Counting
    <2>3. CASE SetStarted
        <3>1. /\ UNCHANGED <<thread, new_tick, old_tick, count, fired, began, raced, time, skew>>
              /\ ui = "go" /\ ui' = "idle"
            BY <2>3 DEF SetStarted, timerVars, clockVars
        <3> QED
            BY <3>1, <1>u DEF Counting
    <2>4. ASSUME ~SetCount, ~SetTick, ~SetStarted
          PROVE  /\ UNCHANGED <<thread, new_tick, old_tick, count, fired, began, raced, time, skew>>
                 /\ ui' \notin {"tick", "go"} /\ (started' => started)
        BY <1>1, <2>4 DEF UI, Start, Resume, OpenMic, OpenMicFails, Pause, Stop, CloseMic, StopTimer,
                    timerVars, clockVars
    <2> QED
        BY <2>1, <2>2, <2>3, <2>4, <1>u DEF Counting
<1>2. CASE OnRepeat
    <2>0. UNCHANGED <<ui, started, began, raced, time, skew>>
        BY <1>2, TimerSteps DEF others, uiVars, clockVars
    <2>q. thread # "idle" \/ started
        BY <1>2 DEF OnRepeat, Decide, ReadNow, CountDelta, SetOldTick, Due, NotDue, SubtractInterval
    <2>r. raced \/ ui \notin {"tick", "go"}
        BY <2>q DEF PaceInv, FormInv
    <2> SUFFICES ASSUME Counting, time - began <= MaxInt
                 PROVE  PaceInv'
        BY <2>0, <2>r DEF PaceInv, Counting
    <2>1. CASE Decide
        BY <2>0, <2>1, <2>r DEF Decide, PaceInv, Counted, Error, Tick
    <2>2. CASE ReadNow
        <3>1. Tick(old_tick, Error(old_tick)) /\ Counted >= 0 /\ thread' = "count" /\ new_tick' = time - skew
            BY <2>2 DEF ReadNow, PaceInv
        <3>2. Counted' = Counted /\ Error(old_tick)' = Error(old_tick) /\ old_tick' = old_tick
            BY <2>0, <2>2 DEF ReadNow, Counted, Error
        <3>3. /\ new_tick' <= time /\ new_tick' >= old_tick - 1
              /\ new_tick' < old_tick => skew = 1 /\ Error(old_tick) = 0 /\ new_tick' <= time - 1
              /\ Error(old_tick) = 1 => new_tick' <= time - 1
            BY <3>1, <1>t DEF Tick
        <3> QED
            BY <2>0, <2>r, <3>1, <3>2, <3>3 DEF PaceInv, Tick
    <2>3. CASE CountDelta
        <3>1. /\ Counted >= 0 /\ Tick(old_tick, Error(old_tick))
              /\ new_tick <= time /\ new_tick >= old_tick - 1
              /\ new_tick < old_tick => skew = 1 /\ Error(old_tick) = 0 /\ new_tick <= time - 1
              /\ Error(old_tick) = 1 => new_tick <= time - 1
            BY <2>3 DEF CountDelta, PaceInv
        <3>2. /\ thread' = "old" /\ new_tick' = new_tick /\ old_tick' = old_tick /\ fired' = fired
              /\ count' = IF new_tick > old_tick THEN Wrapped(count + (new_tick - old_tick)) ELSE count
            BY <2>3 DEF CountDelta
        <3>3. Error(old_tick) = Counted - (old_tick - began) /\ Counted = fired * INTERVAL + count
            BY DEF Error, Counted
        <3>4. CASE new_tick > old_tick
            <4>1. Counted + (new_tick - old_tick) = Error(old_tick) + (new_tick - began)
                BY <3>3, <1>t
            <4>2. Error(old_tick) + new_tick <= time
                BY <3>1, <1>t DEF Tick
            <4>3. count + (new_tick - old_tick) <= MaxInt
                BY <4>1, <4>2, <3>3, <1>t
            <4>4. count' = count + (new_tick - old_tick)
                BY <3>2, <3>4, <4>3, <1>t DEF Wrapped
            <4>5. Counted' = Counted + (new_tick - old_tick)
                BY <3>2, <3>3, <4>4, <1>t DEF Counted
            <4>6. Error(new_tick)' = Error(old_tick)
                BY <2>0, <3>2, <3>3, <4>5, <1>t DEF Error
            <4>7. Tick(new_tick, Error(new_tick))' /\ Counted' >= 0
                BY <2>0, <3>1, <3>2, <3>4, <4>5, <4>6, <1>t DEF Tick
            <4> QED
                BY <2>0, <2>r, <3>2, <4>7 DEF PaceInv
        <3>5. CASE new_tick <= old_tick
            <4>1. count' = count /\ Counted' = Counted
                BY <3>2, <3>5, <1>t DEF Counted
            <4>2. Error(new_tick)' = Error(old_tick) + (old_tick - new_tick)
                BY <2>0, <3>2, <3>3, <4>1, <1>t DEF Error
            <4>3. Tick(new_tick, Error(new_tick))'
                BY <2>0, <3>1, <3>2, <3>5, <4>2, <1>t DEF Tick
            <4> QED
                BY <2>0, <2>r, <3>1, <3>2, <4>1, <4>3 DEF PaceInv
        <3> QED
            BY <3>4, <3>5, <1>t
    <2>4. CASE SetOldTick
        BY <2>0, <2>4, <2>r DEF SetOldTick, PaceInv, Counted, Error, Tick
    <2>5. CASE Due
        <3>1. /\ thread = "test" /\ count > INTERVAL /\ fired' = fired + 1 /\ thread' = "fire"
              /\ UNCHANGED <<new_tick, old_tick, count>>
            BY <2>5 DEF Due
        <3>2. Counted >= 0 /\ Tick(new_tick, Error(new_tick)) /\ old_tick = new_tick
            BY <3>1 DEF PaceInv
        <3>3. Counted' = Counted + INTERVAL
            <4>1. fired' * INTERVAL = fired * INTERVAL + INTERVAL
                BY <3>1, <1>t, OneMore
            <4> QED
                BY <3>1, <4>1, <1>t DEF Counted
        <3>4. Error(new_tick)' - INTERVAL = Error(new_tick)
            BY <2>0, <3>1, <3>3, <1>t DEF Error
        <3>5. Tick(new_tick, Error(new_tick) - INTERVAL)'
            BY <2>0, <3>1, <3>2, <3>4 DEF Tick
        <3>6. Counted' - INTERVAL >= 0 /\ Counted' >= 0
            BY <3>2, <3>3, <1>t
        <3> QED
            BY <2>0, <2>r, <3>1, <3>2, <3>5, <3>6 DEF PaceInv
    <2>6. CASE NotDue
        BY <2>0, <2>6, <2>r DEF NotDue, PaceInv, Counted, Error, Tick
    <2>7. CASE SubtractInterval
        <3>1. /\ thread = "fire" /\ thread' = "idle" /\ count' = count - INTERVAL
              /\ UNCHANGED <<new_tick, old_tick, fired>>
            BY <2>7 DEF SubtractInterval
        <3>2. Tick(new_tick, Error(new_tick) - INTERVAL) /\ old_tick = new_tick /\ Counted - INTERVAL >= 0
            BY <3>1 DEF PaceInv
        <3>3. Counted' = Counted - INTERVAL
            BY <3>1, <1>t DEF Counted
        <3>4. Error(old_tick)' = Error(new_tick) - INTERVAL
            BY <2>0, <3>1, <3>2, <3>3, <1>t DEF Error
        <3>5. Tick(old_tick, Error(old_tick))'
            BY <2>0, <3>1, <3>2, <3>4 DEF Tick
        <3> QED
            BY <2>0, <2>r, <3>1, <3>2, <3>3, <3>5 DEF PaceInv
    <2> QED
        BY <1>2, <2>1, <2>2, <2>3, <2>4, <2>5, <2>6, <2>7 DEF OnRepeat
<1>3. CASE Clock
    <2>1. /\ time' = time + 1
          /\ UNCHANGED <<ui, started, thread, new_tick, old_tick, count, fired, began, raced, skew>>
        BY <1>3 DEF Clock, uiVars, timerVars
    <2>2. time' - began' <= MaxInt => time - began <= MaxInt
        BY <2>1, <1>t
    <2>3. ASSUME NEW tick \in Int, NEW error \in Int, Tick(tick, error)
          PROVE  tick <= time' /\ error \in {0, 1} /\ (error = 1 => skew = 1 /\ tick <= time' - 1)
        BY <2>1, <2>3, <1>t DEF Tick
    <2>4. Error(old_tick) \in Int /\ Error(new_tick) \in Int /\ Error(new_tick) - INTERVAL \in Int
        BY <1>t DEF Error
    <2>5. Counted' = Counted /\ Error(old_tick)' = Error(old_tick) /\ Error(new_tick)' = Error(new_tick)
        BY <2>1 DEF Counted, Error
    <2>6. /\ Tick(old_tick, Error(old_tick)) => Tick(old_tick, Error(old_tick))'
          /\ Tick(new_tick, Error(new_tick)) => Tick(new_tick, Error(new_tick))'
          /\ Tick(new_tick, Error(new_tick) - INTERVAL) => Tick(new_tick, Error(new_tick) - INTERVAL)'
        BY <2>1, <2>3, <2>4, <2>5, <1>t DEF Tick
    <2>7. \A n \in Int : (n <= time => n <= time') /\ (n <= time - 1 => n <= time' - 1)
        BY <2>1, <1>t
    <2> QED
        BY <2>1, <2>2, <2>5, <2>6, <2>7, <1>t DEF PaceInv, Counting
<1>4. CASE SetBack
    <2>1. /\ skew = 0 /\ skew' = 1
          /\ UNCHANGED <<ui, started, thread, new_tick, old_tick, count, fired, began, raced, time>>
        BY <1>4 DEF SetBack, uiVars, timerVars
    <2>2. ASSUME NEW tick, NEW error, Tick(tick, error)
          PROVE  tick <= time /\ error = 0
        BY <2>1, <2>2 DEF Tick
    <2>3. Counted' = Counted /\ Error(old_tick)' = Error(old_tick) /\ Error(new_tick)' = Error(new_tick)
        BY <2>1 DEF Counted, Error
    <2>4. /\ Tick(old_tick, Error(old_tick)) => Tick(old_tick, Error(old_tick))'
          /\ Tick(new_tick, Error(new_tick)) => Tick(new_tick, Error(new_tick))'
          /\ Tick(new_tick, Error(new_tick) - INTERVAL) => Tick(new_tick, Error(new_tick) - INTERVAL)'
        BY <2>1, <2>2, <2>3 DEF Tick
    <2> QED
        BY <2>1, <2>3, <2>4 DEF PaceInv, Counting
<1> QED
    BY <1>d, <1>1, <1>2, <1>3, <1>4, DataSteps DEF Next, vars, uiVars

-----------------------------------------------------------------------------
(* Theorems                                                                *)

THEOREM SourcesInvariant == Spec => []SourcesInv
<1>1. SourcesInv /\ [Next]_vars => SourcesInv'
    BY FormStep, NumberStep, TimeStep, PaceStep DEF SourcesInv
<1> QED
    BY <1>1, InitSources, PTL DEF Spec

\* While the form records it has one source of sound, but for a microphone that is
\* lost while it is open; while it does not record there is none (AudioCapture.hpp
\* start, stop, resume).
THEOREM OneSourceRuns == Spec => []OneSource
<1>1. SourcesInv => OneSource
    <2> SUFFICES ASSUME FormInv, ui = "idle"
                 PROVE  IF state = "recording"
                        THEN Cardinality(Running) = (IF stream = "lost" THEN 0 ELSE 1)
                        ELSE Running = {}
        BY DEF SourcesInv, OneSource
    <2>1. CASE state = "recording" /\ stream = "lost"
        <3>1. Running = {}
            BY <2>1 DEF FormInv, Held, Running, Source
        <3> QED
            BY <2>1, <3>1, FS_EmptySet
    <2>2. CASE state = "recording" /\ stream # "lost"
        <3>1. Running = {"mic"} \/ Running = {"timer"}
            BY <2>2 DEF FormInv, Held, Running, Source
        <3> QED
            BY <2>2, <3>1, FS_Singleton
    <2>3. CASE state # "recording"
        BY <2>3 DEF FormInv, Held, Running, Source
    <2> QED
        BY <2>1, <2>2, <2>3
<1> QED
    BY <1>1, SourcesInvariant, PTL

\* The tags in queue_ are 1, 2, 3, ... and no mark is beyond them, as long as the
\* microphone and the timer have not been in on_data() together.
THEOREM NumbersInOrder == Spec => []NumberedInOrder
<1>1. SourcesInv => NumberedInOrder
    <2> SUFFICES ASSUME NumberInv, ~overlapped
                 PROVE  packets = [i \in 1 .. Len(packets) |-> i] /\ marked <= Len(packets)
        BY DEF SourcesInv, NumberedInOrder
    <2>1. packets = [i \in 1 .. Len(packets) |-> packets[i]]
        BY DEF NumberInv
    <2> QED
        BY <2>1 DEF NumberInv
<1> QED
    BY <1>1, SourcesInvariant, PTL

\* Timer's count loses and gains no time, whatever the interval: the packets of
\* silence that were due and the rest still counted make up the time that passed.
THEOREM SilenceAtPace == Spec => []AtPace
<1>1. SourcesInv => AtPace
    <2> SUFFICES ASSUME TimeInv, PaceInv, thread = "idle", started, ~raced, time - began <= MaxInt
                 PROVE  IF skew = 0 THEN Counted = old_tick - began ELSE Counted \in 0 .. time - began
        BY DEF SourcesInv, AtPace, Counted
    <2>1. Tick(old_tick, Error(old_tick)) /\ Counted >= 0
        BY DEF PaceInv, Counting
    <2>2. Counted \in Int /\ old_tick \in Int /\ began \in Nat /\ time \in Nat
        BY OneMore, AudioSourcesAssumption DEF TimeInv, Counted
    <2> QED
        BY <2>1, <2>2 DEF Tick, Error, TimeInv
<1> QED
    BY <1>1, SourcesInvariant, PTL

===============================================================================
