--------------------------- MODULE SchedulerProofs ----------------------------
(***************************************************************************)
(* Theorems about Scheduler, for any callers, tasks and calls of start()   *)
(* and stop(), and about the player, whose thread is such a scheduler, for *)
(* files of any length and any tasks.                                      *)
(***************************************************************************)
EXTENDS Scheduler, Player, SequenceTheorems, TLAPS

Types ==
    /\ queue \in Seq(Task) /\ added \in 0 .. MaxTasks
    /\ owner \in {"idle", "flag", "wake", "join", "joined"}
    /\ thread \in {"top", "pop", "task", "choose", "repeat", "sleep", "asleep", "ended"}
    /\ held \in Task \cup {None} /\ done \in Seq(Nat)
    /\ started \in BOOLEAN /\ stopped \in {"no", "own", "other"} /\ late \in Nat

\* The tasks are numbered through: first those done, then the one in the hands of
\* the thread, then those that wait.
Taken == Len(done) + (IF thread = "task" THEN 1 ELSE 0)

Numbered ==
    /\ held # None <=> thread = "task"
    /\ added = Taken + Len(queue)
    /\ \A i \in 1 .. Len(done) : done[i] = i
    /\ thread = "task" => held.id = Taken
    /\ \A i \in 1 .. Len(queue) : queue[i].id = Taken + i

\* started_ and who stopped say the same; a repeat that was decided on before
\* the stop is the only one after it.
Lateness ==
    /\ started <=> stopped = "no"
    /\ late <= 1
    /\ stopped = "own" => late = 0
    /\ stopped # "no" /\ thread = "repeat" => stopped = "other" /\ late = 0

Joined == owner = "joined" => thread = "ended"

SchedulerInv == Types /\ Numbered /\ Lateness /\ Joined
-----------------------------------------------------------------------------
LEMMA TaskTypes ==
    /\ \A task \in Task : task.id \in Nat /\ task.id # 0 /\ task.kind \in Kind
    /\ None.id = 0 /\ None \notin Task
<1>1. \A task \in Task : task.id \in 1 .. MaxTasks /\ task.kind \in Kind
    BY DEF Task
<1>2. None.id = 0
    BY DEF None
<1> QED
    BY <1>1, <1>2, SchedulerAssumption

\* A sequence of numbers that goes on where the one before it ends.
LEMMA CountsOn ==
    ASSUME NEW s \in Seq(Nat), NEW t \in Seq(Nat),
           \A i \in 1 .. Len(s) : s[i] = i,
           \A i \in 1 .. Len(t) : t[i] = Len(s) + i
    PROVE  /\ s \o t \in Seq(Nat) /\ Len(s \o t) = Len(s) + Len(t)
           /\ \A i \in 1 .. Len(s \o t) : (s \o t)[i] = i
<1> DEFINE c == s \o t
<1>1. c \in Seq(Nat) /\ Len(c) = Len(s) + Len(t)
    BY ConcatProperties
<1>2. \A i \in 1 .. Len(s) + Len(t) : c[i] = IF i <= Len(s) THEN s[i] ELSE t[i - Len(s)]
    BY ConcatProperties
<1>3. Len(s) \in Nat /\ Len(t) \in Nat
    BY LenProperties
<1> HIDE DEF c
<1>4. ASSUME NEW i \in 1 .. Len(c) PROVE c[i] = i
    <2>i. i \in 1 .. Len(s) + Len(t) /\ i \in Nat
        BY <1>1, <1>4
    <2>1. CASE i <= Len(s)
        <3>1. c[i] = s[i]
            BY <1>2, <2>i, <2>1
        <3>2. i \in 1 .. Len(s)
            BY <1>3, <2>i, <2>1
        <3> QED
            BY <3>1, <3>2
    <2>2. CASE i > Len(s)
        <3>1. c[i] = t[i - Len(s)]
            BY <1>2, <1>3, <2>i, <2>2
        <3>2. i - Len(s) \in 1 .. Len(t) /\ Len(s) + (i - Len(s)) = i
            BY <1>3, <2>i, <2>2
        <3> QED
            BY <3>1, <3>2
    <2> QED
        BY <1>3, <2>i, <2>1, <2>2
<1> QED
    BY <1>1, <1>4 DEF c

LEMMA InitScheduler == Init => SchedulerInv
<1> SUFFICES ASSUME Init PROVE SchedulerInv
    OBVIOUS
<1> USE DEF Init
<1>1. queue \in Seq(Task) /\ Len(queue) = 0 /\ done \in Seq(Nat) /\ Len(done) = 0
    OBVIOUS
<1>2. added = 0 /\ thread = "top" /\ held = None /\ late = 0 /\ stopped = "own" /\ owner = "idle"
    OBVIOUS
<1>3. started = FALSE
    OBVIOUS
<1> HIDE DEF Init
<1>4. Types
    <2>1. started \in BOOLEAN
        BY <1>3
    <2>2. added \in 0 .. MaxTasks /\ late \in Nat
        BY <1>2, SchedulerAssumption
    <2>3. held \in Task \cup {None}
        BY <1>2
    <2> QED
        BY <1>1, <1>2, <2>1, <2>2, <2>3 DEF Types
<1>5. Numbered
    BY <1>1, <1>2 DEF Numbered, Taken
<1> QED
    BY <1>2, <1>3, <1>4, <1>5 DEF SchedulerInv, Lateness, Joined

\* What is none of the business of the tasks.
LEMMA OthersKeep ==
    ASSUME Types, Numbered, UNCHANGED <<queue, added, held, done>>,
           (thread' # "task" /\ thread # "task") \/ thread' = thread
    PROVE  Numbered'
BY DEF Numbered, Taken

LEMMA CallerStep == SchedulerInv /\ Others => SchedulerInv'
<1> SUFFICES ASSUME SchedulerInv, Others PROVE SchedulerInv'
    OBVIOUS
<1> USE DEF SchedulerInv
<1>n. ASSUME Notify
      PROVE  /\ thread' \in {"top", "pop", "task", "choose", "repeat", "sleep", "asleep", "ended"}
             /\ (thread' # "task" /\ thread # "task") \/ thread' = thread
             /\ thread' = "repeat" => thread = "repeat"
             /\ thread = "ended" => thread' = "ended"
    BY <1>n DEF Notify, Types
<1>1. ASSUME NEW c \in Callers, Add(c) PROVE SchedulerInv'
    <2>1. PICK kind \in Kind : queue' = Append(queue, [id |-> added + 1, kind |-> kind])
        BY <1>1 DEF Add, Push
    <2> DEFINE new == [id |-> added + 1, kind |-> kind]
    <2>2. /\ added < MaxTasks /\ added' = added + 1 /\ added \in Nat
          /\ UNCHANGED <<owner, thread, held, done, started, stopped, late>>
        BY <1>1, SchedulerAssumption DEF Add, Types
    <2>3. new \in Task /\ new.id = added + 1
        BY <2>2, SchedulerAssumption DEF Task
    <2> HIDE DEF new
    <2>4. /\ queue' \in Seq(Task) /\ Len(queue') = Len(queue) + 1
          /\ \A i \in 1 .. Len(queue) : queue'[i] = queue[i]
          /\ queue'[Len(queue) + 1] = new
        BY <2>1, <2>3, AppendProperties DEF Types, new
    <2>5. Types'
        BY <2>2, <2>4, SchedulerAssumption DEF Types
    <2>6. Taken' = Taken /\ Taken \in Nat /\ Len(queue) \in Nat /\ added = Taken + Len(queue)
        BY <2>2 DEF Taken, Types, Numbered
    <2>7. ASSUME NEW i \in 1 .. Len(queue') PROVE queue'[i].id = Taken + i
        <3>1. i \in 1 .. Len(queue) \/ i = Len(queue) + 1
            BY <2>4, <2>6
        <3>2. CASE i \in 1 .. Len(queue)
            BY <2>4, <3>2 DEF Numbered
        <3>3. CASE i = Len(queue) + 1
            BY <2>3, <2>4, <2>6, <3>3
        <3> QED
            BY <3>1, <3>2, <3>3
    <2>8. added' = Taken' + Len(queue')
        BY <2>2, <2>4, <2>6
    <2>9. Numbered'
        BY <2>2, <2>6, <2>7, <2>8 DEF Numbered
    <2> QED
        BY <2>2, <2>5, <2>9 DEF Lateness, Joined
<1>2. ASSUME NEW c \in Callers, WakeUp(c) PROVE SchedulerInv'
    <2>1. Notify /\ UNCHANGED <<queue, added, owner, held, done, started, stopped, late>>
        BY <1>2 DEF WakeUp
    <2>2. Numbered'
        BY <2>1, <1>n, OthersKeep
    <2> QED
        BY <2>1, <2>2, <1>n DEF Types, Lateness, Joined
<1>3. CASE Start
    <2>1. /\ started' = TRUE /\ stopped' = "no" /\ late' = 0 /\ owner' = owner
          /\ UNCHANGED <<queue, added, held, done, thread>>
        BY <1>3 DEF Start
    <2>2. Numbered'
        BY <2>1, OthersKeep
    <2> QED
        BY <2>1, <2>2 DEF Types, Lateness, Joined
<1>4. CASE Stop \/ TerminateAndWait
    <2>1. StoppedBy("other") /\ UNCHANGED <<queue, added, held, done, thread>> /\ owner' \in {"idle", "flag"}
        BY <1>4 DEF Stop, TerminateAndWait
    <2>2. Numbered'
        BY <2>1, OthersKeep
    <2>3. Types'
        BY <2>1 DEF Types, StoppedBy
    <2>4. Lateness'
        <3>1. started' = FALSE /\ stopped' # "no"
            BY <2>1 DEF StoppedBy
        <3>2. CASE stopped = "no"
            BY <2>1, <3>1, <3>2 DEF StoppedBy, Lateness
        <3>3. CASE stopped # "no"
            BY <2>1, <3>1, <3>3 DEF StoppedBy, Lateness
        <3> QED
            BY <3>2, <3>3
    <2> QED
        BY <2>1, <2>2, <2>3, <2>4 DEF Joined
<1>5. CASE SetTerminated
    <2>1. owner' = "wake" /\ UNCHANGED <<queue, added, held, done, thread, started, stopped, late>>
        BY <1>5 DEF SetTerminated
    <2> QED
        BY <2>1, OthersKeep DEF Types, Lateness, Joined
<1>6. CASE TerminateWakesUp
    <2>1. Notify /\ owner' = "join" /\ UNCHANGED <<queue, added, held, done, started, stopped, late>>
        BY <1>6 DEF TerminateWakesUp
    <2>2. Numbered'
        BY <2>1, <1>n, OthersKeep
    <2> QED
        BY <2>1, <2>2, <1>n DEF Types, Lateness, Joined
<1>7. CASE Join
    <2>1. /\ thread = "ended" /\ owner' = "joined"
          /\ UNCHANGED <<queue, added, held, done, thread, started, stopped, late>>
        BY <1>7 DEF Join
    <2> QED
        BY <2>1, OthersKeep DEF Types, Lateness, Joined
<1> QED
    BY <1>1, <1>2, <1>3, <1>4, <1>5, <1>6, <1>7 DEF Others

LEMMA ThreadStep == SchedulerInv /\ Thread => SchedulerInv'
<1> SUFFICES ASSUME SchedulerInv, Thread PROVE SchedulerInv'
    OBVIOUS
<1> USE DEF SchedulerInv
<1>j. owner # "joined"
    BY DEF Joined, Thread, Top, Pop, RunTask, Choose, Repeat, Sleep, Timeout
<1>1. CASE Top \/ Sleep \/ Timeout
    <2>1. /\ thread \notin {"task", "repeat"} /\ thread' \in {"ended", "pop", "asleep", "top"}
          /\ UNCHANGED <<queue, added, held, done, owner, started, stopped, late>>
        BY <1>1 DEF Top, Sleep, Timeout
    <2> QED
        BY <2>1, <1>j, OthersKeep DEF Types, Lateness, Joined
<1>2. CASE Choose
    <2>1. /\ thread = "choose" /\ thread' \in {"repeat", "sleep"} /\ (thread' = "repeat" => started)
          /\ UNCHANGED <<queue, added, held, done, owner, started, stopped, late>>
        BY <1>2 DEF Choose
    <2> QED
        BY <2>1, <1>j, OthersKeep DEF Types, Lateness, Joined
<1>3. CASE Repeat
    <2>1. /\ thread = "repeat" /\ thread' \in {"top", "sleep"}
          /\ late' = late \/ (late' = late + 1 /\ stopped # "no")
          /\ UNCHANGED <<queue, added, held, done, owner, started, stopped>>
        BY <1>3 DEF Repeat
    <2>2. Numbered'
        BY <2>1, OthersKeep
    <2>3. Lateness'
        BY <2>1 DEF Types, Lateness
    <2>4. Types'
        BY <2>1 DEF Types
    <2> QED
        BY <2>1, <2>2, <2>3, <2>4, <1>j DEF Joined
<1>4. CASE Pop
    <2>1. /\ thread = "pop" /\ UNCHANGED <<added, owner, done, started, stopped, late>>
        BY <1>4 DEF Pop
    <2>2. CASE queue = <<>>
        <3>1. thread' = "choose" /\ queue' = queue /\ held' = held
            BY <1>4, <2>2 DEF Pop
        <3> QED
            BY <2>1, <3>1, <1>j, OthersKeep DEF Types, Lateness, Joined
    <2>3. CASE queue # <<>>
        <3>1. thread' = "task" /\ held' = Head(queue) /\ queue' = Tail(queue)
            BY <1>4, <2>3 DEF Pop
        <3>2. /\ Tail(queue) \in Seq(Task) /\ Head(queue) \in Task /\ Head(queue) = queue[1]
              /\ Len(Tail(queue)) = Len(queue) - 1 /\ Len(queue) \in Nat \ {0}
              /\ \A i \in 1 .. Len(queue) - 1 : Tail(queue)[i] = queue[i + 1]
            BY <2>3 DEF Types
        <3>3. Taken' = Taken + 1 /\ Taken \in Nat
            BY <2>1, <3>1 DEF Taken, Types
        <3>4. held' \in Task /\ held' # None /\ held'.id = Taken'
            BY <3>1, <3>2, <3>3, TaskTypes DEF Numbered
        <3>5. ASSUME NEW i \in 1 .. Len(queue') PROVE queue'[i].id = Taken' + i
            <4>1. i \in 1 .. Len(queue) - 1 /\ i + 1 \in 1 .. Len(queue)
                BY <3>1, <3>2
            <4> QED
                BY <3>1, <3>2, <3>3, <4>1 DEF Numbered
        <3>6. added' = Taken' + Len(queue')
            BY <2>1, <3>1, <3>2, <3>3 DEF Numbered
        <3>7. Numbered'
            BY <2>1, <3>1, <3>4, <3>5, <3>6 DEF Numbered
        <3> QED
            BY <2>1, <3>1, <3>2, <3>4, <3>7, <1>j DEF Types, Lateness, Joined
    <2> QED
        BY <2>2, <2>3
<1>5. CASE RunTask
    <2>1. /\ thread = "task" /\ thread' = "pop" /\ held' = None /\ done' = Append(done, held.id)
          /\ UNCHANGED <<queue, added, owner>>
        BY <1>5 DEF RunTask
    <2>2. held.id = Len(done) + 1 /\ Len(done) \in Nat
        BY <2>1 DEF Numbered, Taken, Types
    <2>3. /\ done' \in Seq(Nat) /\ Len(done') = Len(done) + 1
          /\ \A i \in 1 .. Len(done) : done'[i] = done[i]
          /\ done'[Len(done) + 1] = Len(done) + 1
        <3>1. held.id \in Nat
            BY <2>2
        <3> QED
            BY <2>1, <2>2, <3>1, AppendProperties DEF Types
    <2>4. Taken' = Taken
        BY <2>1, <2>2, <2>3 DEF Taken
    <2>5. ASSUME NEW i \in 1 .. Len(done') PROVE done'[i] = i
        <3>1. i \in 1 .. Len(done) \/ i = Len(done) + 1
            BY <2>2, <2>3
        <3> QED
            BY <2>3, <3>1 DEF Numbered
    <2>6. Numbered'
        BY <2>1, <2>4, <2>5 DEF Numbered
    <2>7. \/ started' = TRUE /\ stopped' = "no" /\ late' = 0
          \/ started' = FALSE /\ stopped' = "own" /\ late' = 0
          \/ UNCHANGED <<started, stopped, late>>
        BY <1>5 DEF RunTask
    <2>8. Types'
        <3>1. late' \in Nat /\ stopped' \in {"no", "own", "other"}
            BY <2>7 DEF Types
        <3>2. started' \in BOOLEAN
            BY <2>7 DEF Types
        <3> QED
            BY <2>1, <2>3, <3>1, <3>2 DEF Types
    <2>9. Lateness'
        BY <2>1, <2>7 DEF Lateness
    <2> QED
        BY <2>1, <2>6, <2>8, <2>9, <1>j DEF Joined
<1> QED
    BY <1>1, <1>2, <1>3, <1>4, <1>5 DEF Thread
-----------------------------------------------------------------------------
(* Theorems                                                                *)

THEOREM SchedulerInvariant == Spec => []SchedulerInv
<1>1. SchedulerInv /\ UNCHANGED vars => SchedulerInv'
    BY DEF SchedulerInv, Types, Numbered, Lateness, Joined, Taken, vars
<1>2. SchedulerInv /\ [Next]_vars => SchedulerInv'
    BY <1>1, CallerStep, ThreadStep DEF Next
<1> QED
    BY <1>2, InitScheduler, PTL DEF Spec

\* on_task_ has every task once and in the order in which they were added,
\* whatever the callers, the thread and the owner do in between.
THEOREM TasksKeepOrder == Spec => []TasksInOrder
<1>1. SchedulerInv => TasksInOrder
    <2> SUFFICES ASSUME Types, Numbered PROVE TasksInOrder
        BY DEF SchedulerInv
    <2>1. done \in Seq(Nat) /\ Len(done) \in Nat /\ queue \in Seq(Task) /\ Len(queue) \in Nat
        BY DEF Types
    <2>2. Held \in Seq(Nat) /\ Len(Held) = Taken - Len(done) /\ \A i \in 1 .. Len(Held) : Held[i] = Len(done) + i
        <3>1. CASE thread = "task"
            <4>1. held.id = Len(done) + 1 /\ held # None /\ Taken = Len(done) + 1
                BY <2>1, <3>1 DEF Numbered, Taken
            <4>2. held.id \in Nat /\ Held = <<held.id>>
                BY <2>1, <4>1 DEF Held
            <4>3. Held \in Seq(Nat) /\ Len(Held) = 1 /\ Held[1] = held.id
                BY <4>2
            <4> QED
                BY <2>1, <4>1, <4>3
        <3>2. CASE thread # "task"
            <4>1. held = None /\ Taken = Len(done)
                BY <2>1, <3>2 DEF Numbered, Taken
            <4>2. Held = <<>>
                BY <4>1 DEF Held
            <4> QED
                BY <2>1, <4>1, <4>2
        <3> QED
            BY <3>1, <3>2
    <2>3. Waiting \in Seq(Nat) /\ Len(Waiting) = Len(queue) /\ \A i \in 1 .. Len(queue) : Waiting[i] = Taken + i
        <3>1. DOMAIN queue = 1 .. Len(queue)
            BY <2>1
        <3>2. \A i \in 1 .. Len(queue) : queue[i].id \in Nat
            BY <2>1, ElementOfSeq, TaskTypes
        <3>3. Waiting \in [1 .. Len(queue) -> Nat]
            BY <3>1, <3>2 DEF Waiting
        <3>4. Waiting \in Seq(Nat) /\ Len(Waiting) = Len(queue)
            BY <2>1, <3>3, SeqDef, LenProperties, SMTT(60)
        <3>5. \A i \in 1 .. Len(queue) : Waiting[i] = queue[i].id
            BY <3>1 DEF Waiting
        <3>6. \A i \in 1 .. Len(queue) : queue[i].id = Taken + i
            BY DEF Numbered
        <3> QED
            BY <3>4, <3>5, <3>6
    <2>4. Taken \in Nat /\ added = Taken + Len(queue) /\ Len(done) <= Taken
        BY <2>1 DEF Taken, Numbered
    <2> DEFINE front == done \o Held
               all == front \o Waiting
    <2>5. front \in Seq(Nat) /\ Len(front) = Taken /\ \A i \in 1 .. Len(front) : front[i] = i
        <3>1. \A i \in 1 .. Len(done) : done[i] = i
            BY DEF Numbered
        <3>2. Len(done) + Len(Held) = Taken
            BY <2>1, <2>2, <2>4
        <3> QED
            BY <2>1, <2>2, <3>1, <3>2, CountsOn
    <2> HIDE DEF front
    <2>6. all \in Seq(Nat) /\ Len(all) = Len(front) + Len(Waiting) /\ \A i \in 1 .. Len(all) : all[i] = i
        BY <2>3, <2>5, CountsOn
    <2>7. Len(all) = added
        BY <2>3, <2>4, <2>5, <2>6
    <2> HIDE DEF all
    <2>8. \A i \in 1 .. added : all[i] = i
        BY <2>6, <2>7
    <2>9. all = [i \in 1 .. added |-> all[i]]
        BY <2>6, <2>7
    <2>10. all = [i \in 1 .. added |-> i]
        BY <2>8, <2>9
    <2> QED
        BY <2>10 DEF TasksInOrder, all, front
<1> QED
    BY <1>1, SchedulerInvariant, PTL

\* A stop from another thread is followed by one late repeat at most, a stop by a
\* task by none.
THEOREM LateRepeats == Spec => []LateRepeatBounded
<1>1. SchedulerInv => LateRepeatBounded
    BY DEF SchedulerInv, Lateness, LateRepeatBounded
<1> QED
    BY <1>1, SchedulerInvariant, PTL

\* Nothing of the thread runs once terminateAndWait() has returned.
THEOREM JoinIsQuiet == Spec => QuietAfterJoin
<1>1. SchedulerInv /\ [Next]_vars => (owner = "joined" => UNCHANGED <<done, late, thread>>)
    <2> SUFFICES ASSUME SchedulerInv, [Next]_vars, owner = "joined"
                 PROVE  UNCHANGED <<done, late, thread>>
        OBVIOUS
    <2>1. thread = "ended"
        BY DEF SchedulerInv, Joined
    <2> QED
        BY <2>1 DEF Next, Others, Add, WakeUp, Notify, Start, Stop, TerminateAndWait, SetTerminated,
                    TerminateWakesUp, Join, Thread, Top, Pop, RunTask, Choose, Repeat, Sleep, Timeout, vars
<1> QED
    BY <1>1, SchedulerInvariant, PTL DEF Spec, QuietAfterJoin

-------------------------------------------------------------------------------
(* The player                                                              *)

Codec == [context : {"none", "made", "open"}, pts : Int, queue : Seq(Nat \ {0})]

\* Packets that wait for a codec.
Depth(c) == Len(c.queue)

PlayerTypes ==
    /\ position \in Nat /\ out \in Int /\ leaked \in Nat
    /\ sound \in Codec /\ worker \in Nat
    /\ picture \in Codec /\ popped \in Nat /\ viewer \in {"look", "pop", "show"}
    /\ viewer = "show" <=> popped # NoPacket
    /\ target \in Int /\ reached \in Int /\ shown \subseteq Int

\* The sound has reached the pictures shown when another is let through; else
\* the one ahead is the last one, whose pts the open codec still has.
Reached == \A p \in shown : p <= reached
AheadInv ==
    /\ target <= reached
    /\ \A p, q \in shown : p > reached /\ q > reached => p = q
    /\ picture.context = "open" =>
         /\ viewer \in {"pop", "show"} => Reached
         /\ \A p \in shown : p > reached => p = picture.pts

PlayerInv == PlayerTypes /\ PacketsAccounted /\ AheadInv
-------------------------------------------------------------------------------
LEMMA Times == \A p \in Nat : SoundTime(p) \in Int /\ PictureTime(p) \in Int
BY PlayerAssumption DEF SoundTime, PictureTime

\* What an edit of a codec leaves alone.
LEMMA Edited ==
    ASSUME NEW c \in Codec
    PROVE  /\ c.pts \in Int /\ c.queue \in Seq(Nat \ {0})
           /\ Made(c) \in Codec /\ Made(c).queue = c.queue /\ Made(c).context = "made"
           /\ Opened(c) \in Codec /\ Opened(c).queue = c.queue
           /\ Gone(c) \in Codec /\ Gone(c).queue = c.queue /\ Gone(c).context = "none"
           /\ \A n \in Int : /\ [c EXCEPT !.pts = n] \in Codec
                             /\ [c EXCEPT !.pts = n].pts = n
                             /\ [c EXCEPT !.pts = n].queue = c.queue
<1>1. Unset \in Int
    BY DEF Unset
<1>2. c.pts \in Int /\ c.queue \in Seq(Nat \ {0})
    BY DEF Codec
<1>3. ASSUME NEW d \in Codec, NEW n \in Int
      PROVE  /\ [d EXCEPT !.pts = n] \in Codec
             /\ [d EXCEPT !.pts = n].pts = n
             /\ [d EXCEPT !.pts = n].context = d.context
             /\ [d EXCEPT !.pts = n].queue = d.queue
    BY DEF Codec
<1>4. ASSUME NEW s \in {"none", "made", "open"}
      PROVE  /\ [c EXCEPT !.context = s] \in Codec
             /\ [c EXCEPT !.context = s].context = s
             /\ [c EXCEPT !.context = s].queue = c.queue
    BY DEF Codec
<1>5. Made(c) \in Codec /\ Made(c).queue = c.queue /\ Made(c).context = "made"
    <2>1. 0 \in Int
        OBVIOUS
    <2>2. /\ [c EXCEPT !.context = "made"] \in Codec
          /\ [c EXCEPT !.context = "made"].context = "made"
          /\ [c EXCEPT !.context = "made"].queue = c.queue
        BY <1>4
    <2> QED
        BY <1>3, <2>1, <2>2, Zenon DEF Made
<1>6. Opened(c) \in Codec /\ Opened(c).queue = c.queue
    <2>1. /\ [c EXCEPT !.context = "open"] \in Codec
          /\ [c EXCEPT !.context = "open"].queue = c.queue
        BY <1>4
    <2> QED
        BY <1>1, <1>3, <2>1, Zenon DEF Opened
<1>7. Gone(c) \in Codec /\ Gone(c).queue = c.queue /\ Gone(c).context = "none"
    BY <1>4 DEF Gone
<1> QED
    BY <1>2, <1>3, <1>5, <1>6, <1>7

LEMMA Left ==
    ASSUME NEW c \in Codec, NEW d \in LeftBy(c)
    PROVE  /\ d \in Codec /\ d.queue = c.queue
           /\ d.context = "open" => d = c
<1>1. d = c \/ d = Made(c)
    BY DEF LeftBy
<1> QED
    BY <1>1, Edited

LEMMA Queued ==
    ASSUME NEW c \in Codec, NEW p \in Nat \ {0}
    PROVE  /\ Written(c, p) \in Codec /\ Written(c, p).pts = c.pts
           /\ Written(c, p).context = c.context
           /\ Depth(Written(c, p)) = Depth(c) + (IF c.context # "none" THEN 1 ELSE 0)
           /\ Depth(c) \in Nat
<1>1. c.queue \in Seq(Nat \ {0})
    BY DEF Codec
<1>2. Append(c.queue, p) \in Seq(Nat \ {0}) /\ Len(Append(c.queue, p)) = Len(c.queue) + 1 /\ Len(c.queue) \in Nat
    BY <1>1
<1>3. CASE c.context # "none"
    <2>1. Written(c, p) = [c EXCEPT !.queue = Append(c.queue, p)]
        BY <1>3 DEF Written
    <2>2. Written(c, p) \in Codec /\ Written(c, p).pts = c.pts /\ Written(c, p).context = c.context
        BY <1>2, <2>1 DEF Codec
    <2>3. Written(c, p).queue = Append(c.queue, p)
        BY <2>1 DEF Codec
    <2> QED
        BY <1>2, <1>3, <2>2, <2>3 DEF Depth
<1>4. CASE c.context = "none"
    BY <1>2, <1>4 DEF Written, Depth
<1> QED
    BY <1>3, <1>4

LEMMA Dequeued ==
    ASSUME NEW c \in Codec, c.queue # <<>>
    PROVE  /\ [c EXCEPT !.queue = Tail(@)] \in Codec
           /\ [c EXCEPT !.queue = Tail(@)].pts = c.pts
           /\ [c EXCEPT !.queue = Tail(@)].context = c.context
           /\ Depth([c EXCEPT !.queue = Tail(@)]) = Depth(c) - 1
           /\ Head(c.queue) \in Nat \ {0} /\ Depth(c) \in Nat
<1>1. c.queue \in Seq(Nat \ {0})
    BY DEF Codec
<1>2. Tail(c.queue) \in Seq(Nat \ {0}) /\ Len(Tail(c.queue)) = Len(c.queue) - 1 /\ Head(c.queue) \in Nat \ {0}
      /\ Len(c.queue) \in Nat
    BY <1>1
<1>3. [c EXCEPT !.queue = Tail(@)].queue = Tail(c.queue)
    BY DEF Codec
<1>4. /\ [c EXCEPT !.queue = Tail(@)] \in Codec /\ [c EXCEPT !.queue = Tail(@)].pts = c.pts
      /\ [c EXCEPT !.queue = Tail(@)].context = c.context
    BY <1>2 DEF Codec
<1> QED
    BY <1>2, <1>3, <1>4 DEF Depth

LEMMA Accounts ==
    /\ PacketsAccounted <=>
         out = Depth(sound) + Depth(picture) + Holding(worker) + Holding(popped) + leaked
    /\ \A n : Holding(n) = IF n = 0 THEN 0 ELSE 1
    /\ \A c \in Codec : Depth(c) \in Nat
<1>1. ASSUME NEW c \in Codec PROVE Depth(c) \in Nat
    <2>1. c.queue \in Seq(Nat \ {0})
        BY DEF Codec
    <2> QED
        BY <2>1 DEF Depth
<1> QED
    BY <1>1 DEF PacketsAccounted, Depth, Holding, NoPacket

LEMMA AccountsNext ==
    ASSUME out' = Depth(sound') + Depth(picture') + Holding(worker') + Holding(popped') + leaked'
    PROVE  PacketsAccounted'
BY DEF PacketsAccounted, Depth

LEMMA InitPlayer == PlayerInit => PlayerInv
<1> SUFFICES ASSUME PlayerInit PROVE PlayerInv
    OBVIOUS
<1>1. NoCodec \in Codec /\ NoCodec.queue = <<>> /\ NoCodec.context = "none"
    BY DEF NoCodec, Codec
<1>2. Len(<<>>) = 0
    OBVIOUS
<1>3. PlayerTypes
    BY <1>1 DEF PlayerInit, PlayerTypes, NoPacket
<1>4. PacketsAccounted
    BY <1>1, <1>2 DEF PlayerInit, PacketsAccounted, Holding, NoPacket
<1>5. AheadInv
    BY DEF PlayerInit, AheadInv, Reached
<1> QED
    BY <1>3, <1>4, <1>5 DEF PlayerInv

USE DEF NoPacket

\* What of the account a step leaves alone.
Places == <<sound.queue, picture.queue, worker, popped, out, leaked>>

\* The caller's tasks and the steps that move no packet.
Calls ==
    \/ OpenSound \/ OpenSoundFails \/ OpenDevice \/ OpenDeviceFails \/ OpenPicture \/ OpenPictureFails
    \/ Play \/ Pause \/ Move \/ Close
Idles == AudioSync \/ ReadOther \/ ReadNothing \/ CloseStream \/ CloseSound \/ ClosePicture

LEMMA CallTypes ==
    ASSUME PlayerTypes, Calls
    PROVE  PlayerTypes' /\ UNCHANGED Places
<1>t. /\ position \in Nat /\ out \in Int /\ leaked \in Nat /\ sound \in Codec /\ worker \in Nat
      /\ picture \in Codec /\ popped \in Nat /\ viewer \in {"look", "pop", "show"}
      /\ viewer = "show" <=> popped # 0
      /\ target \in Int /\ reached \in Int /\ shown \subseteq Int
    BY DEF PlayerTypes
<1>1. sound' \in Codec /\ sound'.queue = sound.queue
    <2>1. CASE sound' = sound
        BY <1>t, <2>1
    <2>2. CASE sound' = Opened(sound)
        BY <1>t, <2>2, Edited
    <2>3. CASE sound' \in LeftBy(sound)
        BY <1>t, <2>3, Left
    <2>4. CASE sound' = Gone(sound)
        BY <1>t, <2>4, Edited
    <2> QED
        BY <2>1, <2>2, <2>3, <2>4 DEF Calls, OpenSound, OpenSoundFails, OpenDevice, OpenDeviceFails,
           OpenPicture, OpenPictureFails, Play, Pause, Move, Close
<1>2. picture' \in Codec /\ picture'.queue = picture.queue
    <2>1. CASE picture' = picture
        BY <1>t, <2>1
    <2>2. CASE picture' = Opened(picture)
        BY <1>t, <2>2, Edited
    <2>3. CASE picture' \in LeftBy(picture)
        BY <1>t, <2>3, Left
    <2> QED
        BY <2>1, <2>2, <2>3 DEF Calls, OpenSound, OpenSoundFails, OpenDevice, OpenDeviceFails,
           OpenPicture, OpenPictureFails, Play, Pause, Move, Close, video
<1>3. position' \in Nat
    <2>1. position' = position \/ position' = 0 \/ position' \in 0 .. Length
        BY DEF Calls, OpenSound, OpenSoundFails, OpenDevice, OpenDeviceFails, OpenPicture,
           OpenPictureFails, Play, Pause, Move, Close
    <2> QED
        BY <1>t, <2>1, PlayerAssumption
<1>4. UNCHANGED <<worker, popped, out, leaked, viewer, target, reached>> /\ (shown' = shown \/ shown' = {})
    BY DEF Calls, OpenSound, OpenSoundFails, OpenDevice, OpenDeviceFails, OpenPicture,
           OpenPictureFails, Play, Pause, Move, Close, video, memory, history
<1> QED
    BY <1>t, <1>1, <1>2, <1>3, <1>4 DEF PlayerTypes, Places

LEMMA IdleTypes ==
    ASSUME PlayerTypes, Idles
    PROVE  PlayerTypes' /\ UNCHANGED Places
<1>t. /\ position \in Nat /\ out \in Int /\ leaked \in Nat /\ sound \in Codec /\ worker \in Nat
      /\ picture \in Codec /\ popped \in Nat /\ viewer \in {"look", "pop", "show"}
      /\ viewer = "show" <=> popped # 0
      /\ target \in Int /\ reached \in Int /\ shown \subseteq Int
    BY DEF PlayerTypes
<1>1. sound' \in Codec /\ sound'.queue = sound.queue
    <2>1. CASE sound' = sound
        BY <1>t, <2>1
    <2>2. CASE sound' = Gone(sound)
        BY <1>t, <2>2, Edited
    <2> QED
        BY <2>1, <2>2 DEF Idles, AudioSync, ReadOther, ReadNothing, CloseStream, CloseSound,
           ClosePicture
<1>2. picture' \in Codec /\ picture'.queue = picture.queue
    <2>1. CASE picture' = picture
        BY <1>t, <2>1
    <2>2. CASE picture' = Gone(picture)
        BY <1>t, <2>2, Edited
    <2> QED
        BY <2>1, <2>2 DEF Idles, AudioSync, ReadOther, ReadNothing, CloseStream, CloseSound,
           ClosePicture, video
<1>3. target' \in Int /\ reached' \in Int
    <2>1. CASE AudioSync
        <3>1. target' \in Int
            BY <1>t, <2>1, Edited DEF AudioSync
        <3> QED
            BY <1>t, <2>1, <3>1 DEF AudioSync
    <2>2. CASE UNCHANGED <<target, reached>>
        BY <1>t, <2>2
    <2> QED
        BY <2>1, <2>2 DEF Idles, ReadOther, ReadNothing, CloseStream, CloseSound, ClosePicture,
           history
<1>4. position' = position \/ position' = position + 1
    BY DEF Idles, AudioSync, ReadOther, ReadNothing, CloseStream, CloseSound, ClosePicture
<1>5. UNCHANGED <<worker, popped, out, leaked, viewer, shown>>
    BY DEF Idles, AudioSync, ReadOther, ReadNothing, CloseStream, CloseSound, ClosePicture,
       video, memory, history
<1> QED
    BY <1>t, <1>1, <1>2, <1>3, <1>4, <1>5 DEF PlayerTypes, Places

\* A packet that is read, drained, decoded, popped or shown stays in the account.
LEMMA ReadTypes ==
    ASSUME PlayerTypes, PacketsAccounted, ReadSound \/ ReadPicture
    PROVE  PlayerTypes' /\ PacketsAccounted'
<1>t. /\ position \in Nat /\ out \in Int /\ leaked \in Nat /\ sound \in Codec /\ worker \in Nat
      /\ picture \in Codec /\ popped \in Nat /\ viewer \in {"look", "pop", "show"}
      /\ viewer = "show" <=> popped # 0
      /\ target \in Int /\ reached \in Int /\ shown \subseteq Int
    BY DEF PlayerTypes
<1>a. out = Depth(sound) + Depth(picture) + Holding(worker) + Holding(popped) + leaked
    BY Accounts
<1>h. Holding(worker) \in Nat /\ Holding(popped) \in Nat
    BY Accounts
<1>l. Depth(sound) \in Nat /\ Depth(picture) \in Nat /\ out \in Int /\ leaked \in Nat
    BY <1>t, Accounts
<1>p. Packet \in Nat \ {0} /\ position + 1 \in Nat
    BY <1>t DEF Packet
<1>1. CASE ReadSound
    <2>1. /\ sound' = Written(sound, Packet) /\ out' = out + (IF sound.context # "none" THEN 1 ELSE 0)
          /\ UNCHANGED <<picture, worker, popped, viewer, leaked, target, reached, shown>>
          /\ position' = position + 1
        BY <1>1 DEF ReadSound, video, history
    <2>2. sound' \in Codec /\ Depth(sound') = Depth(sound) + (IF sound.context # "none" THEN 1 ELSE 0)
        BY <1>t, <1>p, <2>1, Queued
    <2>3. out' \in Int
        BY <1>l, <2>1
    <2>4. PlayerTypes'
        BY <1>t, <1>p, <2>1, <2>2, <2>3 DEF PlayerTypes
    <2>5. out' = Depth(sound') + Depth(picture') + Holding(worker') + Holding(popped') + leaked'
        <3>1. /\ Depth(picture') = Depth(picture) /\ Holding(worker') = Holding(worker)
              /\ Holding(popped') = Holding(popped)
            BY <2>1
        <3>2. out' = out + (IF sound.context # "none" THEN 1 ELSE 0) /\ leaked' = leaked
            BY <2>1
        <3> QED
            BY <1>a, <1>h, <1>l, <2>2, <3>1, <3>2
    <2> QED
        BY <2>4, <2>5, AccountsNext
<1>2. CASE ReadPicture
    <2>1. /\ picture' = Written(picture, Packet) /\ out' = out + (IF picture.context # "none" THEN 1 ELSE 0)
          /\ UNCHANGED <<sound, worker, popped, viewer, leaked, target, reached, shown>>
          /\ position' = position + 1
        BY <1>2 DEF ReadPicture, video, history
    <2>2. picture' \in Codec /\ Depth(picture') = Depth(picture) + (IF picture.context # "none" THEN 1 ELSE 0)
        BY <1>t, <1>p, <2>1, Queued
    <2>3. out' \in Int
        BY <1>l, <2>1
    <2>4. PlayerTypes'
        BY <1>t, <1>p, <2>1, <2>2, <2>3 DEF PlayerTypes
    <2>5. out' = Depth(sound') + Depth(picture') + Holding(worker') + Holding(popped') + leaked'
        <3>1. /\ Depth(sound') = Depth(sound) /\ Holding(worker') = Holding(worker)
              /\ Holding(popped') = Holding(popped)
            BY <2>1
        <3>2. out' = out + (IF picture.context # "none" THEN 1 ELSE 0) /\ leaked' = leaked
            BY <2>1
        <3> QED
            BY <1>a, <1>h, <1>l, <2>2, <3>1, <3>2
    <2> QED
        BY <2>4, <2>5, AccountsNext
<1> QED
    BY <1>1, <1>2

LEMMA SoundTypes ==
    ASSUME PlayerTypes, PacketsAccounted, TakeSound \/ DecodeSound \/ AudioCallback
    PROVE  PlayerTypes' /\ PacketsAccounted'
<1>t. /\ position \in Nat /\ out \in Int /\ leaked \in Nat /\ sound \in Codec /\ worker \in Nat
      /\ picture \in Codec /\ popped \in Nat /\ viewer \in {"look", "pop", "show"}
      /\ viewer = "show" <=> popped # 0
      /\ target \in Int /\ reached \in Int /\ shown \subseteq Int
    BY DEF PlayerTypes
<1>a. out = Depth(sound) + Depth(picture) + Holding(worker) + Holding(popped) + leaked
    BY Accounts
<1>h. Holding(worker) \in Nat /\ Holding(popped) \in Nat
    BY Accounts
<1>l. Depth(sound) \in Nat /\ Depth(picture) \in Nat /\ out \in Int /\ leaked \in Nat
    BY <1>t, Accounts
<1>u. UNCHANGED <<position, picture, popped, viewer, target, reached, shown>>
    BY DEF TakeSound, DecodeSound, AudioCallback, video, history
<1>w. Depth(picture') = Depth(picture) /\ Holding(popped') = Holding(popped)
    BY <1>u
<1>1. CASE TakeSound
    <2>1. /\ worker = 0 /\ sound.queue # <<>> /\ sound' = [sound EXCEPT !.queue = Tail(@)]
          /\ \/ worker' = Head(sound.queue) /\ out' = out
             \/ worker' = worker /\ out' = out - 1
        BY <1>1 DEF TakeSound
    <2>f. leaked' = leaked
        BY <1>1 DEF TakeSound
    <2>2. sound' \in Codec /\ Depth(sound') = Depth(sound) - 1 /\ Head(sound.queue) \in Nat \ {0}
        BY <1>t, <2>1, Dequeued
    <2>3. out' - Holding(worker') = out - 1 /\ Holding(worker) = 0 /\ Holding(worker') \in Nat
        <3>1. Holding(worker) = 0 /\ Holding(Head(sound.queue)) = 1
            BY <2>1, <2>2, Accounts
        <3>2. CASE worker' = Head(sound.queue) /\ out' = out
            BY <1>l, <3>1, <3>2
        <3>3. CASE worker' = worker /\ out' = out - 1
            BY <1>l, <3>1, <3>3
        <3> QED
            BY <2>1, <3>2, <3>3
    <2>4. worker' \in Nat /\ out' \in Int
        BY <1>t, <2>1, <2>2
    <2>5. out' = Depth(sound') + Depth(picture') + Holding(worker') + Holding(popped') + leaked'
        <3>1. out' \in Int
            BY <2>4
        <3> QED
            BY <1>a, <1>h, <1>l, <1>w, <2>f, <2>2, <2>3, <3>1
    <2>6. PlayerTypes'
        BY <1>t, <1>u, <2>f, <2>2, <2>4 DEF PlayerTypes
    <2> QED
        BY <2>5, <2>6, AccountsNext
<1>2. CASE DecodeSound
    <2>1. /\ worker # 0 /\ worker' = 0
          /\ sound' = sound \/ sound' = [sound EXCEPT !.pts = SoundTime(worker)]
        BY <1>2 DEF DecodeSound
    <2>f. \/ out' = out - 1 /\ leaked' = leaked
          \/ out' = out /\ leaked' = leaked + 1
        BY <1>2 DEF DecodeSound, Freed, Forgotten
    <2>2. sound' \in Codec /\ sound'.queue = sound.queue
        <3>1. CASE sound' = sound
            BY <1>t, <3>1
        <3>2. CASE sound' = [sound EXCEPT !.pts = SoundTime(worker)]
            BY <1>t, <3>2, Edited, Times
        <3> QED
            BY <2>1, <3>1, <3>2
    <2>3. Holding(worker) = 1 /\ Holding(worker') = 0 /\ Depth(sound') = Depth(sound)
        BY <2>1, <2>2, Accounts DEF Depth
    <2>4. out' = Depth(sound') + Depth(picture') + Holding(worker') + Holding(popped') + leaked'
        BY <1>a, <1>h, <1>l, <1>w, <2>f, <2>3
    <2>5. worker' \in Nat /\ out' \in Int /\ leaked' \in Nat
        BY <1>l, <2>f, <2>1
    <2>6. PlayerTypes'
        BY <1>t, <1>u, <2>2, <2>5 DEF PlayerTypes
    <2> QED
        BY <2>4, <2>6, AccountsNext
<1>3. CASE AudioCallback
    <2>1. UNCHANGED <<sound, worker, out, leaked>>
        BY <1>3 DEF AudioCallback, memory
    <2>2. PlayerTypes'
        BY <1>t, <1>u, <2>1 DEF PlayerTypes
    <2>3. out' = Depth(sound') + Depth(picture') + Holding(worker') + Holding(popped') + leaked'
        BY <1>a, <1>w, <2>1
    <2> QED
        BY <2>2, <2>3, AccountsNext
<1> QED
    BY <1>1, <1>2, <1>3

LEMMA PictureTypes ==
    ASSUME PlayerTypes, PacketsAccounted, Drain \/ Viewer
    PROVE  PlayerTypes' /\ PacketsAccounted'
<1>t. /\ position \in Nat /\ out \in Int /\ leaked \in Nat /\ sound \in Codec /\ worker \in Nat
      /\ picture \in Codec /\ popped \in Nat /\ viewer \in {"look", "pop", "show"}
      /\ viewer = "show" <=> popped # 0
      /\ target \in Int /\ reached \in Int /\ shown \subseteq Int
    BY DEF PlayerTypes
<1>a. out = Depth(sound) + Depth(picture) + Holding(worker) + Holding(popped) + leaked
    BY Accounts
<1>h. Holding(worker) \in Nat /\ Holding(popped) \in Nat
    BY Accounts
<1>l. Depth(sound) \in Nat /\ Depth(picture) \in Nat /\ out \in Int /\ leaked \in Nat
    BY <1>t, Accounts
<1>u. UNCHANGED <<position, sound, worker, target, reached>>
    <2>1. CASE Drain
        BY <2>1 DEF Drain, history
    <2>2. CASE Viewer
        <3>1. UNCHANGED others
            BY <2>2 DEF Viewer, Look, PopPicture, Show
        <3>2. UNCHANGED reached
            BY <2>2 DEF Viewer, Look, PopPicture, Show, history
        <3> QED
            BY <3>1, <3>2 DEF others
    <2> QED
        BY <2>1, <2>2
<1>w. Depth(sound') = Depth(sound) /\ Holding(worker') = Holding(worker)
    BY <1>u
<1>k. ASSUME UNCHANGED <<picture, popped, out, leaked, shown>>, viewer' \in {"look", "pop"}, viewer # "show"
      PROVE  PlayerTypes' /\ PacketsAccounted'
    <2>1. PlayerTypes'
        BY <1>k, <1>t, <1>u DEF PlayerTypes
    <2>2. out' = Depth(sound') + Depth(picture') + Holding(worker') + Holding(popped') + leaked'
        BY <1>a, <1>k, <1>w
    <2> QED
        BY <2>1, <2>2, AccountsNext
<1>1. CASE Drain
    <2>1. UNCHANGED <<viewer, popped, leaked, shown>>
        BY <1>1 DEF Drain, history
    <2>2. CASE picture.queue = <<>>
        <3>1. UNCHANGED <<picture, out>>
            BY <1>1, <2>2 DEF Drain
        <3>2. PlayerTypes'
            BY <1>t, <1>u, <2>1, <3>1 DEF PlayerTypes
        <3>3. out' = Depth(sound') + Depth(picture') + Holding(worker') + Holding(popped') + leaked'
            BY <1>a, <1>w, <2>1, <3>1
        <3> QED
            BY <3>2, <3>3, AccountsNext
    <2>3. CASE picture.queue # <<>>
        <3>1. picture' = [picture EXCEPT !.queue = Tail(@)] /\ out' = out - 1
            BY <1>1, <2>3 DEF Drain
        <3>2. picture' \in Codec /\ Depth(picture') = Depth(picture) - 1
            BY <1>t, <2>3, <3>1, Dequeued
        <3>3. out' = out - 1 /\ Holding(popped') = Holding(popped)
            BY <2>1, <3>1
        <3>4. out' = Depth(sound') + Depth(picture') + Holding(worker') + Holding(popped') + leaked'
            BY <1>a, <1>h, <1>l, <1>w, <2>1, <3>2, <3>3
        <3>5. out' \in Int
            BY <1>l, <3>3
        <3>6. PlayerTypes'
            BY <1>t, <1>u, <2>1, <3>2, <3>5 DEF PlayerTypes
        <3> QED
            BY <3>4, <3>6, AccountsNext
    <2> QED
        BY <2>2, <2>3
<1>2. CASE Look
    <2>1. UNCHANGED <<picture, popped, out, leaked, shown>> /\ viewer' \in {"look", "pop"} /\ viewer = "look"
        BY <1>2 DEF Look, memory, history
    <2> QED
        BY <1>k, <2>1
<1>3. CASE PopPicture
    <2>1. UNCHANGED <<out, leaked, shown>> /\ viewer = "pop"
        BY <1>3 DEF PopPicture, memory, history
    <2>2. CASE picture.queue = <<>>
        <3>1. UNCHANGED <<picture, popped>> /\ viewer' = "look"
            BY <1>3, <2>2 DEF PopPicture
        <3> QED
            BY <1>k, <2>1, <3>1
    <2>3. CASE picture.queue # <<>>
        <3>1. picture' = [picture EXCEPT !.queue = Tail(@)] /\ popped' = Head(picture.queue) /\ viewer' = "show"
            BY <1>3, <2>3 DEF PopPicture
        <3>2. /\ picture' \in Codec /\ Depth(picture') = Depth(picture) - 1
              /\ Head(picture.queue) \in Nat \ {0}
            BY <1>t, <2>3, <3>1, Dequeued
        <3>3. PlayerTypes'
            BY <1>t, <1>u, <2>1, <3>1, <3>2 DEF PlayerTypes
        <3>4. Holding(popped') = 1 /\ Holding(popped) = 0 /\ out' = out
            BY <1>t, <2>1, <3>1, <3>2, Accounts
        <3>5. out' = Depth(sound') + Depth(picture') + Holding(worker') + Holding(popped') + leaked'
            <4>1. Depth(picture') = Depth(picture) - 1
                BY <3>2
            <4> QED
                BY <1>a, <1>h, <1>l, <1>w, <2>1, <3>4, <4>1
        <3> QED
            BY <3>3, <3>5, AccountsNext
    <2> QED
        BY <2>2, <2>3
<1>4. CASE Show
    <2>1. /\ popped' = 0 /\ viewer = "show" /\ viewer' = "look"
          /\ \/ /\ picture' = [picture EXCEPT !.pts = PictureTime(popped)]
                /\ shown' = shown \union {PictureTime(popped)}
             \/ picture' = picture /\ shown' = shown
        BY <1>4 DEF Show
    <2>f. \/ out' = out - 1 /\ leaked' = leaked
          \/ out' = out /\ leaked' = leaked + 1
        BY <1>4 DEF Show, Freed, Forgotten
    <2>2. picture' \in Codec /\ picture'.queue = picture.queue
        <3>1. CASE picture' = picture
            BY <1>t, <3>1
        <3>2. CASE picture' = [picture EXCEPT !.pts = PictureTime(popped)]
            BY <1>t, <3>2, Edited, Times
        <3> QED
            BY <2>1, <3>1, <3>2
    <2>3. shown' \subseteq Int
        BY <1>t, <2>1, Times
    <2>4. Holding(popped) = 1 /\ Holding(popped') = 0
        BY <1>t, <2>1, Accounts
    <2>5. Depth(picture') = Depth(picture)
        BY <2>2 DEF Depth
    <2>6. out' = Depth(sound') + Depth(picture') + Holding(worker') + Holding(popped') + leaked'
        BY <1>a, <1>h, <1>l, <1>w, <2>f, <2>4, <2>5
    <2>7. out' \in Int /\ leaked' \in Nat
        BY <1>l, <2>f
    <2>8. PlayerTypes'
        BY <1>t, <1>u, <2>1, <2>2, <2>3, <2>7 DEF PlayerTypes
    <2> QED
        BY <2>6, <2>8, AccountsNext
<1> QED
    BY <1>1, <1>2, <1>3, <1>4 DEF Viewer

LEMMA StillAccounted ==
    ASSUME PlayerTypes, PacketsAccounted, PlayerNext
    PROVE  PlayerTypes' /\ PacketsAccounted'
<1>1. ASSUME UNCHANGED Places PROVE PacketsAccounted'
    BY <1>1 DEF PacketsAccounted, Places, Holding
<1>2. CASE Calls
    BY <1>1, <1>2, CallTypes
<1>3. CASE Idles
    BY <1>1, <1>3, IdleTypes
<1> QED
    BY <1>2, <1>3, ReadTypes, SoundTypes, PictureTypes DEF PlayerNext, Scheduler, Calls, Idles

\* A step that shows nothing and changes no time, and opens nothing.
LEMMA SameAhead ==
    ASSUME PlayerTypes, AheadInv, UNCHANGED <<reached, target, shown, viewer>>,
           picture'.context = "open" => picture.context = "open" /\ picture'.pts = picture.pts
    PROVE  AheadInv'
BY DEF AheadInv, Reached

\* The step by which the sound goes on.
LEMMA Further ==
    ASSUME PlayerTypes, AheadInv, target' \in Int, target' <= reached', reached' \in Int, reached <= reached',
           UNCHANGED <<picture, shown, viewer>>
    PROVE  AheadInv'
<1>t. reached \in Int /\ shown \subseteq Int
    BY DEF PlayerTypes
<1>1. \A p \in shown : p > reached' => p > reached
    BY <1>t
<1>2. Reached => Reached'
    BY <1>t DEF Reached
<1> QED
    BY <1>1, <1>2 DEF AheadInv

\* Only Show adds a picture, and the sound has reached the ones before it.
LEMMA StillAhead ==
    ASSUME PlayerInv, PlayerNext
    PROVE  AheadInv'
<1>t. /\ PlayerTypes /\ AheadInv /\ picture \in Codec /\ picture.pts \in Int
      /\ target \in Int /\ reached \in Int /\ shown \subseteq Int /\ popped \in Nat
    BY Edited DEF PlayerInv, PlayerTypes
<1>1. CASE OpenPicture
    <2>1. UNCHANGED <<reached, target, viewer>> /\ shown' = {}
        BY <1>1 DEF OpenPicture
    <2> QED
        BY <1>t, <2>1 DEF AheadInv, Reached
<1>2. CASE OpenPictureFails
    <2>1. UNCHANGED <<reached, target, viewer, shown>> /\ picture' \in LeftBy(picture)
        BY <1>2 DEF OpenPictureFails, history
    <2> QED
        BY <1>t, <2>1, Left, SameAhead
<1>3. CASE Calls /\ ~OpenPicture /\ ~OpenPictureFails
    <2>1. UNCHANGED <<reached, target, viewer, shown, picture>>
        BY <1>3 DEF Calls, OpenSound, OpenSoundFails, OpenDevice, OpenDeviceFails, Play, Pause,
           Move, Close, video, history
    <2> QED
        BY <1>t, <2>1, SameAhead
<1>4. CASE AudioSync
    <2>1. /\ UNCHANGED <<picture, shown, viewer>>
          /\ reached' = IF target' > reached THEN target' ELSE reached
        BY <1>4 DEF AudioSync, video
    <2>2. target' \in Int
        BY <1>t, <1>4, IdleTypes DEF Idles, PlayerTypes
    <2>3. target' <= reached' /\ reached <= reached' /\ reached' \in Int
        BY <1>t, <2>1, <2>2
    <2> QED
        BY <1>t, <2>1, <2>2, <2>3, Further
<1>5. CASE Idles /\ ~AudioSync
    <2>1. UNCHANGED <<reached, target, viewer, shown>>
        BY <1>5 DEF Idles, ReadOther, ReadNothing, CloseStream, CloseSound, ClosePicture, video,
           history
    <2>2. picture' = picture \/ picture' = Gone(picture)
        BY <1>5 DEF Idles, ReadOther, ReadNothing, CloseStream, CloseSound, ClosePicture, video
    <2> QED
        BY <1>t, <2>1, <2>2, Edited, SameAhead
<1>6. CASE ReadSound \/ ReadPicture
    <2>1. UNCHANGED <<reached, target, viewer, shown>>
        BY <1>6 DEF ReadSound, ReadPicture, video, history
    <2>2. picture' = picture \/ picture' = Written(picture, Packet)
        BY <1>6 DEF ReadSound, ReadPicture, video
    <2>3. Packet \in Nat \ {0}
        BY <1>t DEF Packet, PlayerTypes
    <2> QED
        BY <1>t, <2>1, <2>2, <2>3, Queued, SameAhead
<1>7. CASE TakeSound \/ DecodeSound \/ AudioCallback
    <2>1. UNCHANGED <<picture, reached, target, viewer, shown>>
        BY <1>7 DEF TakeSound, DecodeSound, AudioCallback, video, history
    <2> QED
        BY <1>t, <2>1, SameAhead
<1>8. CASE Drain
    <2>1. UNCHANGED <<reached, target, viewer, shown>>
        BY <1>8 DEF Drain, history
    <2>2. \/ picture' = picture
          \/ picture.queue # <<>> /\ picture' = [picture EXCEPT !.queue = Tail(@)]
        BY <1>8 DEF Drain
    <2> QED
        BY <1>t, <2>1, <2>2, Dequeued, SameAhead
<1>9. CASE Look
    <2>1. /\ UNCHANGED <<picture, reached, target, shown>>
          /\ viewer = "look" /\ (viewer' = "look" \/ picture.pts <= target)
        BY <1>9 DEF Look, others, history
    <2>2. picture.context = "open" /\ picture.pts <= target => Reached
        BY <1>t DEF AheadInv, Reached
    <2>3. Reached' <=> Reached
        BY <2>1 DEF Reached
    <2> QED
        BY <1>t, <2>1, <2>2, <2>3 DEF AheadInv
<1>10. CASE PopPicture
    <2>1. UNCHANGED <<reached, target, shown>> /\ viewer = "pop"
        BY <1>10 DEF PopPicture, others, history
    <2>2. /\ picture'.context = picture.context /\ picture'.pts = picture.pts
        <3>1. \/ picture' = picture
              \/ picture.queue # <<>> /\ picture' = [picture EXCEPT !.queue = Tail(@)]
            BY <1>10 DEF PopPicture
        <3> QED
            BY <1>t, <3>1, Dequeued
    <2>3. picture.context = "open" => Reached
        BY <1>t, <2>1 DEF AheadInv
    <2>4. Reached' <=> Reached
        BY <2>1 DEF Reached
    <2> QED
        BY <1>t, <2>1, <2>2, <2>3, <2>4 DEF AheadInv
<1>11. CASE Show
    <2>1. UNCHANGED <<reached, target>> /\ viewer = "show" /\ viewer' = "look"
        BY <1>11 DEF Show, others
    <2>2. CASE /\ picture.context = "open" /\ shown' = shown \union {PictureTime(popped)}
               /\ picture' = [picture EXCEPT !.pts = PictureTime(popped)]
        <3>1. \A p \in shown : ~(p > reached)
            BY <1>t, <2>1, <2>2 DEF AheadInv, Reached
        <3>2. picture'.pts = PictureTime(popped)
            BY <1>t, <2>2, Edited, Times
        <3>3. \A p \in shown' : p > reached => p = picture'.pts
            BY <2>2, <3>1, <3>2
        <3> QED
            BY <1>t, <2>1, <3>3 DEF AheadInv
    <2>3. CASE picture' = picture /\ shown' = shown
        BY <1>t, <2>1, <2>3 DEF AheadInv
    <2> QED
        BY <1>11, <2>2, <2>3 DEF Show
<1> QED
    BY <1>1, <1>2, <1>3, <1>4, <1>5, <1>6, <1>7, <1>8, <1>9, <1>10, <1>11
       DEF PlayerNext, Scheduler, Calls, Idles, Viewer

\* The inductive invariant: every packet in one place, or lost to an error of the
\* decoder, and no picture let through before the pts of the sound has reached
\* the pts of the one before.
THEOREM PlayerInvariant == PlayerSpec => []PlayerInv
<1>1. PlayerInit => PlayerInv
    BY InitPlayer
<1>2. PlayerInv /\ [PlayerNext]_playerVars => PlayerInv'
    <2>1. ASSUME PlayerInv, PlayerNext PROVE PlayerInv'
        BY <2>1, StillAccounted, StillAhead DEF PlayerInv
    <2>2. ASSUME PlayerInv, UNCHANGED playerVars PROVE PlayerInv'
        BY <2>2 DEF PlayerInv, PlayerTypes, PacketsAccounted, Holding, AheadInv, Reached,
           playerVars, control, output, video, memory, history
    <2> QED
        BY <2>1, <2>2
<1> QED
    BY <1>1, <1>2, PTL DEF PlayerSpec

\* Every packet given to a decoder is freed, or still in one place, or was lost to
\* an error of the decoder, which is the only way to lose one, whoever closes the
\* file (FFAudio, FFVideo).
THEOREM AllAccounted == PlayerSpec => []PacketsAccounted
<1>1. PlayerInv => PacketsAccounted
    BY DEF PlayerInv
<1> QED
    BY <1>1, PlayerInvariant, PTL

\* The pts of one picture at most is above any that the sound has reached (the
\* thread of FFVideo), in whatever units the two streams count, and also when the
\* next file does not open.
THEOREM NotAhead == PlayerSpec => []PictureNotAhead
<1>1. PlayerInv => PictureNotAhead
    BY DEF PlayerInv, AheadInv, PictureNotAhead
<1> QED
    BY <1>1, PlayerInvariant, PTL

=============================================================================
