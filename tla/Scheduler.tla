------------------------------- MODULE Scheduler -------------------------------
(***************************************************************************)
(* Scheduler on SimpleThread and ThreadQueue: callers add tasks, the       *)
(* thread empties the queue, then repeats on_repeat_ while it is started.  *)
(* DesktopCapture, VideoEncoder, Timer and TcpClient each have one.        *)
(*                                                                         *)
(* wakeUp() notifies a condition variable that nobody may be waiting for   *)
(* yet, and started_ and is_terminated_ are plain flags set by any thread. *)
(* The constructor has returned: the thread has its scheduler and handlers.*)
(***************************************************************************)
EXTENDS Naturals, Sequences

CONSTANTS
    Callers,      \* threads that add tasks
    MaxTasks,     \* bound on the tasks
    MaxCalls,     \* bound on the owner's calls of start() and stop()
    MaxRepeats    \* bound on the repeats counted

ASSUME SchedulerAssumption == {MaxTasks, MaxCalls, MaxRepeats} \subseteq Nat

VARIABLES
    queue,           \* queue_: tasks in the order they were pushed
    added,           \* tasks pushed so far
    caller,          \* per caller: does it come from the push to wakeUp()?
    owner,           \* the thread that owns the scheduler
    calls,
    thread,          \* where on_thread_execute is
    held,            \* the task it has popped
    done,            \* tasks that on_task_ has had
    started,         \* started_
    is_terminated,   \* SimpleThread::is_terminated_
    stopped,         \* history: who said stop last, with no start since
    late             \* history: repeats begun since

vars == <<queue, added, caller, owner, calls, thread, held, done, started,
          is_terminated, stopped, late>>

\* What on_task_ does with a task: start or stop the repeats, or neither.
Kind == {"start", "stop", "work"}
Task == [id : 1 .. MaxTasks, kind : Kind]
None == [id |-> 0, kind |-> "none"]

Init ==
    /\ queue = <<>> /\ added = 0
    /\ caller = [c \in Callers |-> "idle"]
    /\ owner = "idle" /\ calls = 0
    /\ thread = "top" /\ held = None /\ done = <<>>
    /\ started = FALSE /\ is_terminated = FALSE
    /\ stopped = "own" /\ late = 0

-----------------------------------------------------------------------------
(* The threads that call                                                   *)

\* mutant: the task goes before the ones that wait
PushFront(t) == queue' = <<t>> \o queue

Push(t) == queue' = Append(queue, t)

\* add(): the push, then wakeUp().
Add(c) ==
    /\ caller[c] = "idle" /\ added < MaxTasks
    /\ added' = added + 1
    /\ \E kind \in Kind : Push([id |-> added + 1, kind |-> kind])
    /\ caller' = [caller EXCEPT ![c] = "pushed"]
    /\ UNCHANGED <<owner, calls, thread, held, done, started, is_terminated, stopped, late>>

\* notify_all(): only a thread that waits takes notice.
Notify == thread' = IF thread = "asleep" THEN "top" ELSE thread

WakeUp(c) ==
    /\ caller[c] = "pushed"
    /\ Notify
    /\ caller' = [caller EXCEPT ![c] = "idle"]
    /\ UNCHANGED <<queue, added, owner, calls, held, done, started, is_terminated, stopped, late>>

\* start() and stop() from outside.
Start ==
    /\ owner = "idle" /\ calls < MaxCalls
    /\ calls' = calls + 1
    /\ started' = TRUE
    /\ stopped' = "no" /\ late' = 0
    /\ UNCHANGED <<queue, added, caller, owner, thread, held, done, is_terminated>>

\* A stop that follows another brings no new lateness.
StoppedBy(who) ==
    /\ started' = FALSE
    /\ stopped' = IF stopped = "no" THEN who ELSE stopped
    /\ late' = IF stopped = "no" THEN 0 ELSE late

Stop ==
    /\ owner = "idle" /\ calls < MaxCalls
    /\ calls' = calls + 1
    /\ StoppedBy("other")
    /\ UNCHANGED <<queue, added, caller, owner, thread, held, done, is_terminated>>

\* terminateAndWait(): stop(), the flag, wakeUp() and join().
TerminateAndWait ==
    /\ owner = "idle"
    /\ owner' = "flag"
    /\ StoppedBy("other")
    /\ UNCHANGED <<queue, added, caller, calls, thread, held, done, is_terminated>>

SetTerminated ==
    /\ owner = "flag"
    /\ owner' = "wake"
    /\ is_terminated' = TRUE
    /\ UNCHANGED <<queue, added, caller, calls, thread, held, done, started, stopped, late>>

TerminateWakesUp ==
    /\ owner = "wake"
    /\ owner' = "join"
    /\ Notify
    /\ UNCHANGED <<queue, added, caller, calls, held, done, started, is_terminated, stopped, late>>

Join ==
    /\ owner = "join" /\ thread = "ended"
    /\ owner' = "joined"
    /\ UNCHANGED <<queue, added, caller, calls, thread, held, done, started, is_terminated,
                   stopped, late>>

Others ==
    \/ \E c \in Callers : Add(c) \/ WakeUp(c)
    \/ Start \/ Stop \/ TerminateAndWait \/ SetTerminated \/ TerminateWakesUp \/ Join

-----------------------------------------------------------------------------
(* on_thread_execute                                                       *)

Top ==
    /\ thread = "top"
    /\ thread' = IF is_terminated THEN "ended" ELSE "pop"
    /\ UNCHANGED <<queue, added, caller, owner, calls, held, done, started, is_terminated,
                   stopped, late>>

Pop ==
    /\ thread = "pop"
    /\ IF queue = <<>>
       THEN thread' = "choose" /\ UNCHANGED <<queue, held>>
       ELSE thread' = "task" /\ held' = Head(queue) /\ queue' = Tail(queue)
    /\ UNCHANGED <<added, caller, owner, calls, done, started, is_terminated, stopped, late>>

\* on_task_: a handler may start or stop its own scheduler.
RunTask ==
    /\ thread = "task"
    /\ done' = Append(done, held.id) /\ held' = None
    /\ \/ held.kind = "start" /\ started' = TRUE /\ stopped' = "no" /\ late' = 0
       \/ held.kind = "stop" /\ started' = FALSE /\ stopped' = "own" /\ late' = 0
       \/ held.kind = "work" /\ UNCHANGED <<started, stopped, late>>
    /\ thread' = "pop"
    /\ UNCHANGED <<queue, added, caller, owner, calls, is_terminated>>

Choose ==
    /\ thread = "choose"
    /\ thread' = IF started THEN "repeat" ELSE "sleep"
    /\ UNCHANGED <<queue, added, caller, owner, calls, held, done, started, is_terminated,
                   stopped, late>>

\* mutant: repeats until a task comes
RepeatUntilTask ==
    /\ thread = "repeat"
    /\ late' = IF stopped # "no" /\ late < MaxRepeats THEN late + 1 ELSE late
    /\ thread' = IF queue = <<>> THEN "repeat" ELSE "top"
    /\ UNCHANGED <<queue, added, caller, owner, calls, held, done, started, is_terminated, stopped>>

\* on_repeat_, which may sleep before it returns.
Repeat ==
    /\ thread = "repeat"
    /\ late' = IF stopped # "no" /\ late < MaxRepeats THEN late + 1 ELSE late
    /\ thread' \in {"top", "sleep"}
    /\ UNCHANGED <<queue, added, caller, owner, calls, held, done, started, is_terminated, stopped>>

\* sleep(): from here on a notification is noticed.
Sleep ==
    /\ thread = "sleep"
    /\ thread' = "asleep"
    /\ UNCHANGED <<queue, added, caller, owner, calls, held, done, started, is_terminated,
                   stopped, late>>

\* mutant: sleepTight(), which waits for a notification only
NeverTimeout == thread = "timeout" /\ UNCHANGED vars

\* wait_for() ends by itself.
Timeout ==
    /\ thread = "asleep"
    /\ thread' = "top"
    /\ UNCHANGED <<queue, added, caller, owner, calls, held, done, started, is_terminated,
                   stopped, late>>

Thread == Top \/ Pop \/ RunTask \/ Choose \/ Repeat \/ Sleep \/ Timeout

Next == Others \/ Thread

Spec == Init /\ [][Next]_vars

\* The thread runs, and a call that was begun goes on.
FairSpec ==
    /\ Spec
    /\ WF_vars(Thread)
    /\ \A c \in Callers : WF_vars(WakeUp(c))

-----------------------------------------------------------------------------
(* Properties                                                              *)

\* Every task reaches on_task_ once, in the order of the pushes, or waits: none
\* is lost between the callers, nor when the scheduler is stopped or started.
Held == IF held = None THEN <<>> ELSE <<held.id>>
Waiting == [i \in DOMAIN queue |-> queue[i].id]
TasksInOrder == done \o Held \o Waiting = [i \in 1 .. added |-> i]

\* A stop by a task ends the repeats at once.  A stop from another thread may
\* come when on_repeat_ has been decided on: it runs once more, and never twice.
LateRepeatBounded ==
    /\ late <= 1
    /\ stopped = "own" => late = 0

\* After terminateAndWait() has returned no handler runs, so that what they use
\* may be deleted.
QuietAfterJoin == [][owner = "joined" => UNCHANGED <<done, late, thread>>]_vars

\* A task is run although its wakeUp() may be lost, unless the scheduler is
\* terminated before.
TaskRuns == \A n \in 1 .. MaxTasks : added >= n ~> Len(done) >= n \/ is_terminated

=============================================================================
