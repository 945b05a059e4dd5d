----------------------------- MODULE RecordAgent ------------------------------
(***************************************************************************)
(* The recording agent as a program (sr_agent/MainForm.hpp with the        *)
(* control of DesktopRecorder, VideoEncoder and Worker below it).  Its     *)
(* threads share the pointer recorder_ without a lock:                     *)
(*   - the UI thread handles the messages of the main program, and those   *)
(*     on_error_ posts to the window itself, one at a time;                *)
(*   - each recorder has an encoder thread, which runs on_completed_ when  *)
(*     it has drained the recorder after a stop;                           *)
(*   - worker_ stops, joins and deletes the recorders given to it.         *)
(* The main program is the client.  Video and audio are left to            *)
(* DesktopRecorder.tla: here an encoder is recording, draining, or failing *)
(* in one of the ways the constant Faults allows.                          *)
(***************************************************************************)
EXTENDS Naturals, Sequences, FiniteSets

CONSTANTS
    MaxRecorders,   \* bound: recorders created
    MaxPosts,       \* bound: messages the client posts
    MaxErrors,      \* bound: errors reported
    Faults,         \* what may fail: see FaultKind
    Patient         \* does the client wait: see Allowed

FaultKind == {"parse", "open", "write", "timeout", "encode"}

ASSUME AgentAssumption ==
    /\ MaxRecorders \in Nat
    /\ MaxPosts \in Nat
    /\ MaxErrors \in Nat
    /\ Faults \subseteq FaultKind
    /\ Patient \in BOOLEAN

Recorders == 1 .. MaxRecorders
nullptr == 0

VARIABLES
    client,         \* what the client believes of the agent
    asking,         \* the client waits for the answer to START (SendMessage)
    notices,        \* posted to the client, not read yet
    posted,         \* the window's message queue
    posts,          \* counter of the bound MaxPosts
    errors,         \* counter of the bound MaxErrors
    ui,             \* the UI thread: its step and the recorder it read
    recorder,       \* recorder_
    is_terminated,  \* is_terminated_
    ending,         \* "no", "closed", or how the process died
    made,           \* recorders created
    life,           \* per recorder: does the object exist
    state,          \* per recorder: DesktopRecorder.state_
    hooked,         \* per recorder: are the window's callbacks set
    tasks,          \* per recorder: the queue of the encoder's scheduler
    phase,          \* per recorder: the encoder thread
    disposals,      \* worker_'s queue
    worker          \* the recorder worker_ is disposing of

clientside == <<client, asking, posts>>
messages == <<notices, posted, errors>>
window == <<is_terminated, ending>>
objects == <<made, life, state, hooked>>
encoders == <<tasks, phase>>
disposal == <<disposals, worker>>
lower == <<encoders, disposal>>
vars == <<client, asking, notices, posted, posts, errors, ui, recorder,
          is_terminated, ending, made, life, state, hooked, tasks,
          phase, disposals, worker>>

Message == {"STOP", "TERMINATE", "PAUSE", "RESUME", "PING"}
Notice == {"ERROR", "COMPLETED"}
Pointer == Recorders \cup {nullptr}
Call == {"call stop", "call pause", "call resume", "call keepAlive"}
UIStep == Call \cup {"idle", "hook", "stopping", "stopped"}
Phase == {"idle", "recording", "broken", "draining", "saved", "told",
          "unhooked", "given", "forgotten", "done"}

TypeOK ==
    /\ client \in {"idle", "recording", "stopping", "leaving"}
    /\ asking \in {"no", "START"}
    /\ notices \in Seq(Notice)
    /\ posted \in Seq(Message)
    /\ posts \in 0 .. MaxPosts
    /\ errors \in 0 .. MaxErrors
    /\ ui \in [step : UIStep, rec : Pointer]
    /\ recorder \in Pointer
    /\ is_terminated \in BOOLEAN
    /\ ending \in {"no", "closed", "null", "freed"}
    /\ made \in 0 .. MaxRecorders
    /\ life \in [Recorders -> {"none", "live", "deleted"}]
    /\ state \in [Recorders -> {"Started", "Stoped", "Paused"}]
    /\ hooked \in [Recorders -> BOOLEAN]
    /\ tasks \in [Recorders -> Seq({"START", "STOP"})]
    /\ phase \in [Recorders -> Phase]
    /\ disposals \in Seq(Recorders)
    /\ worker \in Pointer

Init ==
    /\ client = "idle"
    /\ asking = "no"
    /\ notices = <<>>
    /\ posted = <<>>
    /\ posts = 0
    /\ errors = 0
    /\ ui = [step |-> "idle", rec |-> nullptr]
    /\ recorder = nullptr
    /\ is_terminated = FALSE
    /\ ending = "no"
    /\ made = 0
    /\ life = [r \in Recorders |-> "none"]
    /\ state = [r \in Recorders |-> "Stoped"]
    /\ hooked = [r \in Recorders |-> FALSE]
    /\ tasks = [r \in Recorders |-> <<>>]
    /\ phase = [r \in Recorders |-> "idle"]
    /\ disposals = <<>>
    /\ worker = nullptr

Running == ending = "no"
UIAt(step) == Running /\ ui.step = step
Await(step, r) == ui' = [step |-> step, rec |-> r]
UIDone == Await("idle", nullptr)
-------------------------------------------------------------------------------
(* The client.  A patient one follows the order of the protocol: START     *)
(* when it knows of no recording, the other messages between the answer to *)
(* START and its STOP or TERMINATE.  After STOP it waits for COMPLETED,    *)
(* after TERMINATE it sends nothing.                                       *)

Allowed(m) ==
    Patient => client = (IF m = "START" THEN "idle" ELSE "recording")

ClientStart ==
    /\ Running
    /\ asking = "no"
    /\ made < MaxRecorders
    /\ Allowed("START")
    /\ asking' = "START"
    /\ UNCHANGED <<client, messages, posts, ui, recorder, window, objects, lower>>

ClientPost(m) ==
    /\ Running
    /\ asking = "no"
    /\ posts < MaxPosts
    /\ Allowed(m)
    /\ posted' = Append(posted, m)
    /\ posts' = posts + 1
    /\ client' = IF m = "STOP" THEN "stopping" ELSE IF m = "TERMINATE" THEN "leaving" ELSE client
    /\ UNCHANGED <<asking, notices, errors, ui, recorder, window, objects, lower>>

ClientRead ==
    /\ Running
    /\ notices # <<>>
    /\ notices' = Tail(notices)
    /\ client' = IF client # "leaving" /\ Head(notices) = "COMPLETED" THEN "idle"
                 ELSE IF client = "recording" THEN "stopping" ELSE client
    /\ UNCHANGED <<asking, posted, posts, errors, ui, recorder, window, objects, lower>>

ClientThread ==
    \/ ClientStart
    \/ \E m \in Message : ClientPost(m)
    \/ ClientRead
-------------------------------------------------------------------------------
(* wm_start                                                                *)

Answer(result) ==
    /\ asking' = "no"
    /\ client' = IF result = "ok" THEN "recording" ELSE client

\* Options that do not parse are an error for the client, and the start goes on.
ParseOptions ==
    \/ UNCHANGED <<notices, errors>>
    \/ /\ "parse" \in Faults
       /\ errors < MaxErrors
       /\ errors' = errors + 1
       /\ notices' = Append(notices, "ERROR")

StartRefused ==
    /\ UIAt("idle")
    /\ asking = "START"
    /\ recorder # nullptr
    /\ Answer("busy")
    /\ UNCHANGED <<messages, posts, ui, recorder, window, objects, lower>>

\* The recorder is created and started: the file is open and its encoder has
\* a START.  No other thread has the recorder yet.
CreateRecorder ==
    /\ UIAt("idle")
    /\ asking = "START"
    /\ made < MaxRecorders
    /\ LET r == made + 1 IN
        /\ made' = r
        /\ recorder' = r
        /\ life' = [life EXCEPT ![r] = "live"]
        /\ state' = [state EXCEPT ![r] = "Started"]
        /\ tasks' = [tasks EXCEPT ![r] = Append(@, "START")]
        /\ Await("hook", r)
    /\ ParseOptions
    /\ UNCHANGED <<clientside, posted, window, hooked, phase, disposal>>

StartRecorder == recorder = nullptr /\ CreateRecorder

\* The audio device or the file does not open: worker_ gets the recorder.
CreateAndGiveAway ==
    /\ UIAt("idle")
    /\ "open" \in Faults
    /\ asking = "START"
    /\ recorder = nullptr
    /\ made < MaxRecorders
    /\ made' = made + 1
    /\ life' = [life EXCEPT ![made + 1] = "live"]
    /\ disposals' = Append(disposals, made + 1)
    /\ ParseOptions
    /\ UNCHANGED <<posted, posts, ui, recorder, window, state, hooked, encoders,
                   worker>>

\* mutant: the result of start() is not returned
StartFailsUnnoticed == CreateAndGiveAway /\ Answer("ok")

StartFails == CreateAndGiveAway /\ Answer("failed")

\* Only now errors and the completion reach the window.
SetCallbacks ==
    /\ UIAt("hook")
    /\ hooked' = [hooked EXCEPT ![recorder] = TRUE]
    /\ Answer("ok")
    /\ UIDone
    /\ UNCHANGED <<messages, posts, recorder, window, made, life, state, lower>>
-------------------------------------------------------------------------------
(* wm_stop, wm_terminate, wm_pause, wm_ping, wm_get_status: the next       *)
(* message is taken, and all but TERMINATE return if recorder_ is null.    *)
(* The call through recorder_ is a step of its own.                        *)

CallOf(m) ==
    IF m \in {"STOP", "TERMINATE"} THEN "call stop"
    ELSE IF m = "PAUSE" THEN "call pause"
    ELSE IF m = "RESUME" THEN "call resume"
    ELSE "call keepAlive"

TakeMessage ==
    /\ UIAt("idle")
    /\ posted # <<>>
    /\ posted' = Tail(posted)
    /\ UNCHANGED <<clientside, notices, errors, recorder, ending, objects, lower>>

HandleMessage ==
    /\ TakeMessage
    /\ Head(posted) # "TERMINATE"
    /\ IF recorder = nullptr THEN UNCHANGED ui ELSE Await(CallOf(Head(posted)), recorder)
    /\ UNCHANGED is_terminated

\* mutant: the flag is not set
HandleTerminateAsStop ==
    /\ TakeMessage
    /\ Head(posted) = "TERMINATE"
    /\ ~is_terminated
    /\ UNCHANGED is_terminated
    /\ Await("call stop", recorder)

HandleTerminate ==
    /\ TakeMessage
    /\ Head(posted) = "TERMINATE"
    /\ is_terminated' = TRUE
    /\ IF is_terminated THEN UNCHANGED ui ELSE Await("call stop", recorder)

\* recorder_ is not volatile: the call uses the value tested, or reads again.
Target == {ui.rec, recorder}
Alive(p) == p # nullptr /\ life[p] = "live"

\* The call is made on a null pointer, and the process dies.
CallOnNull ==
    /\ Running
    /\ ui.step \in Call
    /\ nullptr \in Target
    /\ ending' = "null"
    /\ UNCHANGED <<clientside, messages, ui, recorder, is_terminated, objects, lower>>

\* The call, or the keepAlive() that ends stop(), is made on a recorder that
\* worker_ has deleted: nothing shows, or the process dies.
CallOnFreed ==
    /\ Running
    /\ ui.step \in Call \cup {"stopped"}
    /\ \E p \in Target : p # nullptr /\ life[p] = "deleted"
    /\ ending' \in {"no", "freed"}
    /\ UIDone
    /\ UNCHANGED <<clientside, messages, recorder, is_terminated, objects, lower>>

StopRecorder(p) ==
    /\ UIAt("call stop")
    /\ p \in Target /\ Alive(p)
    /\ state' = [state EXCEPT ![p] = "Stoped"]
    /\ IF state[p] = "Stoped" THEN UIDone ELSE Await("stopping", p)
    /\ UNCHANGED <<clientside, messages, recorder, window, made, life, hooked, lower>>

\* mutant: stop() ends the recording without telling the encoder
StopEncoderForgotten ==
    /\ UIAt("stopping")
    /\ Await("stopped", ui.rec)
    /\ UNCHANGED <<clientside, messages, recorder, window, objects, lower>>

StopEncoder ==
    /\ UIAt("stopping")
    /\ tasks' = [tasks EXCEPT ![ui.rec] = Append(@, "STOP")]
    /\ Await("stopped", ui.rec)
    /\ UNCHANGED <<clientside, messages, recorder, window, objects, phase, disposal>>

\* keepAlive(), alone or at the end of stop().
KeepAlive(p) ==
    /\ \/ UIAt("call keepAlive") /\ p \in Target
       \/ UIAt("stopped") /\ p = ui.rec
    /\ Alive(p)
    /\ UIDone
    /\ UNCHANGED <<clientside, messages, recorder, window, objects, lower>>

\* pause() and resume(): keepAlive() first, then the state is tested.
PauseRecorder(p) ==
    /\ UIAt("call pause")
    /\ p \in Target /\ Alive(p)
    /\ state' = [state EXCEPT ![p] = IF @ = "Started" THEN "Paused" ELSE @]
    /\ UIDone
    /\ UNCHANGED <<clientside, messages, recorder, window, made, life, hooked, lower>>

ResumeRecorder(p) ==
    /\ UIAt("call resume")
    /\ p \in Target /\ Alive(p)
    /\ state' = [state EXCEPT ![p] = IF @ = "Paused" THEN "Started" ELSE @]
    /\ UIDone
    /\ UNCHANGED <<clientside, messages, recorder, window, made, life, hooked, lower>>

UIThread ==
    \/ StartRefused
    \/ StartRecorder
    \/ StartFails
    \/ SetCallbacks
    \/ HandleMessage
    \/ HandleTerminate
    \/ CallOnNull
    \/ CallOnFreed
    \/ StopEncoder
    \/ \E p \in Recorders :
        StopRecorder(p) \/ KeepAlive(p) \/ PauseRecorder(p) \/ ResumeRecorder(p)
-------------------------------------------------------------------------------
(* The encoder thread of recorder r                                        *)

EncoderAt(r, step) == Running /\ phase[r] = step
Enter(r, step) == phase' = [phase EXCEPT ![r] = step]

TakeTask(r, task) ==
    /\ Running
    /\ life[r] = "live"
    /\ tasks[r] # <<>>
    /\ Head(tasks[r]) = task
    /\ tasks' = [tasks EXCEPT ![r] = Tail(@)]

DoStart(r) ==
    /\ EncoderAt(r, "idle")
    /\ TakeTask(r, "START")
    /\ Enter(r, "recording")
    /\ UNCHANGED <<clientside, messages, ui, recorder, window, objects, disposal>>

\* do_stop() with an open file drains it.  Without one it returns at once:
\* on_completed_ is not called.
DoStop(r) ==
    /\ phase[r] \in {"recording", "broken"}
    /\ TakeTask(r, "STOP")
    /\ Enter(r, IF phase[r] = "recording" THEN "draining" ELSE "broken")
    /\ UNCHANGED <<clientside, messages, ui, recorder, window, objects, disposal>>

\* on_error_ posts the code to the client and a message to the window.
ReportError(r, message) ==
    /\ errors < MaxErrors
    /\ errors' = errors + 1
    /\ notices' = IF hooked[r] THEN Append(notices, "ERROR") ELSE notices
    /\ posted' = IF hooked[r] THEN Append(posted, message) ELSE posted

\* A packet could not be written: the encoder goes on.
WriteFails(r) ==
    /\ Running
    /\ "write" \in Faults
    /\ phase[r] \in {"recording", "draining"}
    /\ ReportError(r, "STOP")
    /\ UNCHANGED <<clientside, ui, recorder, window, objects, lower>>

\* No message for too long (check_idle_count): the agent is to terminate.
PingTimeout(r) ==
    /\ Running
    /\ "timeout" \in Faults
    /\ phase[r] \in {"recording", "draining"}
    /\ ReportError(r, "TERMINATE")
    /\ UNCHANGED <<clientside, ui, recorder, window, objects, lower>>

\* An exception in do_repeat(): the file is closed as it is.
EncodingFails(r) ==
    /\ EncoderAt(r, "recording")
    /\ "encode" \in Faults
    /\ Enter(r, "broken")
    /\ ReportError(r, "STOP")
    /\ UNCHANGED <<clientside, ui, recorder, window, objects, tasks, disposal>>

\* The drain is over and the file is closed.
CloseFile(r) ==
    /\ EncoderAt(r, "draining")
    /\ Enter(r, "saved")
    /\ UNCHANGED <<clientside, messages, ui, recorder, window, objects, tasks,
                   disposal>>

SendCompleted(r) ==
    /\ Enter(r, "told")
    /\ notices' = Append(notices, "COMPLETED")
    /\ UNCHANGED <<clientside, posted, errors, ui, recorder, window, objects, tasks,
                   disposal>>

\* mutant: COMPLETED is sent when the drain begins
PostCompletedEarly(r) ==
    /\ EncoderAt(r, "draining") \/ EncoderAt(r, "saved")
    /\ SendCompleted(r)

\* on_completed_.  The label is set first, which waits for the UI thread only
\* when the text changes.
PostCompleted(r) == EncoderAt(r, "saved") /\ SendCompleted(r)

\* mutant: the callbacks stay set
LeaveCallbacks(r) ==
    /\ EncoderAt(r, "told")
    /\ Enter(r, "unhooked")
    /\ UNCHANGED <<clientside, messages, ui, recorder, window, objects, tasks,
                   disposal>>

ClearCallbacks(r) ==
    /\ EncoderAt(r, "told")
    /\ Enter(r, "unhooked")
    /\ hooked' = [hooked EXCEPT ![recorder] = FALSE]
    /\ UNCHANGED <<clientside, messages, ui, recorder, window, made, life, state, tasks,
                   disposal>>

GiveToWorker(r) ==
    /\ EncoderAt(r, "unhooked")
    /\ Enter(r, "given")
    /\ disposals' = Append(disposals, recorder)
    /\ UNCHANGED <<clientside, messages, ui, recorder, window, objects, tasks, worker>>

ForgetRecorder(r) ==
    /\ EncoderAt(r, "given")
    /\ Enter(r, "forgotten")
    /\ recorder' = nullptr
    /\ UNCHANGED <<clientside, messages, ui, window, objects, tasks, disposal>>

CloseIfTerminated(r) ==
    /\ EncoderAt(r, "forgotten")
    /\ Enter(r, "done")
    /\ ending' = IF is_terminated THEN "closed" ELSE ending
    /\ UNCHANGED <<clientside, messages, ui, recorder, is_terminated, objects, tasks,
                   disposal>>

EncoderWorks(r) ==
    \/ DoStart(r)
    \/ DoStop(r)
    \/ CloseFile(r)
    \/ PostCompleted(r)
    \/ ClearCallbacks(r)
    \/ GiveToWorker(r)
    \/ ForgetRecorder(r)
    \/ CloseIfTerminated(r)

EncoderFails(r) == WriteFails(r) \/ PingTimeout(r) \/ EncodingFails(r)
-------------------------------------------------------------------------------
(* worker_                                                                 *)

\* mutant: the task is popped and not handled
DropRecorder ==
    /\ Running
    /\ worker = nullptr
    /\ disposals # <<>>
    /\ disposals' = Tail(disposals)
    /\ UNCHANGED <<clientside, messages, ui, recorder, window, objects, encoders,
                   worker>>

TakeRecorder ==
    /\ Running
    /\ worker = nullptr
    /\ disposals # <<>>
    /\ worker' = Head(disposals)
    /\ disposals' = Tail(disposals)
    /\ UNCHANGED <<clientside, messages, ui, recorder, window, objects, encoders>>

FreeRecorder ==
    /\ Running
    /\ worker # nullptr
    /\ life' = [life EXCEPT ![worker] = "deleted"]
    /\ worker' = nullptr
    /\ UNCHANGED <<clientside, messages, ui, recorder, window, made, state, hooked,
                   encoders, disposals>>

\* mutant: the encoder thread is not joined
DeleteWithoutJoin == FreeRecorder

\* terminateAndWait() joins the encoder thread, which must be out of its task.
Joinable(r) == phase[r] \in {"idle", "recording", "broken", "done"}

\* stop() before it finds the recorder stopped.
DeleteRecorder ==
    /\ worker # nullptr
    /\ Joinable(worker)
    /\ FreeRecorder

WorkerThread == TakeRecorder \/ DeleteRecorder
-------------------------------------------------------------------------------
Next ==
    \/ ClientThread
    \/ UIThread
    \/ \E r \in Recorders : EncoderWorks(r) \/ EncoderFails(r)
    \/ WorkerThread

Spec == Init /\ [][Next]_vars

\* The threads are scheduled and the window's messages are pumped; the client
\* owes nothing, and nothing has to fail.
FairSpec ==
    /\ Spec
    /\ WF_vars(UIThread)
    /\ WF_vars(WorkerThread)
    /\ \A r \in Recorders : WF_vars(EncoderWorks(r))
-------------------------------------------------------------------------------
(* Properties                                                              *)

FileOpen(r) == phase[r] \in {"recording", "draining"} \/ "START" \in {tasks[r][i] : i \in DOMAIN tasks[r]}

\* recorder_ points to a recorder that exists, at every step of every thread:
\* on_completed_ gives it to worker_ before it sets recorder_ to null, and only
\* the join keeps worker_ from deleting it in between.
RecorderExists == recorder # nullptr => life[recorder] = "live"

\* A recorder is deleted when its encoder thread has left on_completed_, or
\* never recorded: it has no task, no callback to the window, and stop() was over.
DeletedAtRest ==
    \A r \in Recorders :
        life[r] = "deleted" =>
            /\ phase[r] \in {"idle", "done"}
            /\ tasks[r] = <<>>
            /\ state[r] = "Stoped"
            /\ ~hooked[r]

\* Two files are never open: wm_start refuses while recorder_ is set, and it is
\* cleared only after the file is closed.
OneFile == \A q, r \in Recorders : FileOpen(q) /\ FileOpen(r) => q = r

\* The program is not ended before the buffers are empty
\* (doc/non-functional/README.md:19).  With a second recording under way the
\* code does not keep to it: the encoder thread of the first may read
\* is_terminated_ after the TERMINATE meant for the second.
ClosedWhenDrained == ending = "closed" => \A r \in Recorders : ~FileOpen(r)

\* A client that keeps to the protocol makes the agent call through a null
\* pointer only after an error stopped the recording behind its back.
NullOnlyAfterError == Patient /\ ending = "null" => errors > 0

Ended == ending # "no"
Stopped(r) == r <= made /\ state[r] = "Stoped" /\ hooked[r]

\* A recording that is stopped completes: recorder_ is free for the next.
StopCompletes ==
    \A r \in Recorders : Stopped(r) ~> recorder # r \/ Ended

\* TERMINATE ends the agent (protocol README:275), also when a stop is already
\* under way or the flag is seen late.
TerminateCloses == (\E i \in DOMAIN posted : posted[i] = "TERMINATE") ~> Ended

\* Every recorder given to worker_ is deleted, unless the agent ends.
RecorderReclaimed ==
    \A r \in Recorders :
        worker = r \/ r \in {disposals[i] : i \in DOMAIN disposals}
            ~> life[r] = "deleted" \/ Ended

===============================================================================
