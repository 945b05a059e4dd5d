--------------------------- MODULE RecordAgentProofs ---------------------------
(***************************************************************************)
(* Theorems about RecordAgent, for any number of recorders, messages and   *)
(* errors, whatever fails, and whether the client is patient or not.       *)
(*                                                                         *)
(* The invariant says of every recorder which thread may have it: it is    *)
(* recorder_ from its start until on_completed_ has handed it to worker_,  *)
(* and what is left when it is no longer recorder_ is at rest.             *)
(***************************************************************************)
EXTENDS MCRecordAgent, SequenceTheorems, TLAPS

\* Phases in which the STOP has been taken.
Late == {"draining", "saved", "told", "unhooked", "given", "forgotten", "done"}

\* worker_ has r, or will have it.
Given(r) == worker = r \/ \E i \in DOMAIN disposals : disposals[i] = r

\* A recorder that recorder_ does not point to is at rest.
AtRest(r) ==
    recorder # r =>
        /\ phase[r] \in {"idle", "forgotten", "done"}
        /\ tasks[r] = <<>> /\ state[r] = "Stoped" /\ ~hooked[r]

\* The one it points to exists; worker_ may have it at the last step only.
Current(r) ==
    recorder = r =>
        /\ r <= made /\ life[r] = "live"
        /\ phase[r] \notin {"forgotten", "done"}
        /\ Given(r) => phase[r] = "given"

\* Its encoder has a START until it records, and at most one STOP.
Tasks(r) ==
    /\ recorder = r /\ phase[r] = "idle" => tasks[r] \in {<<"START">>, <<"START", "STOP">>}
    /\ phase[r] \in {"recording", "broken"} => tasks[r] \in {<<>>, <<"STOP">>}
    /\ phase[r] \in Late => tasks[r] = <<>>

\* A STOP comes after the state was changed, and nobody adds another.
StoppedOnce(r) ==
    tasks[r] \in {<<"STOP">>, <<"START", "STOP">>} \/ phase[r] \in Late =>
        /\ state[r] = "Stoped"
        /\ ~(ui.step = "stopping" /\ ui.rec = r)

Unhooked(r) == phase[r] \in {"unhooked", "given", "forgotten", "done"} => ~hooked[r]

Deleted(r) == life[r] = "deleted" => phase[r] \in {"idle", "done"} /\ recorder # r

NotMade(r) ==
    r > made => life[r] = "none" /\ phase[r] = "idle" /\ ~Given(r) /\ recorder # r

RecorderInv(r) ==
    /\ AtRest(r) /\ Current(r) /\ Tasks(r) /\ StoppedOnce(r)
    /\ Unhooked(r) /\ Deleted(r) /\ NotMade(r)

\* The UI thread is in wm_start(), or between stop()'s two steps, only with
\* the recorder that recorder_ points to.
UIInv ==
    /\ ui.step \in {"hook", "stopping"} => ui.rec = recorder /\ recorder \in Recorders
    /\ ui.step = "hook" => state[recorder] = "Started"
    /\ ui.step = "stopping" => state[recorder] = "Stoped"

AgentInv == TypeOK /\ UIInv /\ \A r \in Recorders : RecorderInv(r)
-------------------------------------------------------------------------------
(* Sequences                                                               *)

LEMMA TailFacts ==
    ASSUME NEW S, NEW s \in Seq(S), s # <<>>
    PROVE  /\ Tail(s) \in Seq(S) /\ Head(s) \in S /\ Head(s) = s[1]
           /\ \A i \in DOMAIN Tail(s) : i + 1 \in DOMAIN s /\ Tail(s)[i] = s[i + 1]
           /\ 1 \in DOMAIN s
OBVIOUS

LEMMA AppendFacts ==
    ASSUME NEW S, NEW s \in Seq(S), NEW e \in S
    PROVE  /\ Append(s, e) \in Seq(S)
           /\ \A i \in DOMAIN Append(s, e) :
                  Append(s, e)[i] = e \/ (i \in DOMAIN s /\ Append(s, e)[i] = s[i])
BY AppendProperties, LenProperties

LEMMA AppendToOne ==
    ASSUME NEW S, NEW s \in Seq(S), NEW e \in S, Len(s) = 1
    PROVE  Append(s, e) = <<s[1], e>>
<1>1. s[1] \in S
    BY ElementOfSeq
<1>2. Append(s, e) \in Seq(S)
    BY AppendProperties
<1>7. Len(Append(s, e)) = Len(s) + 1
    BY AppendProperties
<1>3. Append(s, e)[1] = s[1]
    BY AppendProperties
<1>4. Append(s, e)[2] = e
    BY AppendProperties
<1>5. <<s[1], e>> \in Seq(S) /\ Len(<<s[1], e>>) = 2
    BY <1>1
<1>6. \A i \in 1 .. 2 : Append(s, e)[i] = <<s[1], e>>[i]
    <2> SUFFICES ASSUME NEW i \in 1 .. 2 PROVE Append(s, e)[i] = <<s[1], e>>[i]
        OBVIOUS
    <2>1. <<s[1], e>>[1] = s[1] /\ <<s[1], e>>[2] = e
        OBVIOUS
    <2>2. i = 1 \/ i = 2
        OBVIOUS
    <2> QED
        BY <2>1, <2>2, <1>3, <1>4
<1>8. \A i \in 1 .. Len(Append(s, e)) : Append(s, e)[i] = <<s[1], e>>[i]
    BY <1>6, <1>7
<1>9. Len(Append(s, e)) = Len(<<s[1], e>>)
    BY <1>5, <1>7
<1> QED
    BY <1>2, <1>5, <1>8, <1>9, SeqEqual, ZenonT(30)

\* The queues of tasks that occur.
LEMMA TaskFacts ==
    /\ Append(<<>>, "START") = <<"START">>
    /\ Append(<<>>, "STOP") = <<"STOP">>
    /\ Append(<<"START">>, "STOP") = <<"START", "STOP">>
    /\ Head(<<"START">>) = "START" /\ Head(<<"STOP">>) = "STOP" /\ Head(<<"START", "STOP">>) = "START"
    /\ Tail(<<"START">>) = <<>> /\ Tail(<<"STOP">>) = <<>> /\ Tail(<<"START", "STOP">>) = <<"STOP">>
    /\ <<"START">> # <<>> /\ <<"STOP">> # <<>> /\ <<"START", "STOP">> # <<>>
    /\ <<"START">> # <<"STOP">> /\ <<"START", "STOP">> # <<"STOP">> /\ <<"START", "STOP">> # <<"START">>
<1>1. Append(<<>>, "START") = <<"START">> /\ Append(<<>>, "STOP") = <<"STOP">>
    OBVIOUS
<1>2. Append(<<"START">>, "STOP") = <<"START", "STOP">>
    <2>1. <<"START">> \in Seq({"START", "STOP"}) /\ Len(<<"START">>) = 1 /\ <<"START">>[1] = "START"
        OBVIOUS
    <2> QED
        BY <2>1, AppendToOne
<1>3. Head(<<"START">>) = "START" /\ Head(<<"STOP">>) = "STOP" /\ Head(<<"START", "STOP">>) = "START"
    OBVIOUS
<1>4. Tail(<<"START">>) = <<>> /\ Tail(<<"STOP">>) = <<>>
    OBVIOUS
<1>5. Tail(<<"START", "STOP">>) = <<"STOP">>
    OBVIOUS
<1>6. <<"START">> # <<>> /\ <<"STOP">> # <<>> /\ <<"START", "STOP">> # <<>>
    OBVIOUS
<1>7. <<"START">> # <<"STOP">> /\ <<"START", "STOP">> # <<"STOP">> /\ <<"START", "STOP">> # <<"START">>
    OBVIOUS
<1> QED
    BY <1>1, <1>2, <1>3, <1>4, <1>5, <1>6, <1>7
-------------------------------------------------------------------------------
(* The invariant                                                           *)

LEMMA InitInv == Init => AgentInv
<1> SUFFICES ASSUME Init PROVE AgentInv
    OBVIOUS
<1>1. TypeOK
    <2>1. <<>> \in Seq(Notice) /\ <<>> \in Seq(Message) /\ <<>> \in Seq(Recorders) /\ <<>> \in Seq({"START", "STOP"})
        BY EmptySeq
    <2>2. posts \in 0 .. MaxPosts /\ errors \in 0 .. MaxErrors /\ made \in 0 .. MaxRecorders
        BY AgentAssumption DEF Init
    <2>6. /\ client \in {"idle", "recording", "stopping", "leaving"} /\ asking \in {"no", "START"}
          /\ is_terminated \in BOOLEAN /\ ending \in {"no", "closed", "null", "freed"}
        BY DEF Init
    <2>3. /\ ui \in [step : UIStep, rec : Pointer]
          /\ recorder \in Pointer /\ worker \in Pointer
        BY DEF Init, Pointer, nullptr, UIStep, Call
    <2>4. /\ life \in [Recorders -> {"none", "live", "deleted"}]
          /\ state \in [Recorders -> {"Started", "Stoped", "Paused"}]
          /\ hooked \in [Recorders -> BOOLEAN]
          /\ phase \in [Recorders -> Phase]
        BY DEF Init, Phase
    <2>5. tasks \in [Recorders -> Seq({"START", "STOP"})]
        BY <2>1 DEF Init
    <2> QED
        BY <2>1, <2>2, <2>3, <2>4, <2>5, <2>6 DEF Init, TypeOK
<1>2. UIInv
    BY DEF Init, UIInv
<1>3. ASSUME NEW r \in Recorders PROVE RecorderInv(r)
    <2>1. r # nullptr /\ ~Given(r) /\ tasks[r] = <<>> /\ tasks[r] \notin {<<"STOP">>, <<"START", "STOP">>}
        BY TaskFacts, AgentAssumption DEF Init, Given, Recorders, nullptr
    <2> QED
        BY <2>1 DEF Init, RecorderInv, AtRest, Current, Tasks, StoppedOnce, Late, Unhooked, Deleted,
                    NotMade
<1> QED
    BY <1>1, <1>2, <1>3 DEF AgentInv

\* What the threads of the recorders leave alone.
Untouched == <<recorder, ui, made, life, state, hooked, tasks, phase, disposals, worker>>

LEMMA UntouchedInv ==
    ASSUME AgentInv, UNCHANGED Untouched
    PROVE  UIInv' /\ \A r \in Recorders : RecorderInv(r)'
BY DEF AgentInv, Untouched, UIInv, RecorderInv, AtRest, Current, Tasks, StoppedOnce, Unhooked,
       Deleted, NotMade, Given

LEMMA ClientStep == AgentInv /\ ClientThread => AgentInv'
<1> SUFFICES ASSUME AgentInv, ClientThread PROVE AgentInv'
    OBVIOUS
<1>1. UNCHANGED Untouched
    BY DEF ClientThread, ClientStart, ClientPost, ClientRead, Untouched, objects, lower, encoders,
           disposal
<1>2. TypeOK'
    <2> USE DEF AgentInv, TypeOK, clientside, messages, window, objects, lower, encoders, disposal
    <2>1. CASE ClientStart
        BY <2>1 DEF ClientStart
    <2>2. ASSUME NEW m \in Message, ClientPost(m) PROVE TypeOK'
        <3>1. Append(posted, m) \in Seq(Message)
            BY AppendFacts
        <3> QED
            BY <2>2, <3>1, AgentAssumption DEF ClientPost
    <2>3. CASE ClientRead
        <3>1. Tail(notices) \in Seq(Notice)
            BY <2>3, TailFacts DEF ClientRead
        <3> QED
            BY <2>3, <3>1 DEF ClientRead
    <2> QED
        BY <2>1, <2>2, <2>3 DEF ClientThread
<1> QED
    BY <1>1, <1>2, UntouchedInv DEF AgentInv
-------------------------------------------------------------------------------
(* The steps of the UI thread                                              *)

LEMMA UITypes == AgentInv /\ UIThread => TypeOK'
<1> SUFFICES ASSUME AgentInv, UIThread PROVE TypeOK'
    OBVIOUS
<1> USE DEF AgentInv, TypeOK, clientside, messages, window, objects, lower, encoders, disposal,
            Await, UIDone
<1>t. /\ Call \subseteq UIStep /\ {"idle", "hook", "stopping", "stopped"} \subseteq UIStep
      /\ nullptr \in Pointer /\ Recorders \subseteq Pointer
    BY DEF UIStep, Call, Pointer
<1>n. ASSUME ParseOptions
      PROVE  notices' \in Seq(Notice) /\ errors' \in 0 .. MaxErrors
    <2>1. Append(notices, "ERROR") \in Seq(Notice)
        BY AppendFacts DEF Notice
    <2>2. CASE UNCHANGED <<notices, errors>>
        BY <2>2
    <2>3. CASE errors < MaxErrors /\ errors' = errors + 1 /\ notices' = Append(notices, "ERROR")
        BY <2>1, <2>3, AgentAssumption
    <2> QED
        BY <1>n, <2>2, <2>3 DEF ParseOptions
<1>m. ASSUME TakeMessage
      PROVE  posted' \in Seq(Message)
    BY <1>m, TailFacts DEF TakeMessage
<1>1. CASE StartRefused
    BY <1>1 DEF StartRefused, Answer
<1>2. CASE StartRecorder
    <2>1. made < MaxRecorders /\ made + 1 \in Recorders /\ made + 1 \in 0 .. MaxRecorders
        BY <1>2, AgentAssumption DEF StartRecorder, CreateRecorder, Recorders
    <2>2. Append(tasks[made + 1], "START") \in Seq({"START", "STOP"})
        BY <2>1, AppendFacts
    <2>3. tasks' \in [Recorders -> Seq({"START", "STOP"})]
        BY <1>2, <2>1, <2>2 DEF StartRecorder, CreateRecorder
    <2>4. life' \in [Recorders -> {"none", "live", "deleted"}] /\ state' \in [Recorders -> {"Started", "Stoped", "Paused"}]
        BY <1>2, <2>1 DEF StartRecorder, CreateRecorder
    <2>5. ui' \in [step : UIStep, rec : Pointer] /\ recorder' \in Pointer /\ made' \in 0 .. MaxRecorders
        BY <1>2, <1>t, <2>1 DEF StartRecorder, CreateRecorder
    <2> QED
        BY <1>2, <1>n, <2>3, <2>4, <2>5 DEF StartRecorder, CreateRecorder
<1>3. CASE StartFails
    <2>1. made < MaxRecorders /\ made + 1 \in Recorders /\ made + 1 \in 0 .. MaxRecorders
        BY <1>3, AgentAssumption DEF StartFails, CreateAndGiveAway, Recorders
    <2>2. Append(disposals, made + 1) \in Seq(Recorders)
        BY <2>1, AppendFacts
    <2>3. life' \in [Recorders -> {"none", "live", "deleted"}]
        BY <1>3, <2>1 DEF StartFails, CreateAndGiveAway
    <2> QED
        BY <1>3, <1>n, <2>1, <2>2, <2>3 DEF StartFails, CreateAndGiveAway, Answer
<1>4. CASE SetCallbacks
    BY <1>4, <1>t DEF SetCallbacks, Answer
<1>5. CASE HandleMessage
    <2>1. ASSUME NEW m PROVE CallOf(m) \in UIStep
        BY <1>t DEF CallOf, Call
    <2> QED
        BY <1>5, <1>m, <2>1 DEF HandleMessage, TakeMessage
<1>6. CASE HandleTerminate
    <2>1. ui' = ui \/ ui' = [step |-> "call stop", rec |-> recorder]
        BY <1>6 DEF HandleTerminate
    <2>2. [step |-> "call stop", rec |-> recorder] \in [step : UIStep, rec : Pointer]
        BY <1>t DEF Call
    <2>3. ui' \in [step : UIStep, rec : Pointer]
        BY <2>1, <2>2
    <2>4. is_terminated' \in BOOLEAN
        BY <1>6 DEF HandleTerminate
    <2> QED
        BY <1>6, <1>m, <2>3, <2>4 DEF HandleTerminate, TakeMessage
<1>7. CASE CallOnNull
    BY <1>7 DEF CallOnNull
<1>8. CASE CallOnFreed
    BY <1>8, <1>t DEF CallOnFreed
<1>9. CASE StopEncoder
    <2>1. ui.rec \in Recorders
        BY <1>9 DEF StopEncoder, UIAt, UIInv
    <2>2. Append(tasks[ui.rec], "STOP") \in Seq({"START", "STOP"})
        BY <2>1, AppendFacts
    <2> QED
        BY <1>9, <1>t, <2>1, <2>2 DEF StopEncoder
<1>10. ASSUME NEW p \in Recorders, StopRecorder(p)
       PROVE  TypeOK'
    <2>1. ui' = [step |-> "idle", rec |-> nullptr] \/ ui' = [step |-> "stopping", rec |-> p]
        BY <1>10 DEF StopRecorder
    <2>2. ui' \in [step : UIStep, rec : Pointer]
        BY <1>t, <2>1
    <2> QED
        BY <1>10, <2>2 DEF StopRecorder
<1>11. ASSUME NEW p \in Recorders, KeepAlive(p)
       PROVE  TypeOK'
    BY <1>11, <1>t DEF KeepAlive
<1>12. ASSUME NEW p \in Recorders, PauseRecorder(p)
       PROVE  TypeOK'
    BY <1>12, <1>t DEF PauseRecorder
<1>13. ASSUME NEW p \in Recorders, ResumeRecorder(p)
       PROVE  TypeOK'
    BY <1>13, <1>t DEF ResumeRecorder
<1> QED
    BY <1>1, <1>2, <1>3, <1>4, <1>5, <1>6, <1>7, <1>8, <1>9, <1>10, <1>11, <1>12, <1>13 DEF UIThread

LEMMA UIRecorders ==
    AgentInv /\ UIThread => UIInv' /\ \A r \in Recorders : RecorderInv(r)'
<1> SUFFICES ASSUME AgentInv, UIThread PROVE UIInv' /\ \A r \in Recorders : RecorderInv(r)'
    OBVIOUS
<1> DEFINE Goal == UIInv' /\ \A r \in Recorders : RecorderInv(r)'
<1> USE DEF AgentInv, TypeOK, clientside, messages, window, objects, lower, encoders, disposal,
            Await, UIDone, UIAt
<1>i. ASSUME NEW r \in Recorders PROVE RecorderInv(r) /\ r # nullptr /\ r \in Nat
    BY AgentAssumption DEF Recorders, nullptr
<1>1. CASE StartRefused
    BY <1>1, UntouchedInv DEF StartRefused, Untouched
<1>2. CASE StartRecorder
    <2> PICK n \in Recorders : n = made + 1
        BY <1>2, AgentAssumption DEF StartRecorder, CreateRecorder, Recorders
    <2>1. made \in Nat /\ recorder = nullptr /\ recorder' = n /\ made' = n /\ n > made
        BY <1>2, AgentAssumption DEF StartRecorder, CreateRecorder, Recorders
    <2>2. /\ life[n] = "none" /\ phase[n] = "idle" /\ ~Given(n)
          /\ tasks[n] = <<>> /\ ~hooked[n]
        BY <2>1, <1>i DEF RecorderInv, NotMade, AtRest
    <2>3. /\ ui' = [step |-> "hook", rec |-> n] /\ UNCHANGED <<hooked, phase, disposals, worker>>
          /\ life' = [life EXCEPT ![n] = "live"] /\ state' = [state EXCEPT ![n] = "Started"]
          /\ tasks' = [tasks EXCEPT ![n] = Append(@, "START")]
        BY <1>2 DEF StartRecorder, CreateRecorder
    <2>4. tasks'[n] = <<"START">>
        BY <2>1, <2>2, <2>3, TaskFacts
    <2>5. UIInv'
        BY <2>1, <2>3 DEF UIInv
    <2>6. RecorderInv(n)'
        <3>1. life'[n] = "live" /\ phase'[n] = "idle" /\ ~Given(n)' /\ ~hooked'[n] /\ n <= made' /\ ~(n > made')
            BY <2>1, <2>2, <2>3 DEF Given
        <3>2. tasks'[n] \notin {<<"STOP">>, <<"START", "STOP">>}
            BY <2>4, TaskFacts
        <3> QED
            BY <2>1, <2>4, <3>1, <3>2
               DEF RecorderInv, AtRest, Current, Tasks, StoppedOnce, Unhooked, Deleted, NotMade, Late
    <2>7. ASSUME NEW q \in Recorders, q # n PROVE RecorderInv(q)'
        <3>1. tasks'[q] = tasks[q] /\ life'[q] = life[q] /\ state'[q] = state[q] /\ (q > made' => q > made)
            BY <2>1, <2>3, <2>7, <1>i
        <3>2. tasks[q] = <<>> /\ phase[q] \in {"idle", "forgotten", "done"} /\ state[q] = "Stoped" /\ ~hooked[q]
            BY <2>1, <1>i DEF RecorderInv, AtRest
        <3> QED
            BY <2>1, <2>3, <2>7, <3>1, <3>2, <1>i, TaskFacts
               DEF RecorderInv, AtRest, Current, Tasks, StoppedOnce, Unhooked, Deleted, NotMade, Given
    <2> QED
        BY <2>5, <2>6, <2>7
<1>3. CASE StartFails
    <2> PICK n \in Recorders : n = made + 1
        BY <1>3, AgentAssumption DEF StartFails, CreateAndGiveAway, Recorders
    <2>1. made \in Nat /\ recorder = nullptr /\ made' = n
        BY <1>3, AgentAssumption DEF StartFails, CreateAndGiveAway, Recorders
    <2>3. /\ UNCHANGED <<recorder, ui, state, hooked, tasks, phase, worker>>
          /\ life' = [life EXCEPT ![n] = "live"] /\ disposals' = Append(disposals, n)
        BY <1>3 DEF StartFails, CreateAndGiveAway
    <2>4. UIInv'
        BY <2>1, <2>3, <1>i DEF UIInv
    <2>5. ASSUME NEW q \in Recorders PROVE RecorderInv(q)'
        <3>1. Given(q)' => Given(q) \/ q = n
            BY <2>1, <2>3, AppendFacts DEF Given
        <3>2. life'[q] # "live" => life'[q] = life[q] /\ q # n
            BY <2>1, <2>3
        <3>3. q > made' => q > made /\ q # n /\ life'[q] = life[q]
            BY <2>1, <2>3, <1>i
        <3> QED
            BY <2>1, <2>3, <3>1, <3>2, <3>3, <1>i
               DEF RecorderInv, AtRest, Current, Tasks, StoppedOnce, Unhooked, Deleted, NotMade
    <2> QED
        BY <2>4, <2>5
<1>4. CASE SetCallbacks
    <2>1. /\ recorder \in Recorders /\ ui.step = "hook" /\ state[recorder] = "Started"
          /\ ui' = [step |-> "idle", rec |-> nullptr]
          /\ hooked' = [hooked EXCEPT ![recorder] = TRUE]
          /\ UNCHANGED <<recorder, made, life, state, tasks, phase, disposals, worker>>
        BY <1>4 DEF SetCallbacks, UIInv
    <2>2. phase[recorder] \notin Late
        BY <2>1, <1>i DEF RecorderInv, StoppedOnce
    <2>3. ASSUME NEW q \in Recorders PROVE RecorderInv(q)'
        BY <2>1, <2>2, <1>i
           DEF RecorderInv, AtRest, Current, Tasks, StoppedOnce, Unhooked, Deleted, NotMade, Given, Late
    <2> QED
        BY <2>1, <2>3 DEF UIInv
<1>c. ASSUME ui'.step \notin {"hook", "stopping"},
             UNCHANGED <<recorder, made, life, state, hooked, tasks, phase, disposals, worker>>
      PROVE  Goal
    BY <1>c, <1>i DEF UIInv, RecorderInv, AtRest, Current, Tasks, StoppedOnce, Unhooked, Deleted,
                      NotMade, Given
<1>5. CASE HandleMessage
    <2>1. ASSUME NEW m PROVE CallOf(m) \notin {"hook", "stopping"}
        BY DEF CallOf
    <2> QED
        BY <1>5, <1>c, <2>1 DEF HandleMessage, TakeMessage
<1>6. CASE HandleTerminate
    <2>1. ui.step = "idle" /\ (ui' = ui \/ ui' = [step |-> "call stop", rec |-> recorder])
        BY <1>6 DEF HandleTerminate, TakeMessage
    <2>2. ui'.step \notin {"hook", "stopping"}
        <3>1. CASE ui' = ui
            BY <2>1, <3>1
        <3>2. CASE ui' = [step |-> "call stop", rec |-> recorder]
            BY <3>2
        <3> QED
            BY <2>1, <3>1, <3>2
    <2>3. UNCHANGED <<recorder, made, life, state, hooked, tasks, phase, disposals, worker>>
        BY <1>6 DEF HandleTerminate, TakeMessage
    <2> QED
        BY <1>c, <2>2, <2>3
<1>7. CASE CallOnNull
    BY <1>7, UntouchedInv DEF CallOnNull, Untouched
<1>8. CASE CallOnFreed
    BY <1>8, <1>c DEF CallOnFreed
<1>9. CASE StopEncoder
    <2> PICK r \in Recorders : r = ui.rec
        BY <1>9 DEF StopEncoder, UIInv
    <2>1. /\ r = recorder /\ state[r] = "Stoped" /\ ui.step = "stopping"
          /\ ui'.step = "stopped" /\ tasks' = [tasks EXCEPT ![r] = Append(@, "STOP")]
          /\ UNCHANGED <<recorder, made, life, state, hooked, phase, disposals, worker>>
        BY <1>9 DEF StopEncoder, UIInv
    <2>2. phase[r] \notin Late /\ tasks[r] \notin {<<"STOP">>, <<"START", "STOP">>}
        BY <2>1, <1>i DEF RecorderInv, StoppedOnce
    <2>3. \/ phase[r] = "idle" /\ tasks[r] = <<"START">>
          \/ phase[r] \in {"recording", "broken"} /\ tasks[r] = <<>>
        BY <2>1, <2>2, <1>i DEF RecorderInv, Tasks, Late, Phase
    <2>4. \/ phase[r] = "idle" /\ tasks'[r] = <<"START", "STOP">>
          \/ phase[r] \in {"recording", "broken"} /\ tasks'[r] = <<"STOP">>
        BY <2>1, <2>3, TaskFacts
    <2>5. RecorderInv(r)'
        BY <2>1, <2>2, <2>4, <1>i, TaskFacts
           DEF RecorderInv, AtRest, Current, Tasks, StoppedOnce, Unhooked, Deleted, NotMade, Given
    <2>6. ASSUME NEW q \in Recorders, q # r PROVE RecorderInv(q)'
        BY <2>1, <2>6, <1>i
           DEF RecorderInv, AtRest, Current, Tasks, StoppedOnce, Unhooked, Deleted, NotMade, Given
    <2> QED
        BY <2>1, <2>5, <2>6 DEF UIInv
<1>10. ASSUME NEW p \in Recorders, StopRecorder(p)
       PROVE  Goal
    <2>1. /\ state' = [state EXCEPT ![p] = "Stoped"]
          /\ IF state[p] = "Stoped" THEN ui'.step = "idle" ELSE ui' = [step |-> "stopping", rec |-> p]
          /\ UNCHANGED <<recorder, made, life, hooked, tasks, phase, disposals, worker>>
        <3>1. IF state[p] = "Stoped" THEN UIDone ELSE Await("stopping", p)
            BY <1>10 DEF StopRecorder
        <3>2. IF state[p] = "Stoped" THEN ui'.step = "idle" ELSE ui' = [step |-> "stopping", rec |-> p]
            BY <3>1
        <3> QED
            BY <1>10, <3>2 DEF StopRecorder
    <2>2. CASE state[p] = "Stoped"
        BY <2>1, <2>2, <1>c
    <2>3. CASE state[p] # "Stoped"
        <3>1. recorder = p
            BY <2>3, <1>i DEF RecorderInv, AtRest
        <3>2. tasks[p] \notin {<<"STOP">>, <<"START", "STOP">>} /\ phase[p] \notin Late
            BY <2>3, <1>i DEF RecorderInv, StoppedOnce
        <3>3. ASSUME NEW q \in Recorders PROVE RecorderInv(q)'
            BY <2>1, <2>3, <3>1, <3>2, <1>i
               DEF RecorderInv, AtRest, Current, Tasks, StoppedOnce, Unhooked, Deleted, NotMade, Given
        <3> QED
            BY <2>1, <2>3, <3>1, <3>3 DEF UIInv
    <2> QED
        BY <2>2, <2>3
<1>11. ASSUME NEW p \in Recorders, KeepAlive(p)
       PROVE  Goal
    BY <1>11, <1>c DEF KeepAlive
<1>12. ASSUME NEW p \in Recorders, PauseRecorder(p) \/ ResumeRecorder(p)
       PROVE  Goal
    <2>1. /\ ui'.step = "idle"
          /\ \A q \in Recorders : state'[q] = "Stoped" <=> state[q] = "Stoped"
          /\ UNCHANGED <<recorder, made, life, hooked, tasks, phase, disposals, worker>>
        <3>1. /\ ui'.step = "idle"
              /\ UNCHANGED <<recorder, made, life, hooked, tasks, phase, disposals, worker>>
            <4>1. CASE PauseRecorder(p)
                BY <4>1 DEF PauseRecorder
            <4>2. CASE ResumeRecorder(p)
                BY <4>2 DEF ResumeRecorder
            <4> QED
                BY <1>12, <4>1, <4>2
        <3>2. CASE PauseRecorder(p)
            BY <3>1, <3>2 DEF PauseRecorder
        <3>3. CASE ResumeRecorder(p)
            BY <3>1, <3>3 DEF ResumeRecorder
        <3> QED
            BY <1>12, <3>2, <3>3
    <2>2. ASSUME NEW q \in Recorders PROVE RecorderInv(q)'
        BY <2>1, <1>i
           DEF RecorderInv, AtRest, Current, Tasks, StoppedOnce, Unhooked, Deleted, NotMade, Given
    <2> QED
        BY <2>1, <2>2 DEF UIInv
<1> QED
    BY <1>1, <1>2, <1>3, <1>4, <1>5, <1>6, <1>7, <1>8, <1>9, <1>10, <1>11, <1>12 DEF UIThread
-------------------------------------------------------------------------------
(* The steps of the encoder threads                                        *)

EncoderThread == \E r \in Recorders : EncoderWorks(r) \/ EncoderFails(r)

LEMMA EncoderTypes == AgentInv /\ EncoderThread => TypeOK'
<1> SUFFICES ASSUME AgentInv, NEW r \in Recorders, EncoderWorks(r) \/ EncoderFails(r)
             PROVE  TypeOK'
    BY DEF EncoderThread
<1> USE DEF AgentInv, TypeOK, clientside, messages, window, objects, lower, encoders, disposal, Enter
<1>p. Phase = {"idle", "recording", "broken", "draining", "saved", "told", "unhooked", "given",
               "forgotten", "done"}
    BY DEF Phase
<1>t. ASSUME NEW task, TakeTask(r, task)
      PROVE  tasks' \in [Recorders -> Seq({"START", "STOP"})]
    <2>1. Tail(tasks[r]) \in Seq({"START", "STOP"})
        BY <1>t, TailFacts DEF TakeTask
    <2> QED
        BY <1>t, <2>1 DEF TakeTask
<1>e. ASSUME NEW m \in Message, ReportError(r, m)
      PROVE  notices' \in Seq(Notice) /\ posted' \in Seq(Message) /\ errors' \in 0 .. MaxErrors
    <2>1. Append(notices, "ERROR") \in Seq(Notice) /\ Append(posted, m) \in Seq(Message)
        BY AppendFacts DEF Notice
    <2>2. errors' \in 0 .. MaxErrors
        BY <1>e, AgentAssumption DEF ReportError
    <2>3. notices' = notices \/ notices' = Append(notices, "ERROR")
        BY <1>e DEF ReportError
    <2>4. posted' = posted \/ posted' = Append(posted, m)
        BY <1>e DEF ReportError
    <2> QED
        BY <2>1, <2>2, <2>3, <2>4
<1>m. "STOP" \in Message /\ "TERMINATE" \in Message
    BY DEF Message
<1>1. CASE DoStart(r)
    BY <1>1, <1>p, <1>t DEF DoStart
<1>2. CASE DoStop(r)
    BY <1>2, <1>p, <1>t DEF DoStop
<1>3. CASE CloseFile(r)
    BY <1>3, <1>p DEF CloseFile
<1>4. CASE PostCompleted(r)
    <2>1. Append(notices, "COMPLETED") \in Seq(Notice)
        BY AppendFacts DEF Notice
    <2> QED
        BY <1>4, <1>p, <2>1 DEF PostCompleted, SendCompleted
<1>5. CASE ClearCallbacks(r)
    BY <1>5, <1>p DEF ClearCallbacks
<1>6. CASE GiveToWorker(r)
    <2>1. recorder \in Recorders
        BY <1>6 DEF GiveToWorker, EncoderAt, RecorderInv, AtRest
    <2>2. Append(disposals, recorder) \in Seq(Recorders)
        BY <2>1, AppendFacts
    <2> QED
        BY <1>6, <1>p, <2>2 DEF GiveToWorker
<1>7. CASE ForgetRecorder(r)
    BY <1>7, <1>p DEF ForgetRecorder, Pointer
<1>8. CASE CloseIfTerminated(r)
    BY <1>8, <1>p DEF CloseIfTerminated
<1>9. CASE WriteFails(r)
    BY <1>9, <1>e, <1>m DEF WriteFails
<1>10. CASE PingTimeout(r)
    BY <1>10, <1>e, <1>m DEF PingTimeout
<1>11. CASE EncodingFails(r)
    BY <1>11, <1>p, <1>e, <1>m DEF EncodingFails
<1> QED
    BY <1>1, <1>2, <1>3, <1>4, <1>5, <1>6, <1>7, <1>8, <1>9, <1>10, <1>11
       DEF EncoderWorks, EncoderFails

LEMMA EncoderRecorders ==
    AgentInv /\ EncoderThread => UIInv' /\ \A q \in Recorders : RecorderInv(q)'
<1> SUFFICES ASSUME AgentInv, NEW r \in Recorders, EncoderWorks(r) \/ EncoderFails(r)
             PROVE  UIInv' /\ \A q \in Recorders : RecorderInv(q)'
    BY DEF EncoderThread
<1> DEFINE Goal == UIInv' /\ \A q \in Recorders : RecorderInv(q)'
<1> USE DEF AgentInv, TypeOK, clientside, messages, window, objects, lower, encoders, disposal,
            Enter, EncoderAt
<1>i. ASSUME NEW q \in Recorders PROVE RecorderInv(q) /\ q # nullptr /\ q \in Nat
    BY AgentAssumption DEF Recorders, nullptr
<1>u. ASSUME UNCHANGED <<recorder, ui, state>> PROVE UIInv'
    BY <1>u DEF UIInv
<1>1. CASE DoStart(r)
    <2>1. /\ UNCHANGED <<recorder, ui, made, life, state, hooked, disposals, worker>>
          /\ phase[r] = "idle" /\ phase' = [phase EXCEPT ![r] = "recording"]
          /\ tasks' = [tasks EXCEPT ![r] = Tail(@)] /\ tasks[r] # <<>>
        BY <1>1 DEF DoStart, TakeTask
    <2>2. recorder = r
        BY <2>1, <1>i DEF RecorderInv, AtRest
    <2>3. \/ tasks[r] = <<"START">> /\ tasks'[r] = <<>>
          \/ tasks[r] = <<"START", "STOP">> /\ tasks'[r] = <<"STOP">>
        BY <2>1, <2>2, <1>i, TaskFacts DEF RecorderInv, Tasks
    <2>4. RecorderInv(r)'
        BY <2>1, <2>2, <2>3, <1>i, TaskFacts
           DEF RecorderInv, AtRest, Current, Tasks, StoppedOnce, Unhooked, Deleted, NotMade, Given, Late
    <2>5. ASSUME NEW q \in Recorders, q # r PROVE RecorderInv(q)'
        BY <2>1, <2>5, <1>i
           DEF RecorderInv, AtRest, Current, Tasks, StoppedOnce, Unhooked, Deleted, NotMade, Given
    <2> QED
        BY <2>1, <2>4, <2>5, <1>u
<1>2. CASE DoStop(r)
    <2>1. /\ UNCHANGED <<recorder, ui, made, life, state, hooked, disposals, worker>>
          /\ phase[r] \in {"recording", "broken"} /\ tasks[r] # <<>>
          /\ tasks' = [tasks EXCEPT ![r] = Tail(@)]
          /\ phase' = [phase EXCEPT ![r] = IF phase[r] = "recording" THEN "draining" ELSE "broken"]
        BY <1>2 DEF DoStop, TakeTask
    <2>2. recorder = r
        BY <2>1, <1>i DEF RecorderInv, AtRest
    <2>3. tasks[r] = <<"STOP">> /\ tasks'[r] = <<>>
        BY <2>1, <1>i, TaskFacts DEF RecorderInv, Tasks
    <2>4. RecorderInv(r)'
        BY <2>1, <2>2, <2>3, <1>i, TaskFacts
           DEF RecorderInv, AtRest, Current, Tasks, StoppedOnce, Unhooked, Deleted, NotMade, Given, Late
    <2>5. ASSUME NEW q \in Recorders, q # r PROVE RecorderInv(q)'
        BY <2>1, <2>5, <1>i
           DEF RecorderInv, AtRest, Current, Tasks, StoppedOnce, Unhooked, Deleted, NotMade, Given
    <2> QED
        BY <2>1, <2>4, <2>5, <1>u
\* The steps from one phase to the next that change no more than that.
<1>s. ASSUME NEW from, NEW to, phase[r] = from, phase' = [phase EXCEPT ![r] = to],
             \/ from = "recording" /\ to = "broken"
             \/ from = "draining" /\ to = "saved"
             \/ from = "saved" /\ to = "told"
             \/ from = "forgotten" /\ to = "done",
             UNCHANGED <<recorder, ui, made, life, state, hooked, tasks, disposals, worker>>
      PROVE  Goal
    <2>1. RecorderInv(r)'
        BY <1>s, <1>i
           DEF RecorderInv, AtRest, Current, Tasks, StoppedOnce, Unhooked, Deleted, NotMade, Given, Late
    <2>2. ASSUME NEW q \in Recorders, q # r PROVE RecorderInv(q)'
        BY <1>s, <2>2, <1>i
           DEF RecorderInv, AtRest, Current, Tasks, StoppedOnce, Unhooked, Deleted, NotMade, Given
    <2> QED
        BY <1>s, <2>1, <2>2, <1>u
<1>3. CASE CloseFile(r)
    BY <1>3, <1>s DEF CloseFile
<1>4. CASE PostCompleted(r)
    BY <1>4, <1>s DEF PostCompleted, SendCompleted
<1>5. CASE ClearCallbacks(r)
    <2>1. /\ UNCHANGED <<recorder, ui, made, life, state, tasks, disposals, worker>>
          /\ phase[r] = "told" /\ phase' = [phase EXCEPT ![r] = "unhooked"]
          /\ hooked' = [hooked EXCEPT ![recorder] = FALSE]
        BY <1>5 DEF ClearCallbacks
    <2>2. recorder = r
        BY <2>1, <1>i DEF RecorderInv, AtRest
    <2>3. RecorderInv(r)'
        BY <2>1, <2>2, <1>i
           DEF RecorderInv, AtRest, Current, Tasks, StoppedOnce, Unhooked, Deleted, NotMade, Given, Late
    <2>4. ASSUME NEW q \in Recorders, q # r PROVE RecorderInv(q)'
        BY <2>1, <2>2, <2>4, <1>i
           DEF RecorderInv, AtRest, Current, Tasks, StoppedOnce, Unhooked, Deleted, NotMade, Given
    <2> QED
        BY <2>1, <2>3, <2>4, <1>u
<1>6. CASE GiveToWorker(r)
    <2>1. /\ UNCHANGED <<recorder, ui, made, life, state, hooked, tasks, worker>>
          /\ phase[r] = "unhooked" /\ phase' = [phase EXCEPT ![r] = "given"]
          /\ disposals' = Append(disposals, recorder)
        BY <1>6 DEF GiveToWorker
    <2>2. recorder = r
        BY <2>1, <1>i DEF RecorderInv, AtRest
    <2>3. RecorderInv(r)'
        BY <2>1, <2>2, <1>i
           DEF RecorderInv, AtRest, Current, Tasks, StoppedOnce, Unhooked, Deleted, NotMade, Late
    <2>4. ASSUME NEW q \in Recorders, q # r PROVE RecorderInv(q)'
        <3>1. Given(q)' => Given(q)
            BY <2>1, <2>2, <2>4, AppendFacts DEF Given
        <3> QED
            BY <2>1, <2>4, <3>1, <1>i
               DEF RecorderInv, AtRest, Current, Tasks, StoppedOnce, Unhooked, Deleted, NotMade
    <2> QED
        BY <2>1, <2>3, <2>4, <1>u
<1>7. CASE ForgetRecorder(r)
    <2>1. /\ UNCHANGED <<ui, made, life, state, hooked, tasks, disposals, worker>>
          /\ phase[r] = "given" /\ phase' = [phase EXCEPT ![r] = "forgotten"]
          /\ recorder' = nullptr
        BY <1>7 DEF ForgetRecorder
    <2>2. recorder = r
        BY <2>1, <1>i DEF RecorderInv, AtRest
    <2>3. tasks[r] = <<>> /\ state[r] = "Stoped" /\ ~hooked[r] /\ ~(ui.step = "stopping" /\ ui.rec = r)
        BY <2>1, <1>i DEF RecorderInv, Tasks, StoppedOnce, Unhooked, Late
    <2>4. ui.step \notin {"hook", "stopping"}
        BY <2>2, <2>3 DEF UIInv
    <2>5. RecorderInv(r)'
        BY <2>1, <2>2, <2>3, <1>i
           DEF RecorderInv, AtRest, Current, Tasks, StoppedOnce, Unhooked, Deleted, NotMade, Given, Late
    <2>6. ASSUME NEW q \in Recorders, q # r PROVE RecorderInv(q)'
        BY <2>1, <2>2, <2>6, <1>i
           DEF RecorderInv, AtRest, Current, Tasks, StoppedOnce, Unhooked, Deleted, NotMade, Given
    <2> QED
        BY <2>1, <2>4, <2>5, <2>6 DEF UIInv
<1>8. CASE CloseIfTerminated(r)
    BY <1>8, <1>s DEF CloseIfTerminated
<1>9. CASE WriteFails(r)
    BY <1>9, UntouchedInv DEF WriteFails, Untouched
<1>10. CASE PingTimeout(r)
    BY <1>10, UntouchedInv DEF PingTimeout, Untouched
<1>11. CASE EncodingFails(r)
    BY <1>11, <1>s DEF EncodingFails
<1> QED
    BY <1>1, <1>2, <1>3, <1>4, <1>5, <1>6, <1>7, <1>8, <1>9, <1>10, <1>11
       DEF EncoderWorks, EncoderFails
-------------------------------------------------------------------------------
(* The steps of worker_                                                    *)

LEMMA WorkerStep == AgentInv /\ WorkerThread => AgentInv'
<1> SUFFICES ASSUME AgentInv, WorkerThread PROVE AgentInv'
    OBVIOUS
<1> USE DEF AgentInv, TypeOK, clientside, messages, window, objects, lower, encoders, disposal
<1>i. ASSUME NEW q \in Recorders PROVE RecorderInv(q) /\ q # nullptr /\ q \in Nat
    BY AgentAssumption DEF Recorders, nullptr
<1>1. CASE TakeRecorder
    <2>1. /\ worker = nullptr /\ disposals # <<>>
          /\ worker' = Head(disposals) /\ disposals' = Tail(disposals)
          /\ UNCHANGED <<client, asking, messages, posts, ui, recorder, window, objects, encoders>>
        BY <1>1 DEF TakeRecorder
    <2>2. /\ Tail(disposals) \in Seq(Recorders) /\ Head(disposals) \in Recorders
          /\ Head(disposals) = disposals[1] /\ 1 \in DOMAIN disposals
          /\ \A i \in DOMAIN Tail(disposals) :
                 i + 1 \in DOMAIN disposals /\ Tail(disposals)[i] = disposals[i + 1]
        BY <2>1, TailFacts
    <2>3. TypeOK'
        BY <2>1, <2>2 DEF Pointer
    <2>4. ASSUME NEW q \in Recorders PROVE Given(q)' => Given(q)
        BY <2>1, <2>2 DEF Given
    <2>5. ASSUME NEW q \in Recorders PROVE RecorderInv(q)'
        BY <2>1, <2>4, <1>i
           DEF RecorderInv, AtRest, Current, Tasks, StoppedOnce, Unhooked, Deleted, NotMade
    <2>6. UIInv'
        BY <2>1 DEF UIInv
    <2> QED
        BY <2>3, <2>5, <2>6
<1>2. CASE DeleteRecorder
    <2>1. /\ worker # nullptr /\ phase[worker] \in {"idle", "recording", "broken", "done"}
          /\ life' = [life EXCEPT ![worker] = "deleted"] /\ worker' = nullptr
          /\ UNCHANGED <<client, asking, messages, posts, ui, recorder, window, made, state, hooked,
                         encoders, disposals>>
        BY <1>2 DEF DeleteRecorder, FreeRecorder, Joinable
    <2>2. PICK r \in Recorders : r = worker
        BY <2>1 DEF Pointer
    <2>3. Given(r) /\ phase[r] \in {"idle", "recording", "broken", "done"}
        BY <2>1, <2>2 DEF Given
    <2>4. recorder # r
        BY <2>3, <1>i DEF RecorderInv, Current
    <2>5. phase[r] \in {"idle", "done"} /\ ~(r > made)
        BY <2>3, <2>4, <1>i DEF RecorderInv, AtRest, NotMade
    <2>6. TypeOK'
        BY <2>1, <2>2 DEF Pointer
    <2>7. ASSUME NEW q \in Recorders PROVE RecorderInv(q)'
        <3>1. Given(q)' => Given(q)
            BY <2>1, <1>i DEF Given
        <3>2. q # r => life'[q] = life[q]
            BY <2>1, <2>2
        <3>3. q = r => life'[q] = "deleted"
            BY <2>1, <2>2
        <3> QED
            BY <2>1, <2>4, <2>5, <3>1, <3>2, <3>3, <1>i
               DEF RecorderInv, AtRest, Current, Tasks, StoppedOnce, Unhooked, Deleted, NotMade
    <2>8. UIInv'
        BY <2>1 DEF UIInv
    <2> QED
        BY <2>6, <2>7, <2>8
<1> QED
    BY <1>1, <1>2 DEF WorkerThread
-------------------------------------------------------------------------------
(* Theorems                                                                *)

LEMMA StepInv == AgentInv /\ [Next]_vars => AgentInv'
<1> SUFFICES ASSUME AgentInv, [Next]_vars PROVE AgentInv'
    OBVIOUS
<1>1. CASE ClientThread
    BY <1>1, ClientStep
<1>2. CASE UIThread
    BY <1>2, UITypes, UIRecorders DEF AgentInv
<1>3. CASE EncoderThread
    BY <1>3, EncoderTypes, EncoderRecorders DEF AgentInv
<1>4. CASE WorkerThread
    BY <1>4, WorkerStep
<1>5. CASE UNCHANGED vars
    <2>1. UNCHANGED Untouched
        BY <1>5 DEF vars, Untouched
    <2>2. TypeOK'
        BY <1>5 DEF vars, AgentInv, TypeOK
    <2> QED
        BY <2>1, <2>2, UntouchedInv DEF AgentInv
<1> QED
    BY <1>1, <1>2, <1>3, <1>4, <1>5 DEF Next, EncoderThread

THEOREM AgentInvariant == Spec => []AgentInv
BY InitInv, StepInv, PTL DEF Spec

\* Every variable keeps its type; above all, worker_ is never given a null
\* pointer, although on_completed_ reads recorder_ again for it.
THEOREM TypeCorrect == Spec => []TypeOK
<1>1. AgentInv => TypeOK
    BY DEF AgentInv
<1> QED
    BY <1>1, AgentInvariant, PTL

\* recorder_ never dangles: whatever the order of the UI thread, the encoder
\* threads and worker_, what it points to has not been deleted.
THEOREM PointerValid == Spec => []RecorderExists
<1>1. AgentInv => RecorderExists
    <2> SUFFICES ASSUME AgentInv, recorder # nullptr PROVE life[recorder] = "live"
        BY DEF RecorderExists
    <2>1. recorder \in Recorders
        BY DEF AgentInv, TypeOK, Pointer
    <2> QED
        BY <2>1 DEF AgentInv, RecorderInv, Current
<1> QED
    BY <1>1, AgentInvariant, PTL

\* worker_ deletes a recorder only when its encoder thread is out of
\* on_completed_ and nothing of the recorder can reach the window any more.
THEOREM DeletionSafe == Spec => []DeletedAtRest
<1>1. AgentInv => DeletedAtRest
    BY DEF AgentInv, DeletedAtRest, RecorderInv, Deleted, AtRest
<1> QED
    BY <1>1, AgentInvariant, PTL

\* At most one recording has its file open, however many recorders are being
\* disposed of.
THEOREM OneFileOpen == Spec => []OneFile
<1>1. AgentInv => OneFile
    <2>1. ASSUME AgentInv, NEW r \in Recorders, FileOpen(r) PROVE recorder = r
        <3>1. recorder # r => tasks[r] = <<>> /\ phase[r] \notin {"recording", "draining"}
            BY <2>1 DEF AgentInv, RecorderInv, AtRest
        <3>2. tasks[r] = <<>> => "START" \notin {tasks[r][i] : i \in DOMAIN tasks[r]}
            OBVIOUS
        <3> QED
            BY <2>1, <3>1, <3>2 DEF FileOpen
    <2> QED
        BY <2>1 DEF OneFile
<1> QED
    BY <1>1, AgentInvariant, PTL
-------------------------------------------------------------------------------
(* The agent implements RecordingSessions                                  *)

\* recorder_ points to every recorder with an open file.
LEMMA OpenWhen ==
    ASSUME AgentInv, NEW r \in Recorders
    PROVE  FileOpen(r) <=> recorder = r /\ phase[r] \in {"idle", "recording", "draining"}
<1>1. phase[r] \in Phase /\ AtRest(r) /\ Tasks(r)
    BY DEF AgentInv, TypeOK, RecorderInv
<1>2. "START" \notin {<<>>[i] : i \in DOMAIN <<>>}
    OBVIOUS
<1>3. "START" \notin {<<"STOP">>[i] : i \in DOMAIN <<"STOP">>}
    OBVIOUS
<1>4. "START" \in {<<"START">>[i] : i \in DOMAIN <<"START">>}
    OBVIOUS
<1>5. "START" \in {<<"START", "STOP">>[i] : i \in DOMAIN <<"START", "STOP">>}
    OBVIOUS
<1>6. CASE recorder # r
    BY <1>1, <1>2, <1>6 DEF FileOpen, AtRest
<1>7. CASE recorder = r /\ phase[r] = "idle"
    BY <1>1, <1>4, <1>5, <1>7 DEF FileOpen, Tasks
<1>8. CASE recorder = r /\ phase[r] # "idle"
    <2>1. CASE phase[r] \in {"recording", "draining"}
        BY <1>8, <2>1 DEF FileOpen
    <2>2. CASE phase[r] \notin {"recording", "draining"}
        <3>1. tasks[r] \in {<<>>, <<"STOP">>}
            BY <1>1, <1>8, <2>2 DEF Tasks, Phase, Late
        <3>2. "START" \notin {tasks[r][i] : i \in DOMAIN tasks[r]}
            BY <1>2, <1>3, <3>1
        <3> QED
            BY <1>8, <2>2, <3>2 DEF FileOpen
    <2> QED
        BY <2>1, <2>2
<1> QED
    BY <1>6, <1>7, <1>8

SessionOf(r) ==
    IF life[r] = "deleted" THEN "disposed"
    ELSE IF recorder = r /\ phase[r] \in {"idle", "recording", "draining"} THEN "recording"
    ELSE IF phase[r] = "idle" THEN "none"
    ELSE IF phase[r] = "broken" THEN "abandoned"
    ELSE IF phase[r] = "saved" THEN "saved"
    ELSE "told"

AllSessions == \A r \in Recorders : Session(r) = SessionOf(r)

LEMMA SessionIs == AgentInv => AllSessions
BY OpenWhen DEF Session, SessionOf, AllSessions

sessions == [r \in Recorders |-> Session(r)]

\* A step that takes one recording further, and the others nowhere.
LEMMA OneMoves ==
    ASSUME NEW r \in Recorders, NEW to, Session(r)' = to,
           \A q \in Recorders : q # r => Session(q)' = Session(q)
    PROVE  sessions' = [sessions EXCEPT ![r] = to]
BY DEF sessions

LEMMA StepRefines == AgentInv /\ AgentInv' /\ [Next]_vars => [RS!SessionsNext]_sessions
<1> SUFFICES ASSUME AgentInv, AgentInv', [Next]_vars PROVE [RS!SessionsNext]_sessions
    OBVIOUS
<1> USE DEF clientside, messages, window, objects, lower, encoders, disposal, Await, UIDone, UIAt,
            Enter, EncoderAt
<1>i. ASSUME NEW q \in Recorders
      PROVE  /\ Session(q) = SessionOf(q) /\ Session(q)' = SessionOf(q)'
             /\ sessions[q] = Session(q) /\ RecorderInv(q) /\ RecorderInv(q)'
             /\ q # nullptr /\ life \in [Recorders -> {"none", "live", "deleted"}]
             /\ phase \in [Recorders -> Phase] /\ made \in Nat
    <2>1. AllSessions /\ AllSessions'
        BY SessionIs, PTL
    <2>2. Session(q) = SessionOf(q) /\ Session(q)' = SessionOf(q)'
        BY <2>1 DEF AllSessions
    <2>3. sessions[q] = Session(q)
        BY DEF sessions
    <2> QED
        BY <2>2, <2>3, AgentAssumption DEF AgentInv, TypeOK, Recorders, nullptr
<1>u. ASSUME UNCHANGED <<life, recorder, phase>> PROVE UNCHANGED sessions
    BY <1>u, <1>i DEF sessions, SessionOf
<1>1. CASE ClientThread
    BY <1>1, <1>u DEF ClientThread, ClientStart, ClientPost, ClientRead
<1>2. CASE StartRecorder
    <2> PICK n \in Recorders : n = made + 1
        BY <1>2, AgentAssumption DEF StartRecorder, CreateRecorder, Recorders, AgentInv, TypeOK
    <2>1. /\ recorder = nullptr /\ recorder' = n /\ life' = [life EXCEPT ![n] = "live"]
          /\ phase' = phase /\ n > made
        BY <1>2, <1>i DEF StartRecorder, CreateRecorder
    <2>2. life[n] = "none" /\ phase[n] = "idle"
        BY <2>1, <1>i DEF RecorderInv, NotMade
    <2>3. Session(n) = "none" /\ Session(n)' = "recording"
        BY <2>1, <2>2, <1>i DEF SessionOf
    <2>4. \A q \in Recorders : sessions[q] # "recording"
        BY <2>1, <1>i DEF SessionOf
    <2>5. \A q \in Recorders : q # n => Session(q)' = Session(q)
        BY <2>1, <1>i DEF SessionOf
    <2> QED
        BY <2>3, <2>4, <2>5, <1>i, OneMoves DEF RS!SessionsNext, RS!Begin, RS!Move, sessions
<1>3. CASE StartFails
    <2> PICK n \in Recorders : n = made + 1
        BY <1>3, AgentAssumption DEF StartFails, CreateAndGiveAway, Recorders, AgentInv, TypeOK
    <2>1. UNCHANGED <<recorder, phase>> /\ life' = [life EXCEPT ![n] = "live"] /\ n > made
        BY <1>3, <1>i DEF StartFails, CreateAndGiveAway
    <2>2. life[n] = "none"
        BY <2>1, <1>i DEF RecorderInv, NotMade
    <2>3. \A q \in Recorders : Session(q)' = Session(q)
        BY <2>1, <2>2, <1>i DEF SessionOf
    <2> QED
        BY <2>3 DEF sessions
<1>4. CASE StartRefused \/ SetCallbacks \/ HandleMessage \/ HandleTerminate
    BY <1>4, <1>u DEF StartRefused, SetCallbacks, HandleMessage, HandleTerminate, TakeMessage
<1>5. CASE CallOnNull \/ CallOnFreed \/ StopEncoder
    BY <1>5, <1>u DEF CallOnNull, CallOnFreed, StopEncoder
<1>6. ASSUME NEW p \in Recorders,
             StopRecorder(p) \/ KeepAlive(p) \/ PauseRecorder(p) \/ ResumeRecorder(p)
      PROVE  UNCHANGED sessions
    BY <1>6, <1>u DEF StopRecorder, KeepAlive, PauseRecorder, ResumeRecorder
\* The steps of an encoder thread change its phase only, but for the one that
\* clears recorder_.
<1>p. ASSUME NEW r \in Recorders, NEW to, phase' = [phase EXCEPT ![r] = to],
             UNCHANGED <<life, recorder>>
      PROVE  phase'[r] = to /\ \A q \in Recorders : q # r => Session(q)' = Session(q)
    BY <1>p, <1>i DEF SessionOf
<1>7. ASSUME NEW r \in Recorders, CloseFile(r) PROVE RS!Save(r)
    <2>1. phase[r] = "draining" /\ phase' = [phase EXCEPT ![r] = "saved"] /\ UNCHANGED <<life, recorder>>
        BY <1>7 DEF CloseFile
    <2>2. recorder = r /\ life[r] = "live"
        BY <2>1, <1>i DEF RecorderInv, AtRest, Current
    <2>3. Session(r) = "recording" /\ Session(r)' = "saved"
        BY <2>1, <2>2, <1>i DEF SessionOf
    <2> QED
        BY <2>1, <2>3, <1>p, <1>i, OneMoves DEF RS!Save, RS!Move, sessions
<1>8. ASSUME NEW r \in Recorders, PostCompleted(r) PROVE RS!Tell(r)
    <2>1. phase[r] = "saved" /\ phase' = [phase EXCEPT ![r] = "told"] /\ UNCHANGED <<life, recorder>>
        BY <1>8 DEF PostCompleted, SendCompleted
    <2>2. recorder = r /\ life[r] = "live"
        BY <2>1, <1>i DEF RecorderInv, AtRest, Current
    <2>3. Session(r) = "saved" /\ Session(r)' = "told"
        BY <2>1, <2>2, <1>i DEF SessionOf
    <2> QED
        BY <2>1, <2>3, <1>p, <1>i, OneMoves DEF RS!Tell, RS!Move, sessions
<1>9. ASSUME NEW r \in Recorders, EncodingFails(r) PROVE RS!Abandon(r)
    <2>1. phase[r] = "recording" /\ phase' = [phase EXCEPT ![r] = "broken"] /\ UNCHANGED <<life, recorder>>
        BY <1>9 DEF EncodingFails
    <2>2. recorder = r /\ life[r] = "live"
        BY <2>1, <1>i DEF RecorderInv, AtRest, Current
    <2>3. Session(r) = "recording" /\ Session(r)' = "abandoned"
        BY <2>1, <2>2, <1>i DEF SessionOf
    <2> QED
        BY <2>1, <2>3, <1>p, <1>i, OneMoves DEF RS!Abandon, RS!Move, sessions
\* The steps that show nothing: "told" stands for all that follows COMPLETED,
\* and a file is open from the START on.
<1>10. ASSUME NEW r \in Recorders, DoStart(r) \/ DoStop(r) PROVE UNCHANGED sessions
    <2>1. UNCHANGED <<life, recorder>> /\ \E to : phase' = [phase EXCEPT ![r] = to]
        BY <1>10 DEF DoStart, DoStop
    <2>2. Session(r)' = Session(r)
        <3>1. CASE DoStart(r)
            <4>1. phase[r] = "idle" /\ phase'[r] = "recording" /\ tasks[r] # <<>>
                BY <3>1, <1>i DEF DoStart, TakeTask
            <4>2. recorder = r
                BY <4>1, <1>i DEF RecorderInv, AtRest
            <4> QED
                BY <2>1, <4>1, <4>2, <1>i DEF SessionOf
        <3>2. CASE DoStop(r)
            <4>1. \/ phase[r] = "recording" /\ phase'[r] = "draining"
                  \/ phase[r] = "broken" /\ phase'[r] = "broken"
                BY <3>2, <1>i DEF DoStop
            <4>2. recorder = r
                BY <4>1, <1>i DEF RecorderInv, AtRest
            <4> QED
                BY <2>1, <4>1, <4>2, <1>i DEF SessionOf
        <3> QED
            BY <1>10, <3>1, <3>2
    <2> QED
        BY <2>1, <2>2, <1>p DEF sessions
<1>11. ASSUME NEW r \in Recorders,
              ClearCallbacks(r) \/ GiveToWorker(r) \/ CloseIfTerminated(r)
       PROVE  UNCHANGED sessions
    <2>1. PICK to : /\ phase' = [phase EXCEPT ![r] = to] /\ UNCHANGED <<life, recorder>>
                    /\ {phase[r], to} \subseteq {"told", "unhooked", "given", "forgotten", "done"}
        BY <1>11 DEF ClearCallbacks, GiveToWorker, CloseIfTerminated
    <2>2. Session(r)' = Session(r)
        BY <2>1, <1>p, <1>i DEF SessionOf
    <2> QED
        BY <2>1, <2>2, <1>p DEF sessions
<1>12. ASSUME NEW r \in Recorders, ForgetRecorder(r) PROVE UNCHANGED sessions
    <2>1. /\ phase[r] = "given" /\ phase' = [phase EXCEPT ![r] = "forgotten"]
          /\ recorder' = nullptr /\ life' = life
        BY <1>12 DEF ForgetRecorder
    <2>2. recorder = r
        BY <2>1, <1>i DEF RecorderInv, AtRest
    <2>3. ASSUME NEW q \in Recorders PROVE Session(q)' = Session(q)
        BY <2>1, <2>2, <1>i DEF SessionOf
    <2> QED
        BY <2>3 DEF sessions
<1>13. ASSUME NEW r \in Recorders, WriteFails(r) \/ PingTimeout(r) PROVE UNCHANGED sessions
    BY <1>13, <1>u DEF WriteFails, PingTimeout
<1>14. CASE TakeRecorder
    BY <1>14, <1>u DEF TakeRecorder
<1>15. CASE DeleteRecorder
    <2> PICK r \in Recorders : r = worker
        BY <1>15 DEF DeleteRecorder, FreeRecorder, AgentInv, TypeOK, Pointer
    <2>1. /\ phase[r] \in {"idle", "recording", "broken", "done"}
          /\ life' = [life EXCEPT ![r] = "deleted"] /\ UNCHANGED <<phase, recorder>>
        BY <1>15 DEF DeleteRecorder, FreeRecorder, Joinable
    <2>2. life'[r] = "deleted"
        BY <2>1, <1>i
    <2>3. phase[r] \in {"idle", "done"} /\ recorder # r
        BY <2>1, <2>2, <1>i DEF RecorderInv, Deleted
    <2>4. \A q \in Recorders : q # r => Session(q)' = Session(q)
        BY <2>1, <1>i DEF SessionOf
    <2>5. Session(r)' = "disposed"
        BY <2>2, <1>i DEF SessionOf
    <2>6. sessions' = [sessions EXCEPT ![r] = "disposed"]
        BY <2>4, <2>5, OneMoves
    <2>7. CASE life[r] = "deleted"
        <3>1. Session(r) = "disposed"
            BY <2>7, <1>i DEF SessionOf
        <3> QED
            BY <2>4, <2>5, <3>1 DEF sessions
    <2>8. CASE life[r] # "deleted"
        <3>1. Session(r) \in {"none", "told"}
            BY <2>3, <2>8, <1>i DEF SessionOf
        <3> QED
            BY <2>6, <3>1, <1>i DEF RS!SessionsNext, RS!Dispose, RS!Move, sessions
    <2> QED
        BY <2>7, <2>8
<1>16. CASE UNCHANGED vars
    BY <1>16, <1>u DEF vars
<1>17. CASE UIThread
    BY <1>2, <1>3, <1>4, <1>5, <1>6, <1>17 DEF UIThread
<1>18. ASSUME NEW r \in Recorders, EncoderWorks(r) \/ EncoderFails(r)
       PROVE  [RS!SessionsNext]_sessions
    <2>1. RS!Save(r) \/ RS!Tell(r) \/ RS!Abandon(r) => RS!SessionsNext
        BY DEF RS!SessionsNext
    <2> QED
        BY <1>7, <1>8, <1>9, <1>10, <1>11, <1>12, <1>13, <1>18, <2>1 DEF EncoderWorks, EncoderFails
<1> QED
    BY <1>1, <1>14, <1>15, <1>16, <1>17, <1>18 DEF Next, WorkerThread

\* Seen by the main program, the agent runs one recording after the other and
\* tells each complete once, after its file was closed: every step of every
\* thread is a step of RecordingSessions, or none.
THEOREM AgentImplementsSessions == Spec => ImplementsSessions
<1>1. Init => RS!SessionsInit
    <2> SUFFICES ASSUME Init PROVE sessions = [r \in Recorders |-> "none"]
        BY DEF RS!SessionsInit, sessions
    <2>1. ASSUME NEW r \in Recorders PROVE Session(r) = "none"
        <3>1. Session(r) = SessionOf(r)
            BY InitInv, SessionIs DEF AllSessions
        <3> QED
            BY <3>1, AgentAssumption DEF Init, SessionOf, Recorders, nullptr
    <2> QED
        BY <2>1 DEF sessions
<1> QED
    BY <1>1, StepRefines, AgentInvariant, PTL DEF Spec, ImplementsSessions, RS!SessionsSpec, sessions

-------------------------------------------------------------------------------
(* A patient client and the null pointer                                   *)

\* recorder_ points to a recorder that nobody has told to stop,
Working ==
    /\ recorder # nullptr
    /\ phase[recorder] \in {"idle", "recording"}
    /\ tasks[recorder] \in {<<>>, <<"START">>}

\* or to one whose completion was posted.
Over == recorder # nullptr => phase[recorder] \in {"told", "unhooked", "given"}

Closing == {"STOP", "TERMINATE"}
HasClosed == client \in {"stopping", "leaving"}

\* A closing message is the last one the client posted.
Orderly(s) == \A i \in 1 .. Len(s) : s[i] \in Closing => i = Len(s) /\ HasClosed

\* While nothing failed, every message finds a working recorder, and a client
\* that believes it may START has read the only COMPLETED there is.
Cooperation ==
    /\ ending # "null"
    /\ posted # <<>> \/ ui.step \in Call \cup {"hook", "stopping"} => Working
    /\ ui.step \in Call => ui.rec = recorder
    /\ ui.step \in {"call stop", "stopping"} => posted = <<>> /\ HasClosed
    /\ Orderly(posted)
    /\ asking = "START" => client = "idle"
    /\ ui.step = "hook" => asking = "START"
    /\ client = "recording" => Working /\ notices = <<>>
    /\ client = "idle" => /\ notices = <<>> /\ posted = <<>>
                          /\ ui.step \notin Call \cup {"stopping"}
                          /\ ui.step = "hook" \/ Over
    /\ client = "stopping" => notices = <<>> \/ (Len(notices) = 1 /\ Over)

CooperationInv == Patient /\ errors = 0 => Cooperation

LEMMA OrderlyTail ==
    ASSUME NEW s \in Seq(Message), s # <<>>, Orderly(s)
    PROVE  /\ Orderly(Tail(s))
           /\ Head(s) \in Closing => Tail(s) = <<>> /\ HasClosed
<1>1. /\ Head(s) = s[1] /\ Len(s) \in Nat \ {0} /\ Tail(s) \in Seq(Message)
      /\ Len(Tail(s)) = Len(s) - 1
      /\ \A i \in 1 .. Len(s) - 1 : i + 1 \in 1 .. Len(s) /\ Tail(s)[i] = s[i + 1]
    OBVIOUS
<1>2. Orderly(Tail(s))
    <2> SUFFICES ASSUME NEW i \in 1 .. Len(Tail(s)), Tail(s)[i] \in Closing
                 PROVE  i = Len(Tail(s)) /\ HasClosed
        BY DEF Orderly
    <2>1. i \in 1 .. Len(s) - 1
        BY <1>1
    <2>2. i + 1 \in 1 .. Len(s) /\ s[i + 1] \in Closing
        BY <1>1, <2>1
    <2>3. i + 1 = Len(s) /\ HasClosed
        BY <2>2 DEF Orderly
    <2>4. i \in Nat /\ Len(s) \in Nat /\ Len(Tail(s)) = Len(s) - 1
        BY <1>1, <2>1
    <2> QED
        BY <2>3, <2>4
<1>3. ASSUME Head(s) \in Closing PROVE Len(s) = 1 /\ HasClosed
    <2>1. 1 \in 1 .. Len(s) /\ s[1] \in Closing
        BY <1>1, <1>3
    <2> QED
        BY <2>1 DEF Orderly
<1>4. ASSUME Len(s) = 1 PROVE Tail(s) = <<>>
    <2>1. Len(Tail(s)) = 0
        BY <1>1, <1>4
    <2> QED
        BY <1>1, <2>1, EmptySeq
<1> QED
    BY <1>2, <1>3, <1>4

LEMMA PostFacts ==
    ASSUME NEW s \in Seq(Message), NEW m \in Message
    PROVE  /\ Append(s, m) # <<>> /\ Len(s) \in Nat /\ Len(Append(s, m)) = Len(s) + 1
           /\ Append(s, m)[Len(s) + 1] = m
           /\ \A i \in 1 .. Len(s) : Append(s, m)[i] = s[i]
<1>1. /\ Len(Append(s, m)) = Len(s) + 1 /\ Append(s, m)[Len(s) + 1] = m
      /\ \A i \in 1 .. Len(s) : Append(s, m)[i] = s[i]
    BY AppendProperties
<1>2. Len(s) \in Nat
    BY LenProperties
<1>3. Append(s, m) # <<>>
    BY <1>1, <1>2, EmptySeq
<1> QED
    BY <1>1, <1>2, <1>3

\* The notices of a recording: none, then COMPLETED.
LEMMA OneNotice ==
    /\ \A s \in Seq(Notice) : Len(s) = 1 => Tail(s) = <<>>
    /\ Len(Append(<<>>, "COMPLETED")) = 1
<1>1. ASSUME NEW s \in Seq(Notice), Len(s) = 1 PROVE Tail(s) = <<>>
    <2>1. s # <<>>
        BY <1>1, EmptySeq
    <2>2. Tail(s) \in Seq(Notice) /\ Len(Tail(s)) = Len(s) - 1
        BY <2>1
    <2>3. Len(Tail(s)) = 0
        BY <1>1, <2>2
    <2> QED
        BY <2>2, <2>3, EmptySeq
<1>2. Len(Append(<<>>, "COMPLETED")) = 1
    OBVIOUS
<1> QED
    BY <1>1, <1>2

\* The steps below are taken while nothing has failed.
Calm == AgentInv /\ AgentInv' /\ Patient /\ errors = 0 /\ errors' = 0 /\ Cooperation

LEMMA StageIsOne ==
    /\ \A r \in Recorders : r # nullptr
    /\ Working => ~Over
    /\ nullptr \notin Recorders
BY AgentAssumption DEF Recorders, nullptr, Working, Over

LEMMA ClientCooperates == Calm /\ ClientThread => Cooperation'
<1> SUFFICES ASSUME Calm, ClientThread PROVE Cooperation'
    OBVIOUS
<1> USE DEF Calm, clientside, messages, window, objects, lower, encoders, disposal
<1>a. UNCHANGED <<ui, recorder, ending, phase, tasks>> /\ Working' = Working /\ Over' = Over
    BY DEF ClientThread, ClientStart, ClientPost, ClientRead, Working, Over
<1>b. notices \in Seq(Notice) /\ posted \in Seq(Message)
    BY DEF AgentInv, TypeOK
<1>1. CASE ClientStart
    <2>1. client = "idle" /\ asking' = "START" /\ UNCHANGED <<client, notices, posted>>
        BY <1>1 DEF ClientStart, Allowed
    <2> QED
        BY <1>a, <2>1 DEF Cooperation, Orderly, HasClosed
<1>2. ASSUME NEW m \in Message, ClientPost(m) PROVE Cooperation'
    <2>1. /\ client = "recording" /\ asking = "no" /\ posted' = Append(posted, m)
          /\ client' = IF m = "STOP" THEN "stopping" ELSE IF m = "TERMINATE" THEN "leaving" ELSE client
          /\ UNCHANGED <<asking, notices>>
        BY <1>2 DEF ClientPost, Allowed, Message
    <2>2. /\ Working /\ notices = <<>> /\ ~HasClosed
          /\ \A i \in 1 .. Len(posted) : posted[i] \notin Closing
        BY <2>1 DEF Cooperation, Orderly, HasClosed
    <2>3. m \in Closing => HasClosed'
        BY <2>1 DEF Closing, HasClosed
    <2>4. /\ Append(posted, m) # <<>> /\ Len(posted) \in Nat
          /\ Len(Append(posted, m)) = Len(posted) + 1
          /\ Append(posted, m)[Len(posted) + 1] = m
          /\ \A i \in 1 .. Len(posted) : Append(posted, m)[i] = posted[i]
        BY <1>b, PostFacts
    <2>5. \A i \in 1 .. Len(posted) + 1 : i \in 1 .. Len(posted) \/ i = Len(posted) + 1
        BY <2>4
    <2>6. Orderly(posted)'
        BY <2>1, <2>2, <2>3, <2>4, <2>5 DEF Orderly
    <2>7. ui.step \notin {"call stop", "stopping"} /\ client' # "idle"
        BY <2>1, <2>2 DEF Cooperation
    <2> QED
        BY <1>a, <2>1, <2>2, <2>6, <2>7 DEF Cooperation
<1>3. CASE ClientRead
    <2>1. /\ notices # <<>> /\ notices' = Tail(notices) /\ UNCHANGED <<asking, posted>>
          /\ client' = IF client # "leaving" /\ Head(notices) = "COMPLETED" THEN "idle"
                       ELSE IF client = "recording" THEN "stopping" ELSE client
        BY <1>3 DEF ClientRead
    <2>2. client \in {"stopping", "leaving"}
        BY <2>1 DEF Cooperation, AgentInv, TypeOK
    <2>3. CASE client = "leaving"
        BY <1>a, <2>1, <2>3 DEF Cooperation, Orderly, HasClosed
    <2>4. CASE client = "stopping"
        <3>1. Len(notices) = 1 /\ Over /\ ~Working
            BY <2>1, <2>4, StageIsOne DEF Cooperation
        <3>2. notices' = <<>> /\ client' \in {"idle", "stopping"}
            BY <1>b, <2>1, <2>4, <3>1, OneNotice
        <3>3. posted = <<>> /\ ui.step \notin Call \cup {"hook", "stopping"} /\ asking # "START"
            BY <2>4, <3>1 DEF Cooperation
        <3>4. Orderly(posted)'
            BY <2>1, <3>3 DEF Orderly
        <3> QED
            BY <1>a, <2>1, <3>1, <3>2, <3>3, <3>4 DEF Cooperation, Call
    <2> QED
        BY <2>2, <2>3, <2>4
<1> QED
    BY <1>1, <1>2, <1>3 DEF ClientThread

\* The step of the UI thread changed neither what was posted nor the recorder.
LEMMA CallOver ==
    ASSUME Cooperation, UNCHANGED <<recorder, phase, tasks, notices, posted, client, asking, ending>>,
           ui.step \in Call \cup {"stopped"}, ui'.step = "idle"
    PROVE  Cooperation'
<1>1. Working' = Working /\ Over' = Over /\ Orderly(posted)'
    BY DEF Working, Over, Cooperation, Orderly, HasClosed
<1>2. ui.step # "hook" /\ ui'.step \notin Call \cup {"hook", "stopping", "call stop"}
    BY DEF Call
<1> QED
    BY <1>1, <1>2 DEF Cooperation, HasClosed

LEMMA StartCooperates == Calm /\ (StartRefused \/ StartRecorder \/ StartFails \/ SetCallbacks) => Cooperation'
<1> SUFFICES ASSUME Calm, StartRefused \/ StartRecorder \/ StartFails \/ SetCallbacks PROVE Cooperation'
    OBVIOUS
<1> USE DEF Calm, clientside, messages, window, objects, lower, encoders, disposal, UIAt, Await, UIDone,
            Answer
<1>a. /\ asking = "START" => /\ client = "idle" /\ notices = <<>> /\ posted = <<>>
                             /\ ui.step \notin Call \cup {"stopping"}
      /\ ui.step = "hook" => asking = "START" /\ Working
    BY DEF Cooperation
<1>b. ParseOptions => UNCHANGED <<notices, errors>>
    BY DEF ParseOptions
<1>1. CASE StartRefused
    <2>1. /\ asking = "START" /\ asking' = "no" /\ client' = client
          /\ UNCHANGED <<ui, recorder, ending, phase, tasks, notices, posted>>
        BY <1>1 DEF StartRefused
    <2>2. Working' = Working /\ Over' = Over /\ Orderly(posted)'
        BY <2>1 DEF Working, Over, Cooperation, Orderly, HasClosed
    <2>3. ui.step # "hook"
        BY <1>1 DEF StartRefused
    <2> QED
        BY <1>a, <2>1, <2>2, <2>3 DEF Cooperation, HasClosed
<1>2. CASE StartRecorder
    <2>1. PICK n \in Recorders : n = made + 1
        BY <1>2, AgentAssumption DEF StartRecorder, CreateRecorder, Recorders, AgentInv, TypeOK
    <2>2. /\ asking = "START" /\ recorder = nullptr /\ recorder' = n /\ made \in Nat
          /\ phase' = phase /\ tasks' = [tasks EXCEPT ![n] = Append(@, "START")]
          /\ ui'.step = "hook" /\ UNCHANGED <<client, asking, posted, ending, notices>>
        BY <1>2, <1>b, <2>1 DEF StartRecorder, CreateRecorder, AgentInv, TypeOK
    <2>3. /\ n # nullptr /\ phase[n] = "idle" /\ tasks[n] = <<>>
          /\ tasks \in [Recorders -> Seq({"START", "STOP"})]
        <3>1. RecorderInv(n) /\ n # recorder /\ n > made
            BY <2>1, <2>2, StageIsOne DEF AgentInv
        <3> QED
            BY <3>1, StageIsOne DEF RecorderInv, NotMade, AtRest, AgentInv, TypeOK
    <2>4. tasks'[n] = <<"START">>
        BY <2>2, <2>3, TaskFacts
    <2>5. Working'
        BY <2>2, <2>3, <2>4 DEF Working
    <2>6. Orderly(posted)'
        BY <2>2 DEF Cooperation, Orderly, HasClosed
    <2>7. ui'.step \notin Call \cup {"call stop", "stopping"}
        BY <2>2 DEF Call
    <2> QED
        BY <1>a, <2>2, <2>5, <2>6, <2>7 DEF Cooperation
<1>3. CASE StartFails
    <2>1. /\ asking = "START" /\ asking' = "no" /\ client' = client
          /\ UNCHANGED <<ui, recorder, ending, phase, tasks, notices, posted>>
        BY <1>3, <1>b DEF StartFails, CreateAndGiveAway
    <2>2. Working' = Working /\ Over' = Over /\ Orderly(posted)'
        BY <2>1 DEF Working, Over, Cooperation, Orderly, HasClosed
    <2>3. ui.step # "hook"
        BY <1>3 DEF StartFails, CreateAndGiveAway
    <2> QED
        BY <1>a, <2>1, <2>2, <2>3 DEF Cooperation, HasClosed
<1>4. CASE SetCallbacks
    <2>1. /\ ui.step = "hook" /\ ui'.step = "idle" /\ asking' = "no" /\ client' = "recording"
          /\ UNCHANGED <<recorder, ending, phase, tasks, notices, posted>>
        BY <1>4 DEF SetCallbacks, AgentInv, TypeOK
    <2>2. Working' = Working /\ posted' = <<>> /\ notices' = <<>> /\ Working
        BY <1>a, <2>1 DEF Working
    <2>3. Orderly(posted)'
        BY <2>2 DEF Orderly
    <2>4. ui'.step \notin Call \cup {"call stop", "stopping", "hook"}
        BY <2>1 DEF Call
    <2> QED
        BY <2>1, <2>2, <2>3, <2>4 DEF Cooperation
<1> QED
    BY <1>1, <1>2, <1>3, <1>4

LEMMA MessageCooperates == Calm /\ (HandleMessage \/ HandleTerminate) => Cooperation'
<1> SUFFICES ASSUME Calm, HandleMessage \/ HandleTerminate PROVE Cooperation'
    OBVIOUS
<1> USE DEF Calm, clientside, messages, window, objects, lower, encoders, disposal, UIAt, Await, UIDone
<1>1. /\ posted # <<>> /\ posted' = Tail(posted) /\ ui.step = "idle"
      /\ UNCHANGED <<client, asking, recorder, ending, phase, tasks, notices>>
    BY DEF HandleMessage, HandleTerminate, TakeMessage
<1>2. /\ Working /\ Working' /\ Over' = Over /\ recorder # nullptr
    BY <1>1 DEF Cooperation, Working, Over
<1>3. /\ Orderly(Tail(posted))
      /\ Head(posted) \in Closing => Tail(posted) = <<>> /\ HasClosed
    BY <1>1, OrderlyTail DEF Cooperation, AgentInv, TypeOK
<1>4. Orderly(posted)'
    BY <1>1, <1>3 DEF Orderly, HasClosed
<1>5. \/ ui' = ui
      \/ ui'.step = "call stop" /\ ui'.rec = recorder /\ Head(posted) \in Closing
      \/ ui'.step \in Call \ {"call stop"} /\ ui'.rec = recorder
    <2>1. ASSUME HandleMessage
          PROVE  /\ ui'.step = CallOf(Head(posted)) /\ ui'.rec = recorder
                 /\ Head(posted) # "TERMINATE"
        BY <1>2, <2>1 DEF HandleMessage
    <2>2. CallOf(Head(posted)) \in Call
        BY DEF CallOf, Call
    <2>3. Head(posted) # "TERMINATE" /\ CallOf(Head(posted)) = "call stop" => Head(posted) \in Closing
        BY DEF CallOf, Closing
    <2>4. ASSUME HandleTerminate
          PROVE  \/ ui' = ui
                 \/ ui'.step = "call stop" /\ ui'.rec = recorder /\ Head(posted) \in Closing
        <3>1. Head(posted) = "TERMINATE"
            BY <2>4 DEF HandleTerminate
        <3>2. ui' = ui \/ ui' = [step |-> "call stop", rec |-> recorder]
            BY <2>4 DEF HandleTerminate
        <3>3. Head(posted) \in Closing
            BY <3>1 DEF Closing
        <3>4. ASSUME ui' = [step |-> "call stop", rec |-> recorder]
              PROVE  ui'.step = "call stop" /\ ui'.rec = recorder
            BY <3>4
        <3> QED
            BY <3>2, <3>3, <3>4
    <2> QED
        BY <2>1, <2>2, <2>3, <2>4
<1>6. ui'.step # "stopping" /\ ui'.step # "hook"
    BY <1>1, <1>5 DEF Call
<1>7. client # "idle"
    BY <1>1 DEF Cooperation
<1>8. ui'.step = "call stop" => posted' = <<>> /\ HasClosed'
    BY <1>1, <1>3, <1>5 DEF HasClosed
<1>9. ui'.step \in Call => ui'.rec = recorder'
    BY <1>1, <1>5 DEF Call
<1> QED
    BY <1>1, <1>2, <1>4, <1>6, <1>7, <1>8, <1>9 DEF Cooperation

LEMMA CallCooperates ==
    ASSUME Calm, CallOnNull \/ CallOnFreed \/ StopEncoder
                 \/ \E p \in Recorders :
                       StopRecorder(p) \/ KeepAlive(p) \/ PauseRecorder(p) \/ ResumeRecorder(p)
    PROVE  Cooperation'
<1> USE DEF Calm, clientside, messages, window, objects, lower, encoders, disposal, UIAt, Await, UIDone
<1>1. CASE CallOnNull
    <2>1. ui.step \in Call /\ nullptr \in Target
        BY <1>1 DEF CallOnNull
    <2>2. Working /\ ui.rec = recorder
        BY <2>1 DEF Cooperation
    <2>3. FALSE
        BY <2>1, <2>2 DEF Target, Working
    <2> QED
        BY <2>3
<1>2. CASE CallOnFreed
    <2>1. CASE ui.step \in Call
        <3>1. Working /\ ui.rec = recorder
            BY <2>1 DEF Cooperation
        <3>2. recorder \in Recorders
            BY <3>1 DEF AgentInv, TypeOK, Pointer, Working
        <3>3. life[recorder] = "live"
            BY <3>2 DEF AgentInv, RecorderInv, Current
        <3>4. FALSE
            BY <1>2, <3>1, <3>3 DEF CallOnFreed, Target
        <3> QED
            BY <3>4
    <2>2. CASE ui.step \notin Call
        <3>1. /\ ui.step = "stopped" /\ ui'.step = "idle" /\ ending' # "null"
              /\ UNCHANGED <<recorder, phase, tasks, notices, posted, client, asking>>
            BY <1>2, <2>2 DEF CallOnFreed
        <3>2. Working' = Working /\ Over' = Over /\ Orderly(posted)'
            BY <3>1 DEF Working, Over, Cooperation, Orderly, HasClosed
        <3>3. ui'.step \notin Call \cup {"hook", "stopping", "call stop"}
            BY <3>1 DEF Call
        <3> QED
            BY <3>1, <3>2, <3>3 DEF Cooperation, HasClosed
    <2> QED
        BY <2>1, <2>2
<1>3. CASE StopEncoder
    <2>1. /\ ui.step = "stopping" /\ ui'.step = "stopped"
          /\ UNCHANGED <<client, asking, recorder, ending, phase, notices, posted>>
        BY <1>3 DEF StopEncoder
    <2>2. posted = <<>> /\ HasClosed /\ Working /\ ~Over
        BY <2>1, StageIsOne DEF Cooperation
    <2>3. Orderly(posted)' /\ posted' = <<>>
        BY <2>1, <2>2 DEF Orderly
    <2>4. ui'.step \notin Call \cup {"hook", "stopping", "call stop"}
        BY <2>1 DEF Call
    <2>5. client' \in {"stopping", "leaving"} /\ asking' # "START"
        BY <2>1, <2>2 DEF HasClosed, Cooperation
    <2>6. client' = "stopping" => notices' = <<>>
        BY <2>1, <2>2 DEF Cooperation
    <2> QED
        BY <2>1, <2>3, <2>4, <2>5, <2>6 DEF Cooperation
<1>4. ASSUME NEW p \in Recorders, StopRecorder(p) PROVE Cooperation'
    <2>1. /\ ui.step = "call stop"
          /\ UNCHANGED <<client, asking, recorder, ending, phase, tasks, notices, posted>>
          /\ ui'.step = "idle" \/ ui'.step = "stopping"
        <3>1. ui' = [step |-> "idle", rec |-> nullptr] \/ ui' = [step |-> "stopping", rec |-> p]
            BY <1>4 DEF StopRecorder
        <3>2. ui'.step = "idle" \/ ui'.step = "stopping"
            BY <3>1
        <3> QED
            BY <1>4, <3>2 DEF StopRecorder
    <2>2. CASE ui'.step = "idle"
        BY <2>1, <2>2, CallOver DEF Call
    <2>3. CASE ui'.step = "stopping"
        <3>1. posted = <<>> /\ HasClosed /\ Working
            BY <2>1 DEF Cooperation, Call
        <3>2. Working' /\ Over' = Over /\ HasClosed'
            BY <2>1, <3>1 DEF Working, Over, HasClosed
        <3>4. Orderly(posted)'
            BY <2>1 DEF Cooperation, Orderly, HasClosed
        <3>3. client # "idle" /\ asking # "START" /\ ui'.step \notin Call
            BY <2>3, <3>1 DEF HasClosed, Cooperation, Call
        <3> QED
            BY <2>1, <2>3, <3>1, <3>2, <3>3, <3>4 DEF Cooperation
    <2> QED
        BY <2>1, <2>2, <2>3
<1>5. ASSUME NEW p \in Recorders, KeepAlive(p) \/ PauseRecorder(p) \/ ResumeRecorder(p) PROVE Cooperation'
    <2>1. /\ ui.step \in Call \cup {"stopped"} /\ ui'.step = "idle"
          /\ UNCHANGED <<client, asking, recorder, ending, phase, tasks, notices, posted>>
        <3>1. /\ ui.step \in {"call keepAlive", "stopped", "call pause", "call resume"}
              /\ ui' = [step |-> "idle", rec |-> nullptr]
              /\ UNCHANGED <<client, asking, recorder, ending, phase, tasks, notices, posted>>
            BY <1>5 DEF KeepAlive, PauseRecorder, ResumeRecorder
        <3> QED
            BY <3>1 DEF Call
    <2> QED
        BY <2>1, CallOver
<1> QED
    BY <1>1, <1>2, <1>3, <1>4, <1>5

LEMMA EncoderCooperates == Calm /\ EncoderThread => Cooperation'
<1> SUFFICES ASSUME Calm, NEW r \in Recorders, EncoderWorks(r) \/ EncoderFails(r) PROVE Cooperation'
    BY DEF EncoderThread
<1> USE DEF Calm, clientside, messages, window, objects, lower, encoders, disposal, EncoderAt, Enter
<1>a. /\ r # nullptr /\ RecorderInv(r) /\ phase \in [Recorders -> Phase]
      /\ tasks \in [Recorders -> Seq({"START", "STOP"})] /\ errors \in Nat
    BY StageIsOne, AgentAssumption DEF AgentInv, TypeOK
<1>b. phase[r] \notin {"idle", "forgotten", "done"} => recorder = r
    BY <1>a DEF RecorderInv, AtRest
<1>c. tasks[r] # <<>> => recorder = r
    BY <1>a DEF RecorderInv, AtRest
\* A step of an encoder whose recorder is neither working nor becomes so.
<1>d. ASSUME UNCHANGED <<client, asking, posted, ui>>, ending' # "null",
             ~Working, Over => Over', ~Over => notices = <<>> \/ client = "leaving",
             notices' = notices \/ (Over' /\ ~Over /\ notices' = Append(notices, "COMPLETED"))
      PROVE  Cooperation'
    <2>1. posted = <<>> /\ ui.step \notin Call \cup {"hook", "stopping", "call stop"}
        BY <1>d DEF Cooperation, Call
    <2>2. Orderly(posted)'
        <3>1. posted' = <<>>
            BY <1>d, <2>1
        <3> QED
            BY <3>1 DEF Orderly
    <2>3. client \in {"idle", "stopping", "leaving"} /\ (client = "idle" => Over /\ Over')
        BY <1>d, <2>1 DEF Cooperation, AgentInv, TypeOK
    <2>4. client = "stopping" => notices' = <<>> \/ (Len(notices') = 1 /\ Over')
        BY <1>d, OneNotice DEF Cooperation
    <2>5. client = "idle" => notices' = <<>>
        BY <1>d, <2>3 DEF Cooperation
    <2> QED
        BY <1>d, <2>1, <2>2, <2>3, <2>4, <2>5 DEF Cooperation
<1>1. CASE DoStart(r)
    <2>1. /\ phase[r] = "idle" /\ tasks[r] # <<>> /\ phase' = [phase EXCEPT ![r] = "recording"]
          /\ tasks' = [tasks EXCEPT ![r] = Tail(@)]
          /\ UNCHANGED <<client, asking, recorder, ending, ui, notices, posted>>
        BY <1>1 DEF DoStart, TakeTask
    <2>2. recorder = r
        BY <1>c, <2>1
    <2>3. Working => tasks[r] = <<"START">>
        BY <2>1, <2>2 DEF Working
    <2>4. Working => Working'
        BY <1>a, <2>1, <2>2, <2>3, TaskFacts DEF Working
    <2>5. ~Over
        BY <1>a, <2>1, <2>2 DEF Over
    <2>6. Orderly(posted)'
        BY <2>1 DEF Cooperation, Orderly, HasClosed
    <2> QED
        BY <2>1, <2>4, <2>5, <2>6 DEF Cooperation, HasClosed
<1>2. CASE DoStop(r)
    <2>1. /\ phase[r] \in {"recording", "broken"} /\ tasks[r] # <<>> /\ Head(tasks[r]) = "STOP"
          /\ UNCHANGED <<client, asking, recorder, ending, ui, notices, posted>>
        BY <1>2 DEF DoStop, TakeTask
    <2>2. recorder = r
        BY <1>c, <2>1
    <2>3. ~Over /\ ~Working
        BY <1>a, <2>1, <2>2, TaskFacts DEF Over, Working
    <2>4. notices = <<>> \/ client = "leaving"
        BY <2>3 DEF Cooperation, AgentInv, TypeOK
    <2> QED
        BY <1>d, <2>1, <2>3, <2>4 DEF Cooperation
<1>3. CASE CloseFile(r)
    <2>1. /\ phase[r] = "draining"
          /\ UNCHANGED <<client, asking, recorder, ending, ui, notices, posted>>
        BY <1>3 DEF CloseFile
    <2>2. recorder = r
        BY <1>b, <2>1
    <2>3. ~Over /\ ~Working
        BY <1>a, <2>1, <2>2 DEF Over, Working
    <2>4. notices = <<>> \/ client = "leaving"
        BY <2>3 DEF Cooperation, AgentInv, TypeOK
    <2> QED
        BY <1>d, <2>1, <2>3, <2>4 DEF Cooperation
<1>4. CASE PostCompleted(r)
    <2>1. /\ phase[r] = "saved" /\ phase' = [phase EXCEPT ![r] = "told"]
          /\ notices' = Append(notices, "COMPLETED")
          /\ UNCHANGED <<client, asking, recorder, ending, ui, posted>>
        BY <1>4 DEF PostCompleted, SendCompleted
    <2>2. recorder = r
        BY <1>b, <2>1
    <2>3. ~Over /\ ~Working /\ Over'
        BY <1>a, <2>1, <2>2 DEF Over, Working
    <2>4. notices = <<>> \/ client = "leaving"
        BY <2>3 DEF Cooperation, AgentInv, TypeOK
    <2> QED
        BY <1>d, <2>1, <2>3, <2>4 DEF Cooperation
<1>5. CASE ClearCallbacks(r) \/ GiveToWorker(r)
    <2>1. /\ phase[r] \in {"told", "unhooked"}
          /\ phase' = [phase EXCEPT ![r] = "unhooked"] \/ phase' = [phase EXCEPT ![r] = "given"]
          /\ UNCHANGED <<client, asking, recorder, ending, ui, notices, posted>>
        BY <1>5 DEF ClearCallbacks, GiveToWorker
    <2>2. recorder = r
        BY <1>b, <2>1
    <2>3. Over /\ ~Working /\ Over'
        BY <1>a, <2>1, <2>2 DEF Over, Working
    <2> QED
        BY <1>d, <2>1, <2>3 DEF Cooperation
<1>6. CASE ForgetRecorder(r)
    <2>1. /\ phase[r] = "given" /\ recorder' = nullptr
          /\ UNCHANGED <<client, asking, ending, ui, notices, posted>>
        BY <1>6 DEF ForgetRecorder
    <2>2. recorder = r
        BY <1>b, <2>1
    <2>3. Over /\ ~Working /\ Over'
        BY <1>a, <2>1, <2>2 DEF Over, Working
    <2> QED
        BY <1>d, <2>1, <2>3 DEF Cooperation
<1>7. CASE CloseIfTerminated(r)
    <2>1. /\ phase[r] = "forgotten" /\ phase' = [phase EXCEPT ![r] = "done"]
          /\ ending' \in {ending, "closed"}
          /\ UNCHANGED <<client, asking, recorder, ui, tasks, notices, posted>>
        BY <1>7 DEF CloseIfTerminated
    <2>2. recorder # r /\ phase'[recorder] = phase[recorder]
        BY <1>a, <2>1 DEF RecorderInv, Current
    <2>3. Working' = Working /\ Over' = Over /\ Orderly(posted)'
        BY <2>1, <2>2 DEF Working, Over, Cooperation, Orderly, HasClosed
    <2> QED
        BY <2>1, <2>3 DEF Cooperation, HasClosed
<1>8. CASE EncoderFails(r)
    <2>1. errors' = errors + 1
        BY <1>8 DEF EncoderFails, WriteFails, PingTimeout, EncodingFails, ReportError
    <2>2. FALSE
        BY <1>a, <2>1
    <2> QED
        BY <2>2
<1> QED
    BY <1>1, <1>2, <1>3, <1>4, <1>5, <1>6, <1>7, <1>8 DEF EncoderWorks

LEMMA NextKeepsCooperation == AgentInv /\ AgentInv' /\ CooperationInv /\ [Next]_vars => CooperationInv'
<1> SUFFICES ASSUME AgentInv, AgentInv', CooperationInv, [Next]_vars, Patient, errors' = 0
             PROVE  Cooperation'
    BY DEF CooperationInv
<1> USE DEF clientside, messages, window, objects, lower, encoders, disposal
<1>1. errors \in Nat /\ (errors' = errors \/ errors' = errors + 1)
    <2>1. ParseOptions => errors' = errors \/ errors' = errors + 1
        BY DEF ParseOptions
    <2>2. errors \in Nat
        BY AgentAssumption DEF AgentInv, TypeOK
    <2> QED
        BY <2>1, <2>2 DEF Next, vars, ClientThread, ClientStart, ClientPost, ClientRead, UIThread,
           StartRefused, StartRecorder, CreateRecorder, StartFails, CreateAndGiveAway, SetCallbacks,
           HandleMessage, HandleTerminate, TakeMessage, CallOnNull, CallOnFreed, StopEncoder,
           StopRecorder, KeepAlive, PauseRecorder, ResumeRecorder, EncoderWorks, DoStart, DoStop,
           TakeTask, CloseFile, PostCompleted, SendCompleted, ClearCallbacks, GiveToWorker,
           ForgetRecorder, CloseIfTerminated, EncoderFails, WriteFails, PingTimeout, EncodingFails,
           ReportError, WorkerThread, TakeRecorder, DeleteRecorder, FreeRecorder
<1>2. Calm
    BY <1>1 DEF Calm, CooperationInv
<1>3. CASE UNCHANGED vars \/ WorkerThread
    <2>1. UNCHANGED <<client, asking, recorder, ending, phase, tasks, ui, notices, posted>>
        BY <1>3 DEF vars, WorkerThread, TakeRecorder, DeleteRecorder, FreeRecorder
    <2>2. Working' = Working /\ Over' = Over /\ Orderly(posted)'
        BY <1>2, <2>1 DEF Working, Over, Calm, Cooperation, Orderly, HasClosed
    <2> QED
        BY <1>2, <2>1, <2>2 DEF Calm, Cooperation, HasClosed
<1> QED
    BY <1>2, <1>3, ClientCooperates, StartCooperates, MessageCooperates, CallCooperates,
       EncoderCooperates DEF Next, UIThread, EncoderThread

\* A main program that keeps to the order of the protocol never makes the agent
\* call through a null recorder_ unless an error was reported before: until then
\* whatever it posted finds the recorder working, for on_completed_ clears
\* recorder_ only after a STOP or TERMINATE, and nothing is posted after that.
THEOREM NullCallNeedsError == Spec => []NullOnlyAfterError
<1>1. Init => CooperationInv
    <2> SUFFICES ASSUME Init PROVE Cooperation
        BY DEF CooperationInv
    <2>1. Orderly(posted)
        BY EmptySeq DEF Init, Orderly
    <2> QED
        BY <2>1 DEF Init, Cooperation, Over, Call
<1>2. AgentInv /\ CooperationInv => NullOnlyAfterError
    BY AgentAssumption DEF AgentInv, TypeOK, CooperationInv, Cooperation, NullOnlyAfterError
<1> QED
    BY <1>1, <1>2, NextKeepsCooperation, AgentInvariant, PTL DEF Spec

===============================================================================
