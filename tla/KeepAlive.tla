------------------------------- MODULE KeepAlive -------------------------------
(***************************************************************************)
(* The watch on the main program (DesktopRecorder.hpp): every message, a   *)
(* ping among them, calls keepAlive() on the UI thread; the encoder thread *)
(* calls check_idle_count() before each packet and each bitmap, adds up    *)
(* the time since and reports ERROR_PING_TIMEOUT.  The two threads share   *)
(* old_tick_, a plain DWORD, and idle_count_ms_, an atomic int.  Ticks are *)
(* as wide as the ints.                                                    *)
(***************************************************************************)
EXTENDS Integers

CONSTANTS
    RANGE,      \* number of values of a DWORD or an int
    TimeOuts,   \* values of the option timeout, in ticks
    PollGap     \* ticks the encoder thread lets pass, at most, between polls

ASSUME KeepAliveAssumption ==
    /\ RANGE \in Nat \ {0}
    /\ TimeOuts \subseteq Int
    /\ PollGap \in Nat \ {0}

VARIABLES
    timeout,    \* StartOption: the limit, none if it is not positive
    now,        \* GetTickCount()
    old_tick,   \* old_tick_
    idle_count, \* idle_count_ms_
    keeping,    \* the UI thread: in keepAlive(), between its two stores?
    check,      \* the encoder thread in check_idle_count(): its step, the tick
                \* it took and the old_tick_ it compared
    gap,        \* ticks since the encoder thread took one
    reported,   \* ERROR_PING_TIMEOUT since the last message
    silence,    \* history: ticks since the last message, up to timeout + 1
    before,     \* history: the silence that the last message ended
    torn        \* history: the count has, or may get, the difference to a tick
                \* that a message has taken back since the comparison

history == <<silence, before, torn>>
keepVars == <<timeout, now, old_tick, idle_count, keeping, check, gap, reported, history>>

Tick == 0 .. RANGE - 1
ToInt(n) == LET m == n % RANGE IN IF m < RANGE \div 2 THEN m ELSE m - RANGE

NoCheck == [step |-> "idle", tick |-> 0, old |-> 0]

KeepInit ==
    /\ timeout \in TimeOuts
    /\ now \in Tick
    /\ old_tick = 0
    /\ idle_count = 0
    /\ keeping = "idle"
    /\ check = NoCheck
    /\ gap = 0
    /\ reported = FALSE
    /\ silence = 0
    /\ before = 0
    /\ torn = FALSE

At(step) == check.step = step
Go(step) == check' = [check EXCEPT !.step = step]
-------------------------------------------------------------------------------
(* Time passes; the encoder thread is not held up for longer than PollGap. *)

TimePasses ==
    /\ gap < PollGap
    /\ now' = (now + 1) % RANGE
    /\ gap' = gap + 1
    /\ silence' = IF silence > timeout THEN silence ELSE silence + 1
    /\ UNCHANGED <<timeout, old_tick, idle_count, keeping, check, reported, before, torn>>
-------------------------------------------------------------------------------
(* keepAlive(): two stores                                                 *)

ForgetTick ==
    /\ keeping = "idle"
    /\ keeping' = "store"
    /\ old_tick' = 0
    /\ reported' = FALSE
    /\ silence' = 0
    /\ before' = silence
    /\ torn' = (torn \/ At("sum"))
    /\ UNCHANGED <<timeout, now, idle_count, check, gap>>

\* mutant: the count is kept
KeepCount ==
    /\ keeping = "store"
    /\ keeping' = "idle"
    /\ torn' = (torn /\ At("sum"))
    /\ UNCHANGED <<timeout, now, old_tick, idle_count, check, gap, reported, silence, before>>

ForgetCount ==
    /\ keeping = "store"
    /\ keeping' = "idle"
    /\ idle_count' = 0
    /\ torn' = (torn /\ At("sum"))
    /\ UNCHANGED <<timeout, now, old_tick, check, gap, reported, silence, before>>

CallKeepAlive == ForgetTick \/ ForgetCount
-------------------------------------------------------------------------------
(* check_idle_count()                                                      *)

CheckDisabled ==
    /\ timeout <= 0
    /\ At("idle")
    /\ old_tick' = 0
    /\ idle_count' = 0
    /\ gap' = 0
    /\ UNCHANGED <<timeout, now, keeping, check, reported, history>>

TakeTick ==
    /\ timeout > 0
    /\ At("idle")
    /\ check' = [step |-> "compare", tick |-> now, old |-> 0]
    /\ gap' = 0
    /\ UNCHANGED <<timeout, now, old_tick, idle_count, keeping, reported, history>>

\* Nothing to compare with, or the clock wrapped around: count from here.
CompareOld ==
    /\ At("compare")
    /\ check' = IF old_tick = 0 \/ check.tick < old_tick
                THEN [check EXCEPT !.step = "restart"]
                ELSE [check EXCEPT !.step = "sum", !.old = old_tick]
    /\ UNCHANGED <<timeout, now, old_tick, idle_count, keeping, gap, reported, history>>

\* The difference is taken to the value compared, or to old_tick_ read again.
SumIdle ==
    /\ At("sum")
    /\ Go("judge")
    /\ \E old \in {check.old, old_tick} :
        idle_count' = ToInt(idle_count + check.tick - old)
    /\ UNCHANGED <<timeout, now, old_tick, keeping, gap, reported, history>>

Judge ==
    /\ At("judge")
    /\ Go("save")
    /\ reported' = (reported \/ idle_count > timeout)
    /\ UNCHANGED <<timeout, now, old_tick, idle_count, keeping, gap, history>>

\* mutant: the tick is forgotten instead of saved
SaveNoTick ==
    /\ At("save") \/ At("restart")
    /\ check' = NoCheck
    /\ old_tick' = 0
    /\ UNCHANGED <<timeout, now, idle_count, keeping, gap, reported, history>>

SaveTick ==
    /\ At("save") \/ At("restart")
    /\ check' = NoCheck
    /\ old_tick' = check.tick
    /\ UNCHANGED <<timeout, now, idle_count, keeping, gap, reported, history>>

CheckIdleCount ==
    \/ CheckDisabled
    \/ TakeTick
    \/ CompareOld
    \/ SumIdle
    \/ Judge
    \/ SaveTick
-------------------------------------------------------------------------------
KeepNext == TimePasses \/ CallKeepAlive \/ CheckIdleCount

KeepSpec == KeepInit /\ [][KeepNext]_keepVars

\* Time passes, keepAlive() returns, the encoder polls.  Nobody has to ping.
KeepFairSpec ==
    /\ KeepSpec
    /\ WF_keepVars(TimePasses)
    /\ WF_keepVars(ForgetCount)
    /\ WF_keepVars(CheckIdleCount)
-------------------------------------------------------------------------------
(* Properties                                                              *)

Alarm == ~reported /\ reported'

\* A timeout is reported only when the main program was silent for longer than
\* the limit, give or take one poll.  What was counted before a message still
\* counts while keepAlive() is between its two stores.
LongSilence ==
    \/ silence + PollGap > timeout
    \/ keeping = "store" /\ before + silence + PollGap > timeout

\* A main program that sends messages in time is not reported (protocol
\* README:198), with one exception: a message that comes between the comparison
\* and the sum makes the code add the whole time since the machine was started.
\* That is the only way to a false alarm, whatever else the two threads do
\* between each other's loads and stores, and also where the ticks wrap around.
FalseAlarmOnlyTorn == [][Alarm => torn \/ LongSilence]_keepVars

\* A main program that is gone is noticed, also where ticks or the count wrap
\* around and after a false start of the count.
SilenceIsReported ==
    timeout > 0 /\ silence > timeout ~> reported \/ silence <= timeout

===============================================================================
