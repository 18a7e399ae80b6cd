------------------------------ MODULE Lv2Timer ------------------------------
(***************************************************************************)
(* sys_timer.cpp: the timers (lv2_timer), the thread that fires them       *)
(* (lv2_timer_thread) and the system calls on them.                        *)
(*                                                                         *)
(* Guest time is a counter that stays below the greatest u64; the times    *)
(* computed from it saturate there.  A timer fires by                      *)
(* lv2_event_queue::send; here the sends are counted.  Each call reads the *)
(* clock first and then works on the timer under lv2_timer::mutex, in one  *)
(* step; the timer thread reads the clock once for all timers, looks at    *)
(* each timer without the mutex and takes it only for a timer that has     *)
(* expired.                                                                *)
(***************************************************************************)
EXTENDS Naturals, FiniteSets

CONSTANTS Timers,   \* lv2_timer objects
          Users,    \* the threads that call
          Calls,    \* the calls each of them makes
          Starts,   \* the <<base_time, period>> passed to _sys_timer_start
          MinPeriod,\* the least period of a periodic timer (100)
          umax,     \* the greatest u64
          MaxTime   \* bound: the clock

ASSUME TimerAssumption ==
    /\ umax \in Nat
    /\ Starts \subseteq (0..umax) \X (0..umax)
    /\ MinPeriod \in 1..umax
    /\ MaxTime \in Nat /\ MaxTime < umax

VARIABLES now,                               \* get_guest_system_time()
          state, expire, period, port,       \* lv2_timer
          exists, timers,                    \* its ID, lv2_timer_thread::timers
          tpc, tnow, todo, sleep_time, wake, \* lv2_timer_thread::operator()
          notified,                          \* its pending notification
          pc, unow, arg,                     \* the calls: operation, clock, timer
          first, sent,                       \* history: the first expiration of the
                                             \* present start, and the sends since
          overtaken                          \* history: see Check

timerVars == <<state, expire, period, port>>
listVars == <<exists, timers>>
threadVars == <<tpc, tnow, todo, sleep_time, wake>>
userVars == <<pc, unow, arg>>
historyVars == <<first, sent, overtaken>>
vars == <<now, timerVars, listVars, threadVars, notified, userVars, historyVars>>

\* The end of a sleep of umax, later than that of any other.
Never == 2 * umax

Operations == {"create", "destroy", "information", "start", "stop", "connect", "disconnect"}

TypeOK ==
    /\ now \in 0..MaxTime
    /\ state \in [Timers -> {"STOP", "RUN"}]
    /\ expire \in [Timers -> 0..umax]
    /\ period \in [Timers -> 0..umax]
    /\ port \in [Timers -> {"none", "alive", "dead"}]
    /\ exists \in [Timers -> BOOLEAN]
    /\ timers \subseteq Timers
    /\ tpc \in {"wait", "scan"} \cup Timers
    /\ tnow \in 0..now
    /\ todo \subseteq timers
    /\ sleep_time \in 1..umax
    /\ wake \in 0..Never
    /\ notified \in BOOLEAN
    /\ pc \in [Users -> Operations \cup {"user", "list", "unlist", "notify"}]
    /\ \A u \in Users : unow[u] \in 0..now
    /\ arg \in [Users -> Timers]

Init ==
    /\ now = 0
    /\ state = [tm \in Timers |-> "STOP"]
    /\ expire = [tm \in Timers |-> 0]
    /\ period = [tm \in Timers |-> 0]
    /\ port = [tm \in Timers |-> "none"]
    /\ exists = [tm \in Timers |-> FALSE]
    /\ timers = {}
    /\ tpc = "wait"
    /\ tnow = 0
    /\ todo = {}
    /\ sleep_time = umax
    /\ wake = 0
    /\ notified = FALSE
    /\ pc = [u \in Users |-> "user"]
    /\ unow = [u \in Users |-> 0]
    /\ arg \in [Users -> Timers]
    /\ first = [tm \in Timers |-> 0]
    /\ sent = [tm \in Timers |-> 0]
    /\ overtaken = [tm \in Timers |-> FALSE]

-----------------------------------------------------------------------------
\* utils::add_saturate<u64>
AddSaturate(x, y) == IF umax - x < y THEN umax ELSE x + y

-----------------------------------------------------------------------------
\* check_unlocked()

Expired(tm, time) == time >= expire[tm] /\ state[tm] = "RUN"

StateAfter_Mutant(tm, time) ==
    state[tm]

\* The timer after it: a periodic one gets its next expiration time, a oneshot
\* one stops.
StateAfter(tm, time) ==
    IF Expired(tm, time) /\ period[tm] = 0 THEN "STOP" ELSE state[tm]

ExpireAfter(tm, time) ==
    IF Expired(tm, time) /\ period[tm] # 0 THEN AddSaturate(expire[tm], period[tm]) ELSE expire[tm]

SentAfter(tm, time) ==
    IF Expired(tm, time) /\ port[tm] # "none" THEN sent[tm] + 1 ELSE sent[tm]

\* A call does check_unlocked() and leaves the timer in state to.  The timer
\* thread is overtaken if it has seen the timer expired and waits for the mutex.
Check(tm, time, to) ==
    /\ state' = [state EXCEPT ![tm] = to]
    /\ expire' = [expire EXCEPT ![tm] = ExpireAfter(tm, time)]
    /\ sent' = [sent EXCEPT ![tm] = SentAfter(tm, time)]
    /\ overtaken' = [overtaken EXCEPT ![tm] = @ \/ (tpc = tm /\ ExpireAfter(tm, time) > tnow)]

-----------------------------------------------------------------------------
\* The calls

\* The clock is read.
Call(u, op, tm) ==
    /\ pc[u] = "user"
    /\ op \in Calls[u]
    /\ op = "create" => /\ ~exists[tm] /\ tm \notin timers
                        /\ \A v \in Users : pc[v] = "user" \/ arg[v] # tm
    /\ op # "create" => exists[tm]
    /\ pc' = [pc EXCEPT ![u] = op]
    /\ unow' = [unow EXCEPT ![u] = now]
    /\ arg' = [arg EXCEPT ![u] = tm]
    /\ UNCHANGED <<now, timerVars, listVars, threadVars, notified, historyVars>>

\* The call op of u is at the timer it is about.
At(u, op, tm) == pc[u] = op /\ arg[u] = tm

Return(u) ==
    /\ pc' = [pc EXCEPT ![u] = "user"]
    /\ unow' = [unow EXCEPT ![u] = 0]
    /\ UNCHANGED arg

\* ESRCH
NotFound(u, tm) ==
    /\ pc[u] \in Operations \ {"create"} /\ arg[u] = tm
    /\ ~exists[tm]
    /\ Return(u)
    /\ UNCHANGED <<now, timerVars, listVars, threadVars, notified, historyVars>>

\* sys_timer_create: the object is made, then listed under the mutex of the thread.
Create(u, tm) ==
    /\ At(u, "create", tm)
    /\ ~exists[tm]
    /\ exists' = [exists EXCEPT ![tm] = TRUE]
    /\ state' = [state EXCEPT ![tm] = "STOP"]
    /\ expire' = [expire EXCEPT ![tm] = 0]
    /\ period' = [period EXCEPT ![tm] = 0]
    /\ port' = [port EXCEPT ![tm] = "none"]
    /\ first' = [first EXCEPT ![tm] = 0]
    /\ sent' = [sent EXCEPT ![tm] = 0]
    /\ pc' = [pc EXCEPT ![u] = "list"]
    /\ UNCHANGED <<now, timers, threadVars, notified, unow, arg, overtaken>>

List(u, tm) ==
    /\ At(u, "list", tm)
    /\ tpc = "wait"
    /\ timers' = timers \cup {tm}
    /\ Return(u)
    /\ UNCHANGED <<now, timerVars, exists, threadVars, notified, historyVars>>

\* sys_timer_destroy: EISCONN while it is connected to a queue that exists.
Destroy(u, tm) ==
    /\ At(u, "destroy", tm)
    /\ exists[tm]
    /\ \/ /\ port[tm] = "alive"
          /\ Return(u)
          /\ UNCHANGED exists
       \/ /\ port[tm] # "alive"
          /\ exists' = [exists EXCEPT ![tm] = FALSE]
          /\ pc' = [pc EXCEPT ![u] = "unlist"]
          /\ UNCHANGED <<unow, arg>>
    /\ UNCHANGED <<now, timerVars, timers, threadVars, notified, historyVars>>

Unlist(u, tm) ==
    /\ At(u, "unlist", tm)
    /\ tpc = "wait"
    /\ timers' = timers \ {tm}
    /\ Return(u)
    /\ UNCHANGED <<now, timerVars, exists, threadVars, notified, historyVars>>

Information(u, tm) ==
    /\ At(u, "information", tm)
    /\ exists[tm]
    /\ Check(tm, unow[u], StateAfter(tm, unow[u]))
    /\ Return(u)
    /\ UNCHANGED <<now, period, port, listVars, threadVars, notified, first>>

FirstExpire_Mutant(base, start, per) ==
    IF per = 0 THEN base
    ELSE IF base = 0 THEN AddSaturate(start, per)
    ELSE IF start < AddSaturate(base, per) THEN AddSaturate(base, per)
    ELSE AddSaturate(start - (start % per), base % per)

\* The expiration time of a timer that is started at time start.
FirstExpire(base, start, per) ==
    IF per = 0 THEN base
    ELSE IF base = 0 THEN AddSaturate(start, per)
    ELSE IF start < AddSaturate(base, per) THEN AddSaturate(base, per)
    ELSE LET aligned == AddSaturate(start - (start % per), base % per)
         IN  AddSaturate(aligned, IF aligned < start THEN per ELSE 0)

\* _sys_timer_start: EINVAL, before the timer is looked up.
BadPeriod(u, tm, per) ==
    /\ At(u, "start", tm)
    /\ per # 0 /\ per < MinPeriod
    /\ Return(u)
    /\ UNCHANGED <<now, timerVars, listVars, threadVars, notified, historyVars>>

\* _sys_timer_start: ENOTCONN, EBUSY, ETIMEDOUT or a start.
Start(u, tm, base, per) ==
    /\ At(u, "start", tm)
    /\ per = 0 \/ per >= MinPeriod
    /\ exists[tm]
    /\ LET start == unow[u]
           invalid == per = 0 /\ start >= base
       IN  \/ /\ port[tm] = "none"
              /\ Return(u)
              /\ UNCHANGED <<timerVars, historyVars>>
           \/ /\ port[tm] # "none"
              /\ StateAfter(tm, start) = "RUN" \/ invalid
              /\ Check(tm, start, StateAfter(tm, start))
              /\ Return(u)
              /\ UNCHANGED <<period, port, first>>
           \/ /\ port[tm] # "none"
              /\ StateAfter(tm, start) = "STOP"
              /\ ~invalid
              /\ expire' = [expire EXCEPT ![tm] = FirstExpire(base, start, per)]
              /\ period' = [period EXCEPT ![tm] = per]
              /\ state' = [state EXCEPT ![tm] = "RUN"]
              /\ first' = [first EXCEPT ![tm] = FirstExpire(base, start, per)]
              /\ sent' = [sent EXCEPT ![tm] = 0]
              /\ pc' = [pc EXCEPT ![u] = "notify"]
              /\ UNCHANGED <<port, overtaken, unow, arg>>
    /\ UNCHANGED <<now, listVars, threadVars, notified>>

Notify_Mutant(u, tm) ==
    /\ At(u, "notify", tm)
    /\ notified' = (notified \/ tpc = "wait")
    /\ Return(u)
    /\ UNCHANGED <<now, timerVars, listVars, threadVars, historyVars>>

\* It goes on without the mutex: the timer thread is notified.
Notify(u, tm) ==
    /\ At(u, "notify", tm)
    /\ notified' = TRUE
    /\ Return(u)
    /\ UNCHANGED <<now, timerVars, listVars, threadVars, historyVars>>

Stop(u, tm) ==
    /\ At(u, "stop", tm)
    /\ exists[tm]
    /\ Check(tm, unow[u], "STOP")
    /\ Return(u)
    /\ UNCHANGED <<now, period, port, listVars, threadVars, notified, first>>

\* sys_timer_connect_event_queue: EISCONN, or a new connection.
Connect(u, tm) ==
    /\ At(u, "connect", tm)
    /\ exists[tm]
    /\ port' = [port EXCEPT ![tm] = "alive"]
    /\ Return(u)
    /\ UNCHANGED <<now, state, expire, period, listVars, threadVars, notified, historyVars>>

\* sys_timer_disconnect_event_queue: ENOTCONN leaves a port to a dead queue.
Disconnect(u, tm) ==
    /\ At(u, "disconnect", tm)
    /\ exists[tm]
    /\ Check(tm, unow[u], "STOP")
    /\ port' = [port EXCEPT ![tm] = IF @ = "alive" THEN "none" ELSE @]
    /\ Return(u)
    /\ UNCHANGED <<now, period, listVars, threadVars, notified, first>>

-----------------------------------------------------------------------------
\* lv2_timer_thread::operator()

\* wait_for() ends, by time or by notification.  Time goes on after MaxTime.
Wake ==
    /\ tpc = "wait"
    /\ \/ notified
       \/ wake <= now
       \/ wake # Never /\ now = MaxTime
    /\ notified' = FALSE
    /\ wake' = 0
    /\ tnow' = now
    /\ todo' = timers
    /\ sleep_time' = umax
    /\ tpc' = "scan"
    /\ UNCHANGED <<now, timerVars, listVars, userVars, historyVars>>

\* The shortest advised_sleep_time.
Advise(time) == sleep_time' = IF time < sleep_time THEN time ELSE sleep_time

\* check() without the mutex.
Look(tm) ==
    /\ tpc = "scan"
    /\ tm \in todo
    /\ overtaken' = [overtaken EXCEPT ![tm] = FALSE]
    /\ \/ /\ exists[tm] => state[tm] = "STOP"
          /\ todo' = todo \ {tm}
          /\ UNCHANGED <<sleep_time, tpc>>
       \/ /\ exists[tm] /\ state[tm] = "RUN" /\ tnow < expire[tm]
          /\ todo' = todo \ {tm}
          /\ Advise(expire[tm] - tnow)
          /\ UNCHANGED tpc
       \/ /\ exists[tm] /\ Expired(tm, tnow)
          /\ tpc' = tm
          /\ UNCHANGED <<sleep_time, todo>>
    /\ UNCHANGED <<now, timerVars, listVars, tnow, wake, notified, userVars, first, sent>>

\* check() goes on with the mutex: check_unlocked() advises a sleep until the next
\* expiration, or none; the timer is looked at again if that is over as well.
Fire(tm) ==
    /\ tpc = tm
    /\ LET next == ExpireAfter(tm, tnow) IN
       \/ /\ Expired(tm, tnow) /\ period[tm] # 0
          /\ todo' = IF next > tnow THEN todo \ {tm} ELSE todo
          /\ IF next > tnow THEN Advise(next - tnow) ELSE UNCHANGED sleep_time
       \/ /\ ~(Expired(tm, tnow) /\ period[tm] # 0)
          /\ todo' = todo \ {tm}
          /\ UNCHANGED sleep_time
    /\ tpc' = "scan"
    /\ state' = [state EXCEPT ![tm] = StateAfter(tm, tnow)]
    /\ expire' = [expire EXCEPT ![tm] = ExpireAfter(tm, tnow)]
    /\ sent' = [sent EXCEPT ![tm] = SentAfter(tm, tnow)]
    /\ UNCHANGED <<now, period, port, listVars, tnow, wake, notified, userVars, first, overtaken>>

\* All timers were looked at: wait_for(sleep_time).
Wait ==
    /\ tpc = "scan"
    /\ todo = {}
    /\ tpc' = "wait"
    /\ wake' = IF sleep_time = umax THEN Never ELSE now + sleep_time
    /\ tnow' = 0
    /\ sleep_time' = umax
    /\ UNCHANGED <<now, timerVars, listVars, todo, notified, userVars, historyVars>>

-----------------------------------------------------------------------------
\* get_guest_system_time() advances.
Tick ==
    /\ now < MaxTime
    /\ now' = now + 1
    /\ UNCHANGED <<timerVars, listVars, threadVars, notified, userVars, historyVars>>

\* The guest destroys the event queue of tm.
QueueDestroy(tm) ==
    /\ port[tm] = "alive"
    /\ port' = [port EXCEPT ![tm] = "dead"]
    /\ UNCHANGED <<now, state, expire, period, listVars, threadVars, notified, userVars, historyVars>>

TimerThread == Wake \/ Wait \/ \E tm \in Timers : Look(tm) \/ Fire(tm)

Perform(u, tm) ==
    \/ NotFound(u, tm)
    \/ Create(u, tm) \/ List(u, tm) \/ Destroy(u, tm) \/ Unlist(u, tm)
    \/ Information(u, tm) \/ Stop(u, tm) \/ Connect(u, tm) \/ Disconnect(u, tm)
    \/ \E s \in Starts : BadPeriod(u, tm, s[2]) \/ Start(u, tm, s[1], s[2])
    \/ Notify(u, tm)

Next ==
    \/ Tick
    \/ TimerThread
    \/ \E tm \in Timers : QueueDestroy(tm)
    \/ \E u \in Users, tm \in Timers :
          Perform(u, tm) \/ \E op \in Operations : Call(u, op, tm)

Spec == Init /\ [][Next]_vars

\* The host runs the timer thread and the end of _sys_timer_start, and time goes on.
LiveSpec ==
    /\ Spec
    /\ WF_vars(TimerThread)
    /\ \A u \in Users : WF_vars(\E tm \in Timers : Notify(u, tm))
    /\ WF_vars(Tick)

-----------------------------------------------------------------------------
\* Properties

\* A sum that is not bounded, as a u64 that saturates.
Saturated(x) == IF x > umax THEN umax ELSE x

\* Nothing is sent twice or left out, whether the timer thread or a call fires the
\* timer: a periodic timer that runs has sent one event for every expiration since
\* its start, and a oneshot timer sends one and stops.  An expiration beyond the u64
\* limit is at the limit, which the clock does not reach.
EveryPeriodSent ==
    \A tm \in Timers :
        /\ state[tm] = "RUN" => expire[tm] = Saturated(first[tm] + period[tm] * sent[tm])
        /\ period[tm] = 0 => sent[tm] <= 1
        /\ state[tm] = "RUN" /\ period[tm] = 0 => sent[tm] = 0

\* "Optimized from a loop in LV2": a call of _sys_timer_start, whatever u64 base time
\* and period it was given and however late it reads the clock, computes the first
\* base_time + k * period (k > 0) that is not before the start, saturated.  This is
\* where the loop ends as long as its sums stay below 2^64 (beyond, the loop wraps).
FirstExpireIsLeast ==
    \A u \in Users : pc[u] = "start" =>
        \A base \in 1..umax, per \in MinPeriod..umax, start \in unow[u]..umax :
            \E k \in 1..umax :
                /\ FirstExpire(base, start, per) = Saturated(base + k * per)
                /\ base + k * per >= start
                /\ \A j \in 1..(k - 1) : base + j * per < start

Due(tm) == exists[tm] /\ tm \in timers /\ state[tm] = "RUN" /\ expire[tm] <= now

\* A running timer that has expired is fired, unless a call fired it before while the
\* timer thread waited for its mutex (then nothing wakes the thread for it).
DueIsFired == \A tm \in Timers : Due(tm) ~> ~Due(tm) \/ overtaken[tm]

=============================================================================
