--------------------------- MODULE Lv2TimerProofs ---------------------------
(***************************************************************************)
(* Proofs about Lv2Timer, for any number of timers and callers, any clock  *)
(* and any limit at which times saturate: no expiration is sent twice or   *)
(* left out, and the remainders of _sys_timer_start compute what a loop    *)
(* over the periods would.                                                 *)
(***************************************************************************)
EXTENDS Lv2Timer, Integers, TLAPS

-----------------------------------------------------------------------------
\* Saturation

\* A sum that saturates is the sum, or the limit if that is less.
LEMMA AddSaturates ==
    ASSUME NEW x \in 0..umax, NEW y \in Nat
    PROVE  /\ AddSaturate(x, y) = Saturated(x + y)
           /\ AddSaturate(x, y) \in 0..umax
BY TimerAssumption, SMT DEF AddSaturate, Saturated

\* A sum stays as it is once a part of it has saturated.
LEMMA SaturatedTwice ==
    ASSUME NEW x \in Nat, NEW y \in Nat
    PROVE  /\ Saturated(x) \in 0..umax
           /\ AddSaturate(Saturated(x), y) = Saturated(x + y)
BY TimerAssumption, SMT DEF AddSaturate, Saturated

-----------------------------------------------------------------------------
\* The first expiration

\* What _sys_timer_start computes for a periodic timer with a base time, without a
\* limit.
FirstMultiple(base, start, per) ==
    IF start < base + per THEN base + per
    ELSE LET aligned == (start - (start % per)) + (base % per)
         IN  IF aligned < start THEN aligned + per ELSE aligned

\* Division with remainder.
LEMMA Division ==
    ASSUME NEW a \in Nat, NEW p \in Nat \ {0}
    PROVE  /\ a \div p \in Nat
           /\ a % p \in 0..(p - 1)
           /\ a = p * (a \div p) + (a % p)
BY SMT

\* Multiples of p are ordered as their factors, and p apart.
LEMMA Factor ==
    ASSUME NEW p \in Nat \ {0}, NEW x \in Int, NEW y \in Int, p * x < p * y + p
    PROVE  x <= y
<1>1. SUFFICES ASSUME x >= y + 1 PROVE FALSE
  OBVIOUS
<1>2. p * x >= p * (y + 1)
  BY <1>1, SMT
<1>3. p * (y + 1) = p * y + p
  BY SMT
<1> QED BY <1>2, <1>3, SMT

\* It is the least base + k * per, k > 0, that is not before the start.
LEMMA FirstMultipleNotBefore ==
    ASSUME NEW base \in Nat \ {0}, NEW start \in Nat, NEW per \in Nat \ {0}
    PROVE  \E k \in Nat \ {0} :
              /\ FirstMultiple(base, start, per) = base + k * per
              /\ base + k * per >= start
              /\ \A j \in Nat \ {0} : base + j * per >= start => k <= j
<1>1. CASE start < base + per
  <2>1. FirstMultiple(base, start, per) = base + 1 * per
    BY <1>1, SMT DEF FirstMultiple
  <2> QED BY <1>1, <2>1, SMT
<1>2. CASE ~(start < base + per)
  <2> DEFINE qs == start \div per
             rs == start % per
             qb == base \div per
             rb == base % per
  <2>1. /\ qs \in Nat /\ rs \in 0..(per - 1) /\ start = per * qs + rs
        /\ qb \in Nat /\ rb \in 0..(per - 1) /\ base = per * qb + rb
    BY Zenon, Division
  <2>2. FirstMultiple(base, start, per) =
          IF (start - rs) + rb < start THEN (start - rs) + rb + per ELSE (start - rs) + rb
    BY <1>2, <2>1, SMT DEF FirstMultiple
  <2> HIDE DEF qs, rs, qb, rb
  <2> DEFINE k == IF rb < rs THEN qs - qb + 1 ELSE qs - qb
  <2>3. per * (qs - qb) = per * qs - per * qb
    BY <2>1, SMT
  <2>4. per * (qs - qb + 1) = per * qs - per * qb + per
    BY <2>1, SMT
  <2>5. FirstMultiple(base, start, per) = base + per * k
    <3>1. CASE rb < rs
      BY <3>1, <2>1, <2>2, <2>4, SMT
    <3>2. CASE ~(rb < rs)
      BY <3>2, <2>1, <2>2, <2>3, SMT
    <3> QED BY <3>1, <3>2
  <2>6. k \in Nat \ {0}
    <3>1. CASE rb < rs
      <4>1. per * qb < per * qs + per
        BY <1>2, <2>1, <3>1, SMT
      <4>2. qb <= qs
        BY <4>1, <2>1, Factor
      <4> QED BY <4>2, <3>1, <2>1, SMT
    <3>2. CASE ~(rb < rs)
      <4>1. per * (qb + 1) = per * qb + per
        BY <2>1, SMT
      <4>2. per * (qb + 1) < per * qs + per
        BY <1>2, <2>1, <3>2, <4>1, SMT
      <4>3. qb + 1 <= qs
        BY <4>2, <2>1, Factor
      <4> QED BY <4>3, <3>2, <2>1, SMT
    <3> QED BY <3>1, <3>2
  <2>7. base + per * k >= start
    <3>1. CASE rb < rs
      BY <3>1, <2>1, <2>4, SMT
    <3>2. CASE ~(rb < rs)
      BY <3>2, <2>1, <2>3, SMT
    <3> QED BY <3>1, <3>2
  <2>8. ASSUME NEW j \in Nat \ {0}, base + j * per >= start
        PROVE  k <= j
    <3>1. per * (qb + j) = per * qb + j * per
      BY <2>1, SMT
    <3>2. CASE rb < rs
      <4>1. per * (qs + 1) = per * qs + per
        BY <2>1, SMT
      <4>2. per * (qs + 1) < per * (qb + j) + per
        BY <2>1, <2>8, <3>1, <3>2, <4>1, SMT
      <4>3. qs + 1 <= qb + j
        BY <4>2, <2>1, Factor
      <4> QED BY <4>3, <3>2, <2>1, SMT
    <3>3. CASE ~(rb < rs)
      <4>1. per * qs < per * (qb + j) + per
        BY <2>1, <2>8, <3>1, <3>3, SMT
      <4>2. qs <= qb + j
        BY <4>1, <2>1, Factor
      <4> QED BY <4>2, <3>3, <2>1, SMT
    <3> QED BY <3>2, <3>3
  <2> HIDE DEF k
  <2>9. per * k = k * per
    BY <2>6, SMT
  <2> QED BY Zenon, <2>5, <2>6, <2>7, <2>8, <2>9
<1> QED BY <1>1, <1>2
\* The sums of _sys_timer_start may saturate on the way: the start is a u64, so that
\* the comparisons with it come out as without a limit unless the result is the limit.
LEMMA FirstExpireSaturates ==
    ASSUME NEW base \in (0..umax) \ {0}, NEW start \in 0..umax, NEW per \in (0..umax) \ {0}
    PROVE  FirstExpire(base, start, per) = Saturated(FirstMultiple(base, start, per))
<1> DEFINE low == start - (start % per)
           rb == base % per
           aligned == AddSaturate(low, rb)
<1>1. /\ base \in Nat /\ start \in Nat /\ per \in Nat \ {0} /\ umax \in Nat
      /\ start <= umax /\ per \in 0..umax /\ per # 0 /\ base # 0
  BY TimerAssumption
<1>2. low \in 0..umax /\ rb \in Nat /\ low + per > start
  <2>1. start % per \in 0..(per - 1) /\ start \div per \in Nat
        /\ start = per * (start \div per) + (start % per)
    BY <1>1, Division, Zenon
  <2>2. base % per \in 0..(per - 1)
    BY <1>1, Division, Zenon
  <2>3. per * (start \div per) \in Nat
    BY <1>1, <2>1, SMT
  <2> QED BY <1>1, <2>1, <2>2, <2>3, SMT
<1>3. /\ FirstExpire(base, start, per) =
           IF start < AddSaturate(base, per) THEN AddSaturate(base, per)
           ELSE AddSaturate(aligned, IF aligned < start THEN per ELSE 0)
      /\ FirstMultiple(base, start, per) =
           IF start < base + per THEN base + per
           ELSE IF low + rb < start THEN low + rb + per ELSE low + rb
  BY <1>1, Zenon DEF FirstExpire, FirstMultiple
<1> HIDE DEF low, rb
<1> QED BY <1>1, <1>2, <1>3, SMT DEF AddSaturate, Saturated

-----------------------------------------------------------------------------
\* What holds of one timer: when it runs it is connected, and its events since the
\* start are those of the expirations that are over.
Counted(st, ex, per, po, fi, se) ==
    /\ st \in {"STOP", "RUN"}
    /\ ex \in 0..umax
    /\ per \in 0..umax
    /\ fi \in 0..umax
    /\ se \in Nat
    /\ st = "RUN" => po # "none" /\ ex = Saturated(fi + per * se)
    /\ per = 0 => se <= 1
    /\ st = "RUN" /\ per = 0 => se = 0

\* The inductive invariant.
TimerInv ==
    /\ now \in 0..MaxTime
    /\ unow \in [Users -> 0..umax]
    /\ state \in [Timers -> {"STOP", "RUN"}]
    /\ expire \in [Timers -> 0..umax]
    /\ period \in [Timers -> 0..umax]
    /\ port \in [Timers -> {"none", "alive", "dead"}]
    /\ first \in [Timers -> 0..umax]
    /\ sent \in [Timers -> Nat]
    /\ \A tm \in Timers :
          Counted(state[tm], expire[tm], period[tm], port[tm], first[tm], sent[tm])

\* check_unlocked() sends for the expiration it steps over, whatever the clock it was
\* given; the call may stop the timer and disconnect it as well.
LEMMA CheckCounted ==
    ASSUME NEW tm \in Timers, NEW time, NEW to, NEW po,
           Counted(state[tm], expire[tm], period[tm], port[tm], first[tm], sent[tm]),
           \/ to = "STOP"
           \/ to = StateAfter(tm, time) /\ po = port[tm]
    PROVE  Counted(to, ExpireAfter(tm, time), period[tm], po, first[tm], SentAfter(tm, time))
<1>1. CASE Expired(tm, time)
  <2>1. /\ state[tm] = "RUN"
        /\ SentAfter(tm, time) = sent[tm] + 1
    BY <1>1 DEF Expired, SentAfter, Counted
  <2>2. CASE period[tm] = 0
    <3>1. ExpireAfter(tm, time) = expire[tm] /\ StateAfter(tm, time) = "STOP"
      BY <1>1, <2>2 DEF ExpireAfter, StateAfter
    <3>2. sent[tm] = 0
      BY <2>1, <2>2 DEF Counted
    <3> QED BY <2>1, <2>2, <3>1, <3>2 DEF Counted
  <2>3. CASE period[tm] # 0
    <3> DEFINE sum == first[tm] + period[tm] * sent[tm]
               next == first[tm] + period[tm] * (sent[tm] + 1)
    <3>1. /\ ExpireAfter(tm, time) = AddSaturate(expire[tm], period[tm])
          /\ StateAfter(tm, time) = "RUN"
      BY <1>1, <2>1, <2>3 DEF ExpireAfter, StateAfter
    <3>2. /\ first[tm] \in Nat /\ period[tm] \in Nat /\ sent[tm] \in Nat
          /\ expire[tm] \in 0..umax /\ expire[tm] = Saturated(sum)
      BY <2>1, TimerAssumption DEF Counted
    <3>3. sum \in Nat /\ next = sum + period[tm]
      BY <3>2, SMT
    <3> HIDE DEF sum
    <3>4. AddSaturate(expire[tm], period[tm]) = Saturated(sum + period[tm])
      BY Zenon, <3>2, <3>3, SaturatedTwice
    <3>5. ExpireAfter(tm, time) \in 0..umax
      BY Zenon, <3>1, <3>2, AddSaturates
    <3>6. ExpireAfter(tm, time) = Saturated(next)
      BY <3>1, <3>3, <3>4
    <3> QED BY <2>1, <2>3, <3>1, <3>5, <3>6 DEF Counted
  <2> QED BY <2>2, <2>3
<1>2. CASE ~Expired(tm, time)
  <2>1. /\ SentAfter(tm, time) = sent[tm]
        /\ ExpireAfter(tm, time) = expire[tm]
        /\ StateAfter(tm, time) = state[tm]
    BY <1>2 DEF SentAfter, ExpireAfter, StateAfter
  <2> QED BY <2>1 DEF Counted
<1> QED BY <1>1, <1>2

\* A step that changes one timer at most.
LEMMA OneTimer ==
    ASSUME TimerInv, NEW tm \in Timers,
           now' \in 0..MaxTime,
           unow' \in [Users -> 0..umax],
           state' \in [Timers -> {"STOP", "RUN"}],
           expire' \in [Timers -> 0..umax],
           period' \in [Timers -> 0..umax],
           port' \in [Timers -> {"none", "alive", "dead"}],
           first' \in [Timers -> 0..umax],
           sent' \in [Timers -> Nat],
           \A x \in Timers \ {tm} :
              /\ state'[x] = state[x] /\ expire'[x] = expire[x] /\ period'[x] = period[x]
              /\ port'[x] = port[x] /\ first'[x] = first[x] /\ sent'[x] = sent[x],
           Counted(state'[tm], expire'[tm], period'[tm], port'[tm], first'[tm], sent'[tm])
    PROVE  TimerInv'
<1>1. ASSUME NEW x \in Timers
      PROVE  Counted(state'[x], expire'[x], period'[x], port'[x], first'[x], sent'[x])
  BY DEF TimerInv
<1> QED BY <1>1 DEF TimerInv

\* check_unlocked() in the timer thread, sys_timer_get_information, _sys_timer_start,
\* sys_timer_stop and sys_timer_disconnect_event_queue.
LEMMA CheckInv ==
    ASSUME TimerInv, NEW tm \in Timers, NEW time, NEW to, NEW po,
           po \in {"none", "alive", "dead"},
           \/ to = "STOP"
           \/ to = StateAfter(tm, time) /\ po = port[tm],
           now' = now,
           unow' \in [Users -> 0..umax],
           state' = [state EXCEPT ![tm] = to],
           expire' = [expire EXCEPT ![tm] = ExpireAfter(tm, time)],
           period' = period,
           port' = [port EXCEPT ![tm] = po],
           first' = first,
           sent' = [sent EXCEPT ![tm] = SentAfter(tm, time)]
    PROVE  TimerInv'
<1>1. Counted(to, ExpireAfter(tm, time), period[tm], po, first[tm], SentAfter(tm, time))
  BY CheckCounted DEF TimerInv
<1>2. /\ to \in {"STOP", "RUN"}
      /\ ExpireAfter(tm, time) \in 0..umax
      /\ SentAfter(tm, time) \in Nat
  BY <1>1 DEF Counted
<1>3. /\ state' \in [Timers -> {"STOP", "RUN"}]
      /\ expire' \in [Timers -> 0..umax]
      /\ sent' \in [Timers -> Nat]
      /\ port' \in [Timers -> {"none", "alive", "dead"}]
  BY <1>2 DEF TimerInv
<1>4. /\ state'[tm] = to /\ expire'[tm] = ExpireAfter(tm, time) /\ port'[tm] = po
      /\ sent'[tm] = SentAfter(tm, time)
  BY DEF TimerInv
<1>5. \A x \in Timers \ {tm} :
        state'[x] = state[x] /\ expire'[x] = expire[x] /\ port'[x] = port[x] /\ sent'[x] = sent[x]
  BY DEF TimerInv
<1>6. /\ period' \in [Timers -> 0..umax]
      /\ first' \in [Timers -> 0..umax]
      /\ now' \in 0..MaxTime
  BY DEF TimerInv
<1> HIDE DEF TimerInv
<1> QED BY <1>1, <1>3, <1>4, <1>5, <1>6, OneTimer

\* A return leaves a clock.
LEMMA ReturnClock ==
    ASSUME TimerInv, NEW u \in Users, Return(u)
    PROVE  unow' \in [Users -> 0..umax]
<1>1. 0 \in 0..umax
  BY TimerAssumption
<1>2. unow \in [Users -> 0..umax] /\ unow' = [unow EXCEPT ![u] = 0]
  BY DEF TimerInv, Return
<1> QED BY <1>1, <1>2

\* The first expiration of a start is a time.
LEMMA FirstExpireType ==
    ASSUME NEW base \in 0..umax, NEW start \in 0..umax, NEW per \in 0..umax
    PROVE  FirstExpire(base, start, per) \in 0..umax
<1>1. CASE per = 0
  BY <1>1 DEF FirstExpire
<1>2. CASE per # 0 /\ base = 0
  <2>1. per \in Nat
    BY TimerAssumption
  <2>2. FirstExpire(base, start, per) = AddSaturate(start, per)
    BY <1>2, Zenon DEF FirstExpire
  <2> QED BY <2>1, <2>2, AddSaturates, Zenon
<1>3. CASE per # 0 /\ base # 0
  <2>1. /\ base \in Nat \ {0} /\ start \in Nat /\ per \in Nat \ {0}
        /\ base \in (0..umax) \ {0} /\ per \in (0..umax) \ {0}
    BY <1>3, TimerAssumption
  <2>2. PICK k \in Nat \ {0} :
          /\ FirstMultiple(base, start, per) = base + k * per
          /\ base + k * per >= start
          /\ \A j \in Nat \ {0} : base + j * per >= start => k <= j
    BY <2>1, FirstMultipleNotBefore, Zenon
  <2>3. k * per \in Nat
    BY <2>1, SMT
  <2>4. FirstMultiple(base, start, per) \in Nat
    BY <2>1, <2>2, <2>3, SMT
  <2>5. FirstExpire(base, start, per) = Saturated(FirstMultiple(base, start, per))
    BY <2>1, FirstExpireSaturates, Zenon
  <2> QED BY <2>4, <2>5, SaturatedTwice, Zenon
<1> QED BY <1>1, <1>2, <1>3

\* A start sets the first expiration and forgets the events of the last one.
LEMMA StartInv ==
    ASSUME TimerInv, NEW u \in Users, NEW tm \in Timers, NEW base \in 0..umax,
           NEW per \in 0..umax, Start(u, tm, base, per)
    PROVE  TimerInv'
<1> DEFINE start == unow[u]
           fst == FirstExpire(base, start, per)
<1>1. /\ unow' \in [Users -> 0..umax]
      /\ now' = now
      /\ start \in 0..umax
  BY ReturnClock DEF Start, TimerInv
<1>2. CASE UNCHANGED <<timerVars, historyVars>>
  BY <1>1, <1>2 DEF TimerInv, timerVars, historyVars
<1>3. CASE /\ Check(tm, start, StateAfter(tm, start))
           /\ UNCHANGED <<period, port, first>>
  <2>1. port' = [port EXCEPT ![tm] = port[tm]] /\ port[tm] \in {"none", "alive", "dead"}
    BY <1>3 DEF TimerInv
  <2> QED BY Zenon, <1>1, <1>3, <2>1, CheckInv DEF Check
<1>4. CASE /\ port[tm] # "none"
           /\ expire' = [expire EXCEPT ![tm] = fst]
           /\ period' = [period EXCEPT ![tm] = per]
           /\ state' = [state EXCEPT ![tm] = "RUN"]
           /\ first' = [first EXCEPT ![tm] = fst]
           /\ sent' = [sent EXCEPT ![tm] = 0]
           /\ port' = port
  <2>1. fst \in 0..umax
    BY Zenon, <1>1, FirstExpireType
  <2> HIDE DEF fst
  <2>2. fst = Saturated(fst + per * 0)
    BY <2>1, TimerAssumption, SMT DEF Saturated
  <2>3. Counted("RUN", fst, per, port[tm], fst, 0)
    BY <1>4, <2>1, <2>2 DEF Counted
  <2>4. /\ state' \in [Timers -> {"STOP", "RUN"}]
        /\ expire' \in [Timers -> 0..umax]
        /\ period' \in [Timers -> 0..umax]
        /\ first' \in [Timers -> 0..umax]
        /\ sent' \in [Timers -> Nat]
        /\ port' \in [Timers -> {"none", "alive", "dead"}]
        /\ now' \in 0..MaxTime
    BY <1>1, <1>4, <2>1 DEF TimerInv
  <2>5. /\ state'[tm] = "RUN" /\ expire'[tm] = fst /\ period'[tm] = per
        /\ first'[tm] = fst /\ sent'[tm] = 0 /\ port'[tm] = port[tm]
    BY <1>4 DEF TimerInv
  <2>6. \A x \in Timers \ {tm} :
          /\ state'[x] = state[x] /\ expire'[x] = expire[x] /\ period'[x] = period[x]
          /\ port'[x] = port[x] /\ first'[x] = first[x] /\ sent'[x] = sent[x]
    BY <1>4 DEF TimerInv
  <2> QED BY <1>1, <2>3, <2>4, <2>5, <2>6, OneTimer
<1> QED BY <1>2, <1>3, <1>4 DEF Start

\* sys_timer_create makes a timer that does not run.
LEMMA CreateInv ==
    ASSUME TimerInv, NEW u \in Users, NEW tm \in Timers, Create(u, tm)
    PROVE  TimerInv'
<1>1. /\ state' = [state EXCEPT ![tm] = "STOP"]
      /\ expire' = [expire EXCEPT ![tm] = 0]
      /\ period' = [period EXCEPT ![tm] = 0]
      /\ port' = [port EXCEPT ![tm] = "none"]
      /\ first' = [first EXCEPT ![tm] = 0]
      /\ sent' = [sent EXCEPT ![tm] = 0]
      /\ UNCHANGED <<now, unow>>
  BY DEF Create
<1>2. 0 \in 0..umax /\ Counted("STOP", 0, 0, "none", 0, 0)
  BY TimerAssumption DEF Counted
<1>3. /\ state' \in [Timers -> {"STOP", "RUN"}]
      /\ port' \in [Timers -> {"none", "alive", "dead"}]
      /\ expire' \in [Timers -> 0..umax]
      /\ period' \in [Timers -> 0..umax]
      /\ first' \in [Timers -> 0..umax]
      /\ sent' \in [Timers -> Nat]
      /\ now' \in 0..MaxTime
      /\ unow' \in [Users -> 0..umax]
  BY <1>1, <1>2 DEF TimerInv
<1>4. /\ state'[tm] = "STOP" /\ expire'[tm] = 0 /\ period'[tm] = 0
      /\ port'[tm] = "none" /\ first'[tm] = 0 /\ sent'[tm] = 0
  BY <1>1 DEF TimerInv
<1>5. \A x \in Timers \ {tm} :
        /\ state'[x] = state[x] /\ expire'[x] = expire[x] /\ period'[x] = period[x]
        /\ port'[x] = port[x] /\ first'[x] = first[x] /\ sent'[x] = sent[x]
  BY <1>1 DEF TimerInv
<1> QED BY <1>2, <1>3, <1>4, <1>5, OneTimer

\* A connection is made, or its queue is destroyed: a timer that runs stays connected.
LEMMA PortInv ==
    ASSUME TimerInv, NEW tm \in Timers, NEW po \in {"alive", "dead"},
           port' = [port EXCEPT ![tm] = po],
           unow' \in [Users -> 0..umax],
           UNCHANGED <<now, state, expire, period, first, sent>>
    PROVE  TimerInv'
<1>1. Counted(state[tm], expire[tm], period[tm], po, first[tm], sent[tm])
  BY DEF TimerInv, Counted
<1>2. /\ port' \in [Timers -> {"none", "alive", "dead"}]
      /\ port'[tm] = po
      /\ \A x \in Timers \ {tm} : port'[x] = port[x]
  BY DEF TimerInv
<1>3. /\ now' \in 0..MaxTime
      /\ state' \in [Timers -> {"STOP", "RUN"}]
      /\ expire' \in [Timers -> 0..umax]
      /\ period' \in [Timers -> 0..umax]
      /\ first' \in [Timers -> 0..umax]
      /\ sent' \in [Timers -> Nat]
  BY DEF TimerInv
<1> QED BY <1>1, <1>2, <1>3, OneTimer

\* A step that leaves all timers alone.
LEMMA OtherInv ==
    ASSUME TimerInv, UNCHANGED <<timerVars, first, sent>>,
           now' \in 0..MaxTime, unow' \in [Users -> 0..umax]
    PROVE  TimerInv'
BY DEF TimerInv, timerVars

\* The calls of a thread.
LEMMA PerformInv ==
    ASSUME TimerInv, NEW u \in Users, NEW tm \in Timers, Perform(u, tm)
    PROVE  TimerInv'
<1>1. now \in 0..MaxTime /\ unow \in [Users -> 0..umax] /\ port[tm] \in {"none", "alive", "dead"}
  BY DEF TimerInv
<1>2. port = [port EXCEPT ![tm] = port[tm]]
  BY DEF TimerInv
<1>3. CASE NotFound(u, tm)
  BY <1>1, <1>3, ReturnClock, OtherInv DEF NotFound, historyVars
<1>4. CASE Create(u, tm)
  BY <1>4, CreateInv
<1>5. CASE List(u, tm)
  BY <1>1, <1>5, ReturnClock, OtherInv DEF List, historyVars
<1>6. CASE Destroy(u, tm)
  <2>1. unow' \in [Users -> 0..umax]
    BY <1>1, <1>6, ReturnClock DEF Destroy
  <2> QED BY <1>1, <1>6, <2>1, OtherInv DEF Destroy, historyVars
<1>7. CASE Unlist(u, tm)
  BY <1>1, <1>7, ReturnClock, OtherInv DEF Unlist, historyVars
<1>8. CASE Information(u, tm)
  <2>1. unow' \in [Users -> 0..umax]
    BY <1>8, ReturnClock DEF Information
  <2> QED BY Zenon, <1>1, <1>2, <1>8, <2>1, CheckInv DEF Information, Check
<1>9. CASE Stop(u, tm)
  <2>1. unow' \in [Users -> 0..umax]
    BY <1>9, ReturnClock DEF Stop
  <2> QED BY Zenon, <1>1, <1>2, <1>9, <2>1, CheckInv DEF Stop, Check
<1>10. CASE Connect(u, tm)
  <2>1. unow' \in [Users -> 0..umax]
    BY <1>10, ReturnClock DEF Connect
  <2> QED BY Zenon, <1>10, <2>1, PortInv DEF Connect, historyVars
<1>11. CASE Disconnect(u, tm)
  <2>1. unow' \in [Users -> 0..umax]
    BY <1>11, ReturnClock DEF Disconnect
  <2> DEFINE po == IF port[tm] = "alive" THEN "none" ELSE port[tm]
  <2>2. port' = [port EXCEPT ![tm] = po] /\ po \in {"none", "alive", "dead"}
    BY <1>1, <1>11 DEF Disconnect
  <2> HIDE DEF po
  <2> QED BY Zenon, <1>11, <2>1, <2>2, CheckInv DEF Disconnect, Check
<1>12. ASSUME NEW s \in Starts, Start(u, tm, s[1], s[2])
       PROVE  TimerInv'
  <2>1. s[1] \in 0..umax /\ s[2] \in 0..umax
    BY TimerAssumption
  <2> QED BY <1>12, <2>1, StartInv
<1>13. ASSUME NEW s \in Starts, BadPeriod(u, tm, s[2])
       PROVE  TimerInv'
  BY <1>1, <1>13, ReturnClock, OtherInv DEF BadPeriod, historyVars
<1>14. CASE Notify(u, tm)
  BY <1>1, <1>14, ReturnClock, OtherInv DEF Notify, historyVars
<1> QED BY <1>3, <1>4, <1>5, <1>6, <1>7, <1>8, <1>9, <1>10, <1>11, <1>12, <1>13, <1>14
        DEF Perform

\* The timer thread.
LEMMA TimerThreadInv ==
    ASSUME TimerInv, TimerThread
    PROVE  TimerInv'
<1>1. now \in 0..MaxTime /\ unow \in [Users -> 0..umax]
  BY DEF TimerInv
<1>2. CASE Wake
  BY <1>1, <1>2, OtherInv DEF Wake, userVars, historyVars
<1>3. CASE Wait
  BY <1>1, <1>3, OtherInv DEF Wait, userVars, historyVars
<1>4. ASSUME NEW tm \in Timers, Look(tm)
      PROVE  TimerInv'
  BY <1>1, <1>4, OtherInv DEF Look, userVars
<1>5. ASSUME NEW tm \in Timers, Fire(tm)
      PROVE  TimerInv'
  <2>1. port' = [port EXCEPT ![tm] = port[tm]] /\ port[tm] \in {"none", "alive", "dead"}
    BY <1>5 DEF TimerInv, Fire
  <2> QED BY Zenon, <1>1, <1>5, <2>1, CheckInv DEF Fire, userVars
<1> QED BY <1>2, <1>3, <1>4, <1>5 DEF TimerThread

\* Every step preserves the invariant.
LEMMA TimerNextInv == TimerInv /\ [Next]_vars => TimerInv'
<1> SUFFICES ASSUME TimerInv, [Next]_vars PROVE TimerInv'
  OBVIOUS
<1>1. now \in 0..MaxTime /\ unow \in [Users -> 0..umax]
  BY DEF TimerInv
<1>2. CASE Tick
  <2>1. now' \in 0..MaxTime
    BY <1>1, <1>2, TimerAssumption DEF Tick
  <2> QED BY <1>1, <1>2, <2>1, OtherInv DEF Tick, userVars, historyVars
<1>3. CASE TimerThread
  BY <1>3, TimerThreadInv
<1>4. ASSUME NEW tm \in Timers, QueueDestroy(tm)
      PROVE  TimerInv'
  BY Zenon, <1>1, <1>4, PortInv DEF QueueDestroy, userVars, historyVars
<1>5. ASSUME NEW u \in Users, NEW tm \in Timers, Perform(u, tm)
      PROVE  TimerInv'
  BY <1>5, PerformInv
<1>6. ASSUME NEW u \in Users, NEW tm \in Timers, NEW op \in Operations, Call(u, op, tm)
      PROVE  TimerInv'
  <2>1. unow' \in [Users -> 0..umax]
    BY <1>1, <1>6, TimerAssumption DEF Call
  <2> QED BY <1>1, <1>6, <2>1, OtherInv DEF Call, historyVars
<1>7. CASE UNCHANGED vars
  BY <1>1, <1>7, OtherInv DEF vars, userVars, historyVars
<1> QED BY <1>2, <1>3, <1>4, <1>5, <1>6, <1>7 DEF Next

\* The inductive invariant holds in every state of every behaviour.
THEOREM TimerInvariance == Spec => []TimerInv
<1>1. Init => TimerInv
  BY TimerAssumption DEF Init, TimerInv, Counted
<1> QED BY <1>1, TimerNextInv, PTL DEF Spec

-----------------------------------------------------------------------------
\* check_unlocked(): a timer that runs has sent one event for every expiration since
\* its start, a oneshot timer one in all, whichever thread fires it and with
\* whatever clock, for any number of timers and callers.
THEOREM PeriodsSent == Spec => []EveryPeriodSent
<1>1. TimerInv => EveryPeriodSent
  BY DEF TimerInv, Counted, EveryPeriodSent
<1> QED BY <1>1, TimerInvariance, PTL

\* _sys_timer_start: the remainders and the additions that saturate give what the loop
\* of the original system gives, saturated, for all u64 arguments and every clock,
\* whatever the width of the integers.
THEOREM FirstExpireLeast == Spec => []FirstExpireIsLeast
<1>1. ASSUME TimerInv PROVE FirstExpireIsLeast
  <2> SUFFICES ASSUME NEW u \in Users, NEW base \in 1..umax, NEW per \in MinPeriod..umax,
                      NEW start \in unow[u]..umax
               PROVE  \E k \in 1..umax :
                         /\ FirstExpire(base, start, per) = Saturated(base + k * per)
                         /\ base + k * per >= start
                         /\ \A j \in 1..(k - 1) : base + j * per < start
    BY Zenon DEF FirstExpireIsLeast
  <2>1. /\ base \in Nat \ {0} /\ start \in Nat /\ per \in Nat \ {0}
        /\ base \in (0..umax) \ {0} /\ start \in 0..umax /\ per \in (0..umax) \ {0}
        /\ umax \in Nat \ {0}
    <3>1. unow[u] \in 0..umax
      BY <1>1 DEF TimerInv
    <3> QED BY <3>1, TimerAssumption
  <2>2. PICK k \in Nat \ {0} :
          /\ FirstMultiple(base, start, per) = base + k * per
          /\ base + k * per >= start
          /\ \A j \in Nat \ {0} : base + j * per >= start => k <= j
    BY <2>1, FirstMultipleNotBefore, Zenon
  <2>3. FirstExpire(base, start, per) = Saturated(base + k * per)
    BY <2>1, <2>2, FirstExpireSaturates, Zenon
  <2>4. umax * per >= umax
    BY <2>1, SMT
  <2>5. base + umax * per >= start
    BY <2>1, <2>4, SMT
  <2>6. k <= umax
    BY Zenon, <2>1, <2>2, <2>5
  <2>7. k \in 1..umax
    BY <2>1, <2>2, <2>6
  <2>8. ASSUME NEW j \in 1..(k - 1) PROVE base + j * per < start
    <3>1. j \in Nat \ {0} /\ ~(k <= j)
      BY <2>2
    <3>2. ~(base + j * per >= start)
      BY Zenon, <2>2, <3>1
    <3>3. j * per \in Nat
      BY <2>1, <3>1, SMT
    <3> QED BY <2>1, <3>2, <3>3, SMT
  <2> QED BY Zenon, <2>2, <2>3, <2>7, <2>8
<1> QED BY <1>1, TimerInvariance, PTL

=============================================================================
