---------------------------- MODULE SysTimeouts ----------------------------
(***************************************************************************)
(* lib/lwip/src/core/timeouts.c: the list of one-shot timeouts on a clock  *)
(* that wraps, the cyclic timers of the stack that reschedule themselves,  *)
(* the TCP timer that runs only while there are connections, and           *)
(* sys_check_timeouts, the loop that calls the handlers.                   *)
(***************************************************************************)
EXTENDS Integers, Sequences, FiniteSets, FiniteSetsExt

CONSTANTS
  Period,                \* number of values of the u32_t clock (2^32)
  Cyclic,                \* the cyclic timers other than TCP: ip_reass_tmr, etharp_tmr
  interval_ms,           \* their intervals
  TCP_TMR_INTERVAL,
  AppMsecs,              \* delays for which an application sets its timeout, if any does
  MEMP_NUM_SYS_TIMEOUT,  \* entries of the pool
  MaxHandlerTime,        \* how long a handler may run
  MaxLate                \* how late the main loop may be

TCP == "tcp"
APP == "app"

\* What may be in the list.  LWIP_NUM_SYS_TIMEOUT_INTERNAL counts the timers of the stack
\* only; a build with an application that sets timeouts needs a larger pool.
Timers == Cyclic \cup {TCP} \cup (IF AppMsecs = {} THEN {} ELSE {APP})

\* The assertion of sys_timeout keeps every delay below a quarter of the clock.  The times
\* in the list are unambiguous if no entry is late by more than another quarter: it waits
\* for the main loop or, when it is due just after a check has begun, for the handlers of
\* the others, and then for the handlers of the others in the next check.
ASSUME TimeoutsAssumption ==
  /\ Period \in Nat /\ Period % 4 = 0 /\ Period > 0
  /\ TCP \notin Cyclic /\ APP \notin Cyclic /\ IsFiniteSet(Cyclic)
  /\ interval_ms \in [Cyclic -> 1 .. (Period - 1) \div 4]
  /\ TCP_TMR_INTERVAL \in 1 .. (Period - 1) \div 4
  /\ AppMsecs \subseteq 0 .. (Period - 1) \div 4
  /\ MEMP_NUM_SYS_TIMEOUT \in Nat /\ MEMP_NUM_SYS_TIMEOUT >= 2
  /\ MEMP_NUM_SYS_TIMEOUT >= Cardinality(Timers)
  /\ MaxHandlerTime \in Nat /\ MaxLate \in Nat
  /\ MaxLate + MaxHandlerTime * (MEMP_NUM_SYS_TIMEOUT - 1) <= Period \div 4
  /\ 2 * (MaxHandlerTime * (MEMP_NUM_SYS_TIMEOUT - 1)) <= Period \div 4

VARIABLES
  now,                     \* sys_now()
  next_timeout,            \* the list; left is the true time to go, which no code reads
  tcpip_tcp_timer_active,
  pcbs,                    \* tcp_active_pcbs || tcp_tw_pcbs
  check,                   \* the local variable now of sys_check_timeouts, or Returned
  unstarted                \* the cyclic timers that sys_timeouts_init has still to start

vars == <<now, next_timeout, tcpip_tcp_timer_active, pcbs, check, unstarted>>

Returned == -1
Time == 0 .. Period - 1

-----------------------------------------------------------------------------
\* Mutant: the times are compared as they are.
TIME_LESS_THAN_NoWrap(t, compare_to) == t < compare_to

\* The difference, as a u32_t, is in the upper half.
TIME_LESS_THAN(t, compare_to) == (t - compare_to) % Period >= Period \div 2

\* sys_timeout_abs: before the first entry that is due later, if the pool is not empty.
sys_timeout_abs(list, h, at, left) ==
  LET e == [h |-> h, time |-> at % Period, left |-> left]
      later == {i \in DOMAIN list : TIME_LESS_THAN(e.time, list[i].time)}
      k == Min(later \cup {Len(list) + 1})
  IN IF Len(list) >= MEMP_NUM_SYS_TIMEOUT THEN list
     ELSE SubSeq(list, 1, k - 1) \o <<e>> \o SubSeq(list, k, Len(list))

sys_timeout(list, clock, msecs, h) == sys_timeout_abs(list, h, clock + msecs, msecs)

\* Time goes on by d.
Older(list, d) == [i \in DOMAIN list |-> [list[i] EXCEPT !.left = @ - d]]

Init ==
  /\ now \in Time
  /\ next_timeout = <<>>
  /\ tcpip_tcp_timer_active = FALSE
  /\ pcbs = FALSE
  /\ check = Returned
  /\ unstarted = Cyclic

\* One pass of the loop of sys_timeouts_init, for any order of the array of timers.
sys_timeouts_init(c) ==
  /\ c \in unstarted
  /\ next_timeout' = sys_timeout(next_timeout, now, interval_ms[c], c)
  /\ unstarted' = unstarted \ {c}
  /\ UNCHANGED <<now, tcpip_tcp_timer_active, pcbs, check>>

\* The stack is initialised and the main loop is outside of sys_check_timeouts.
Idle == unstarted = {} /\ check = Returned

\* The clock goes on, for as long as the main loop may be late.
Tick ==
  /\ check = Returned
  /\ next_timeout # <<>> => Head(next_timeout).left > -MaxLate
  /\ now' = (now + 1) % Period
  /\ next_timeout' = Older(next_timeout, 1)
  /\ UNCHANGED <<tcpip_tcp_timer_active, pcbs, check, unstarted>>

\* tcp_timer_needed, called when a connection has been registered.
tcp_timer_needed ==
  IF tcpip_tcp_timer_active THEN UNCHANGED <<next_timeout, tcpip_tcp_timer_active>>
  ELSE /\ next_timeout' = sys_timeout(next_timeout, now, TCP_TMR_INTERVAL, TCP)
       /\ tcpip_tcp_timer_active' = TRUE

TCP_REG ==
  /\ Idle
  /\ pcbs' = TRUE
  /\ tcp_timer_needed
  /\ UNCHANGED <<now, check, unstarted>>

\* The last connection goes without the timer's doing.
TCP_RMV ==
  /\ Idle /\ pcbs
  /\ pcbs' = FALSE
  /\ UNCHANGED <<now, next_timeout, tcpip_tcp_timer_active, check, unstarted>>

\* An application sets its timeout, one at a time, ...
AppTimeout(msecs) ==
  /\ Idle
  /\ \A i \in DOMAIN next_timeout : next_timeout[i].h # APP
  /\ next_timeout' = sys_timeout(next_timeout, now, msecs, APP)
  /\ UNCHANGED <<now, tcpip_tcp_timer_active, pcbs, check, unstarted>>

\* ... or takes it back: the first entry with this handler leaves the list.
sys_untimeout(h) ==
  /\ Idle
  /\ \E i \in DOMAIN next_timeout : next_timeout[i].h = h
  /\ LET k == Min({i \in DOMAIN next_timeout : next_timeout[i].h = h})
     IN next_timeout' =
          SubSeq(next_timeout, 1, k - 1) \o SubSeq(next_timeout, k + 1, Len(next_timeout))
  /\ UNCHANGED <<now, tcpip_tcp_timer_active, pcbs, check, unstarted>>

\* Mutant: the times are counted from now without the base.
Rebased_NoBase(e, base) == [e EXCEPT !.time = (@ + now) % Period, !.left = @ - base.left]

\* One pass of the loop of sys_restart_timeouts.
Rebased(e, base) ==
  [e EXCEPT !.time = ((@ - base.time) + now) % Period, !.left = @ - base.left]

sys_restart_timeouts ==
  /\ Idle /\ next_timeout # <<>>
  /\ next_timeout' =
       [i \in DOMAIN next_timeout |-> Rebased(next_timeout[i], Head(next_timeout))]
  /\ UNCHANGED <<now, tcpip_tcp_timer_active, pcbs, check, unstarted>>

-----------------------------------------------------------------------------
sys_check_timeouts ==
  /\ Idle
  /\ check' = now
  /\ UNCHANGED <<now, next_timeout, tcpip_tcp_timer_active, pcbs, unstarted>>

\* Mutant: the loop looks at the clock in every pass.
Expired_Clock(e) == ~TIME_LESS_THAN(now, e.time)

Expired(e) == ~TIME_LESS_THAN(check, e.time)

CheckReturn ==
  /\ check # Returned
  /\ ~(next_timeout # <<>> /\ Expired(Head(next_timeout)))
  /\ check' = Returned
  /\ UNCHANGED <<now, next_timeout, tcpip_tcp_timer_active, pcbs, unstarted>>

\* Mutant: a timer that is overdue is not set again.
lwip_cyclic_timer_Overdue(list, c, due, left, clock) ==
  IF TIME_LESS_THAN((due + interval_ms[c]) % Period, clock)
    THEN list
    ELSE sys_timeout_abs(list, c, due + interval_ms[c], left + interval_ms[c])

\* lwip_cyclic_timer after cyclic->handler() has returned at time clock: the next call
\* is an interval after the one that was due, or from now if that is over already.
lwip_cyclic_timer(list, c, due, left, clock) ==
  IF TIME_LESS_THAN((due + interval_ms[c]) % Period, clock)
    THEN sys_timeout(list, clock, interval_ms[c], c)
    ELSE sys_timeout_abs(list, c, due + interval_ms[c], left + interval_ms[c])

\* One pass of the loop: the entry leaves the list, then its handler runs for d and
\* may put a new one in.  tcp_tmr and its callbacks may open and close connections.
CallHandler(d) ==
  /\ check # Returned
  /\ next_timeout # <<>> /\ Expired(Head(next_timeout))
  /\ LET e == Head(next_timeout)
         clock == (now + d) % Period
         rest == Older(Tail(next_timeout), d)
     IN /\ now' = clock
        /\ \/ /\ e.h \in Cyclic
              /\ next_timeout' = lwip_cyclic_timer(rest, e.h, e.time, e.left - d, clock)
              /\ UNCHANGED <<tcpip_tcp_timer_active, pcbs>>
           \/ /\ e.h = TCP
              /\ pcbs' \in BOOLEAN
              /\ next_timeout' = IF pcbs' THEN sys_timeout(rest, clock, TCP_TMR_INTERVAL, TCP)
                                 ELSE rest
              /\ tcpip_tcp_timer_active' = pcbs'
           \/ /\ e.h = APP
              /\ next_timeout' = rest
              /\ UNCHANGED <<tcpip_tcp_timer_active, pcbs>>
  /\ UNCHANGED <<check, unstarted>>

Next ==
  \/ \E c \in Cyclic : sys_timeouts_init(c)
  \/ Tick
  \/ TCP_REG
  \/ TCP_RMV
  \/ \E msecs \in AppMsecs : AppTimeout(msecs)
  \/ sys_untimeout(APP)
  \/ sys_restart_timeouts
  \/ sys_check_timeouts
  \/ CheckReturn
  \/ \E d \in 0 .. MaxHandlerTime : CallHandler(d)

\* A loop that has begun goes on; the hardware's clock cannot be held up by calls.
Fairness ==
  /\ WF_vars(CheckReturn)
  /\ WF_vars(\E d \in 0 .. MaxHandlerTime : CallHandler(d))
  /\ SF_vars(Tick)

Spec == Init /\ [][Next]_vars /\ Fairness
-----------------------------------------------------------------------------
Entries(h) == {i \in DOMAIN next_timeout : next_timeout[i].h = h}

\* The variables keep their types; every entry is due, or overdue, by less than half of
\* the clock, so that its time is unambiguous.
TypeOK ==
  /\ now \in Time
  /\ \A i \in DOMAIN next_timeout :
       /\ next_timeout[i].h \in Timers
       /\ next_timeout[i].time \in Time
       /\ next_timeout[i].left \in 1 - Period \div 2 .. Period \div 2 - 1
  /\ Len(next_timeout) <= MEMP_NUM_SYS_TIMEOUT
  /\ tcpip_tcp_timer_active \in BOOLEAN /\ pcbs \in BOOLEAN
  /\ check \in Time \cup {Returned} /\ unstarted \subseteq Cyclic

\* Across a wrap of the clock, a restart and late calls, the list stays in the order in
\* which its entries are really due, although sys_timeout_abs compares remainders only
\* (timeouts.c:73, 208-219).
InTrueOrder ==
  \A i, j \in DOMAIN next_timeout : i < j => next_timeout[i].left <= next_timeout[j].left

sys_timeouts_sleeptime ==
  LET first == Head(next_timeout).time IN
  IF TIME_LESS_THAN(first, now) THEN 0 ELSE (first - now) % Period

\* What sys_timeouts_sleeptime returns is the true time to the first entry, 0 when it is
\* over, so that its assertion holds (timeouts.c:436-441).
SleepIsTrue ==
  next_timeout # <<>> =>
    sys_timeouts_sleeptime =
      (IF Head(next_timeout).left <= 0 THEN 0 ELSE Head(next_timeout).left)

\* Between the calls every cyclic timer that is started has exactly one entry and the TCP
\* timer one exactly while it is marked as running, which it is while there are connections; so
\* the pool that is made for them suffices (timeouts.c:151-175, 190-194).
OneEach ==
  /\ \A c \in Cyclic : Cardinality(Entries(c)) = IF c \in unstarted THEN 0 ELSE 1
  /\ Cardinality(Entries(TCP)) = IF tcpip_tcp_timer_active THEN 1 ELSE 0
  /\ pcbs => tcpip_tcp_timer_active

\* The list of timeouts is complete, in order, and in agreement with the true time.
TimersTrue == TypeOK /\ InTrueOrder /\ SleepIsTrue /\ OneEach

\* No handler is called before its time (timeouts.c:371).
NeverEarly ==
  [][check # Returned /\ next_timeout' # next_timeout => Head(next_timeout).left <= 0]_vars

\* sys_check_timeouts returns although its handlers take time and set new timeouts, since
\* it compares with the time at its start (timeouts.c:358, "Process only timers expired
\* at the start of the function").
CheckReturns == check # Returned ~> check = Returned

Calls(c) ==
  /\ next_timeout # <<>> /\ Head(next_timeout).h = c
  /\ \E d \in 0 .. MaxHandlerTime : CallHandler(d)

\* If sys_check_timeouts is called again and again, and the list is not restarted for ever,
\* every cyclic timer is called again and again, also when the handlers take longer than
\* the intervals (timeouts.c:246-254).
EveryTimerRuns ==
  []<>(check # Returned) /\ <>[][~sys_restart_timeouts]_vars
    => \A c \in Cyclic : []<><<Calls(c)>>_vars
=============================================================================
