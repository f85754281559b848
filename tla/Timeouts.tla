------------------------------ MODULE Timeouts ------------------------------
(***************************************************************************)
(* The timers of lwIP (timers.c) over the mailbox of the port              *)
(* (sys_arch.c): a list of handlers, each with the time after the one      *)
(* before it, and the wait of tcpip_thread for a message or for the first  *)
(* of them.  Time is in milliseconds, the kernel counts ticks of TickMs.   *)
(* Every handler calls sys_timeout again, as those of sys_timeouts_init.   *)
(***************************************************************************)
EXTENDS Integers, SequencesExt

CONSTANTS
  Handler,
  Period,    \* interval of each handler
  TickMs,    \* 1000 / OS_CFG_TICK_RATE_HZ
  InitOrder, \* the order of the calls in sys_timeouts_init
  MaxNow,    \* bound: milliseconds
  MaxMsgs    \* bound: messages

ASSUME TimeoutsAssumption ==
  /\ Period \in [Handler -> Nat \ {0}] /\ TickMs \in Nat \ {0}
  /\ \A h \in Handler : Period[h] % TickMs = 0
  /\ InitOrder \in Seq(Handler) /\ Range(InitOrder) = Handler /\ Handler # {}
  /\ \A i, j \in DOMAIN InitOrder : InitOrder[i] = InitOrder[j] => i = j
  /\ {MaxNow, MaxMsgs} \subseteq Nat

VARIABLES
  now,       \* milliseconds
  list,      \* next_timeout: [h, time] and, of each, when and after how many messages it was set
  waits,     \* tcpip_thread waits in OSQPend
  start,     \* OSTimeGet when it began to
  deadline,  \* the tick at which it ends
  msgs       \* messages received

tvars == <<now, list, waits, start, deadline, msgs>>

Ticks(t) == t \div TickMs

\* The time left to the element i of the list.
Sum(l, i) ==
  LET sum[j \in 0 .. Len(l)] == IF j = 0 THEN 0 ELSE sum[j - 1] + l[j].time
  IN  sum[i]

\* Mutant: the walk stops one element early.
PassedFewer(l, ms) ==
  LET k == CHOOSE k \in 0 .. Len(l) : /\ Sum(l, k) <= ms
                                      /\ k < Len(l) => Sum(l, k + 1) > ms
  IN  Max({0, k - 1})

\* The elements of the list that the walk of sys_timeout passes.
Passed(l, ms) == CHOOSE k \in 0 .. Len(l) : /\ Sum(l, k) <= ms
                                            /\ k < Len(l) => Sum(l, k + 1) > ms

Timeout(h, heard) == [h |-> h, time |-> Period[h], at |-> now, heard |-> heard]

\* sys_timeout: the times of the elements passed are taken off the new one,
\* its time off the next.
Inserted(l, h, heard) ==
  LET k == Passed(l, Period[h])
      e == [Timeout(h, heard) EXCEPT !.time = @ - Sum(l, k)]
  IN  [i \in 1 .. Len(l) + 1 |->
         IF i <= k THEN l[i] ELSE IF i = k + 1 THEN e
         ELSE IF i = k + 2 THEN [l[k + 1] EXCEPT !.time = @ - e.time] ELSE l[i - 1]]

\* The list after the first calls of sys_timeouts_init, each handler once.
SetUp[k \in 0 .. Len(InitOrder)] ==
  IF k = 0 THEN <<>> ELSE Inserted(SetUp[k - 1], InitOrder[k], 0)

\* sys_timeouts_init
TInit ==
  /\ now = 0 /\ msgs = 0 /\ waits = FALSE /\ start = 0 /\ deadline = 0
  /\ list = SetUp[Len(InitOrder)]

\* OSQPend: whole ticks, at least one.
Wait ==
  /\ ~waits /\ list[1].time > 0
  /\ waits' = TRUE /\ start' = Ticks(now)
  /\ deadline' = Ticks(now) + Max({1, list[1].time \div TickMs})
  /\ UNCHANGED <<now, list, msgs>>

\* The handler is called and sets its timeout again.
Expire ==
  /\ IF waits THEN Ticks(now) >= deadline ELSE list[1].time = 0
  /\ waits' = FALSE
  /\ list' = Inserted(Tail(list), list[1].h, msgs)
  /\ UNCHANGED <<now, start, deadline, msgs>>

\* Mutant: the wait is timed from the first one, not from its own beginning.
ElapsedTotal == Ticks(now) * TickMs + 1

\* sys_arch_mbox_fetch: whole ticks, and one millisecond.
Elapsed == (Ticks(now) - start) * TickMs + 1

MessageComes ==
  /\ waits /\ Ticks(now) < deadline /\ msgs < MaxMsgs
  /\ waits' = FALSE /\ msgs' = msgs + 1
  /\ list' = [list EXCEPT ![1].time = Max({0, @ - Elapsed})]
  /\ UNCHANGED <<now, start, deadline>>

\* A wait that has ended is not put off.
TimePasses ==
  /\ now < MaxNow /\ now' = now + 1 /\ (waits => Ticks(now) < deadline)
  /\ UNCHANGED <<list, waits, start, deadline, msgs>>

TNext == Wait \/ Expire \/ MessageComes \/ TimePasses

TSpec == TInit /\ [][TNext]_tvars

-----------------------------------------------------------------------------
(* Properties                                                              *)

Index(h) == CHOOSE i \in DOMAIN list : list[i].h = h

\* The list of differences is a set of independent timers: to set one delays
\* or hurries no other (timers.c:291-306), and the time of a message counts for all.
Clock == INSTANCE Alarms WITH left <- [h \in Handler |-> Sum(list, Index(h))]
TimersIndependent == Clock!ASpec

\* Intervals are whole ticks.  A handler is called early by less than a tick, and
\* a tick for each message: a message leaves an odd time, whose rest is cut off at
\* the next wait, and counts one millisecond too much (sys_arch.c:94-127).
NotTooEarly ==
  [][\A h \in Handler : LET e == list[Index(h)] IN
       list' # list /\ list'[Index(h)'].at = now /\ e.at < now =>
         now - e.at + (msgs - e.heard + 1) * TickMs > Period[h]]_tvars
=============================================================================
