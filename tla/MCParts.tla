------------------------------ MODULE MCParts ------------------------------
(***************************************************************************)
(* An instance for TLC of five parts that share no state: the mutex with   *)
(* any nesting, the timers, the memory manager, the start-up and the       *)
(* relay.  An execution is one of one of them, chosen at the beginning;    *)
(* the others stay in their first state.                                   *)
(***************************************************************************)
EXTENDS Mutex, Timeouts, Malloc, Startup, Relay

VARIABLE part

\* Priorities: two equal ones between a higher and a lower one.
MCPrio == [t \in Task |-> CASE t = "high" -> 1 [] t = "low" -> 3 [] OTHER -> 2]

\* In the order of sys_timeouts_init: the short interval last.
MCInitOrder == <<"ip", "coarse", "fine">>
MCPeriod == [h \in Handler |-> CASE h = "fine" -> 20 [] h = "ip" -> 40 [] h = "coarse" -> 60]

\* A lease of half an hour, one of two minutes (T1 fires at the first call of
\* dhcp_coarse_tmr), one of a minute (T1 = T2 after rounding: T2 fires).
MCLeases == {[t1 |-> 15, t2 |-> 30], [t1 |-> 1, t2 |-> 2], [t1 |-> 1, t2 |-> 1]}

pvars == <<mvars, tvars, avars, svars, rvars, part>>

PInit == /\ part \in {"mutex", "timers", "malloc", "startup", "relay"}
         /\ MInit /\ TInit /\ AllocInit /\ SInit /\ RInit

PNext ==
  \/ part = "mutex"   /\ MNext /\ UNCHANGED <<tvars, avars, svars, rvars, part>>
  \/ part = "timers"  /\ TNext /\ UNCHANGED <<mvars, avars, svars, rvars, part>>
  \/ part = "malloc"  /\ ANext /\ UNCHANGED <<mvars, tvars, svars, rvars, part>>
  \/ part = "startup" /\ SNext /\ UNCHANGED <<mvars, tvars, avars, rvars, part>>
  \/ part = "relay"   /\ RNext /\ UNCHANGED <<mvars, tvars, avars, svars, part>>

\* SFairness in an execution of the start-up; RFairness, of whose actions none is
\* enabled in the relay's first state, as it is.
PFairness ==
  /\ WF_svars(part = "startup" /\ Tick) /\ WF_svars(part = "startup" /\ DhcpTask)
  /\ WF_svars(part = "startup" /\ StartTask) /\ WF_svars(part = "startup" /\ DhcpStartTask)
  /\ RFairness

PSpec == PInit /\ [][PNext]_pvars /\ PFairness

\* In an execution of the start-up: however many messages are lost, after two
\* refusals at most, the monitor's tasks are created (StartupEnds, task.c:142-147).
TasksAreCreated == part = "startup" => StartupEnds
=============================================================================
