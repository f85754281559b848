--------------------------- MODULE MonitorProofs ---------------------------
(***************************************************************************)
(* Theorems about module Monitor.  The application reaches the kernel's    *)
(* state only through kernel calls (MonitorUsesKernel), so the invariants  *)
(* of module UcosProofs hold of it.  On top of them: the critical sections *)
(* of suspend_task and recovery_task exclude each other, no command is     *)
(* overwritten before it is handled, the sampling token is not lost, and   *)
(* the display is suspended while the flag says dormant, for any set of    *)
(* temperatures, limits and commands and any bounds.                       *)
(***************************************************************************)
EXTENDS Monitor, UcosProofs

-----------------------------------------------------------------------------
(* The application makes kernel calls only                                 *)

\* The objects the application names are those of the kernel's instance.
LEMMA Names ==
  /\ Task = Tasks /\ Prio = TaskPrio
  /\ \A t \in Tasks : t \in Task
  /\ "DATA" \in Queue /\ "ORDER" \in Queue /\ "SYN" \in Sem
  /\ {"capBuf", "recvBuf", "OVER", "RECO"} \subseteq Msg
  /\ {KeySuspends, KeyRecovers, TickPost} \subseteq IsrPosts
  BY MonitorAssumption DEF Pointers

\* A step of the critical sections is a kernel call of the task in it.
LEMMA SectionUsesKernel ==
  ASSUME NEW t \in Tasks, CriticalSection(t)
  PROVE  TaskStep(t)
<1>1. t \in Task /\ "display" \in Task
  BY Names DEF Tasks
<1>2. CASE SuspendEnter(t) \/ RecoveryEnter(t)
  BY <1>2 DEF SuspendEnter, RecoveryEnter, TaskStep
<1>3. CASE SuspendExit(t) \/ RecoveryExit(t)
  BY <1>3 DEF SuspendExit, RecoveryExit, TaskStep
<1>4. CASE SuspendPost(t) \/ RecoveryPost(t)
  BY <1>4, Names DEF SuspendPost, RecoveryPost, TaskStep
<1>5. CASE SuspendDisplay(t) \/ RecoveryResume(t)
  BY <1>1, <1>5 DEF SuspendDisplay, RecoveryResume, TaskStep
<1> QED
  BY <1>2, <1>3, <1>4, <1>5 DEF CriticalSection

\* Every step is a kernel step or leaves the kernel alone.
LEMMA StepUsesKernel ==
  ASSUME [Next]_vars
  PROVE  [KNext]_kvars
<1>1. ASSUME NEW t \in Tasks, TaskStep(t) PROVE [KNext]_kvars
  BY <1>1, Names DEF KNext
<1>2. CASE Boot
  <2>1. "boot" \in Tasks /\ \A u \in {"send", "cap", "check", "display", "order"} : u \in Task
    BY Names DEF Tasks
  <2>2. BootPoll \/ ShowAddressEnter \/ ShowAddressExit => TaskStep("boot")
    BY DEF BootPoll, ShowAddressEnter, ShowAddressExit, TaskStep
  <2>3. CreateTasks => TaskStep("boot")
    BY <2>1 DEF CreateTasks, ShowAddressCreates, TaskStep
  <2>4. BootSuspendsSelf => TaskStep("boot")
    BY <2>1, Names DEF BootSuspendsSelf, TaskStep
  <2> QED
    BY <1>1, <1>2, <2>1, <2>2, <2>3, <2>4, SectionUsesKernel DEF Boot
<1>3. CASE Send
  BY <1>1, <1>3, Names
  DEF Send, SendPend, SendCopy, SendFlag, SendPost, TaskStep, Tasks
<1>4. CASE Display
  BY <1>1, <1>4, Names DEF Display, DisplayPend, DisplayShow, TaskStep, Tasks
<1>5. CASE Cap
  BY <1>1, <1>5, Names DEF Cap, CapPend, CapSample, CapPost, CapDelay, TaskStep, Tasks
<1>6. CASE Check
  <2>1. CheckPend \/ CheckParse \/ CheckDecide \/ CheckBeep => TaskStep("check")
    BY Names DEF CheckPend, CheckParse, CheckDecide, CheckBeep, TaskStep
  <2> QED
    BY <1>1, <1>6, <2>1, SectionUsesKernel DEF Check, Tasks
<1>7. CASE Order
  <2>1. OrderPend \/ OrderPostReading => TaskStep("order")
    BY Names DEF OrderPend, OrderPostReading, TaskStep
  <2>2. OrderSetLimits \/ OrderRecover \/ OrderSuspend \/ OrderTestReading \/ OrderIgnore
        => TaskStep("order")
    BY DEF OrderSetLimits, OrderRecover, OrderSuspend, OrderTestReading, OrderIgnore,
           TaskStep
  <2>3. "order" \in Tasks
    BY DEF Tasks
  <2>4. CriticalSection("order") => TaskStep("order")
    BY <2>3, SectionUsesKernel
  <2>5. TaskStep("order")
    BY <1>7, <2>1, <2>2, <2>4 DEF Order
  <2> QED
    BY <1>1, <2>3, <2>5
<1>8. CASE Udp
  <2>1. UdpPost \/ UdpWait => TaskStep("udp")
    BY Names DEF UdpPost, UdpWait, TaskStep
  <2>2. UdpSend \/ UdpSendFails \/ UdpNothingToSend \/ UdpClear \/ UdpReceive
        => TaskStep("udp")
    BY DEF UdpSend, UdpSendFails, UdpNothingToSend, UdpClear, UdpReceive, TaskStep
  <2> QED
    BY <1>1, <1>8, <2>1, <2>2 DEF Udp, Tasks
<1>9. CASE EXTI0_IRQHandler \/ SysTick_Handler
  BY <1>9, Names DEF EXTI0_IRQHandler, SysTick_Handler, KNext, Interrupt
<1>10. CASE Kernel
  BY <1>10 DEF Kernel, KNext
<1>11. CASE lwip_dhcp_task \/ TemperatureChanges \/ UNCHANGED vars
  BY <1>11 DEF lwip_dhcp_task, TemperatureChanges, vars, kvars
<1> QED
  BY <1>2, <1>3, <1>4, <1>5, <1>6, <1>7, <1>8, <1>9, <1>10, <1>11 DEF Next

\* The application does nothing to the kernel's state but kernel calls and
\* interrupts: the monitor implements module Ucos.
THEOREM MonitorUsesKernel == Spec => UsesKernel
<1>1. Init => KInit
  BY DEF Init
<1>2. [Next]_vars => [KNext]_kvars
  BY StepUsesKernel
<1> QED
  BY <1>1, <1>2, PTL DEF Spec, UsesKernel, KSpec

-----------------------------------------------------------------------------
(* The inductive invariant                                                 *)

\* Every task is at a place of its own program.
Places == DOMAIN pc = Tasks /\ \A t \in Tasks : pc[t] \in Pcs[t]

\* Where a task may wait, and for what.
WaitingPlaces ==
  {<<"send", "DATA", "copy">>, <<"display", "DATA", "show">>,
   <<"check", "DATA", "parse">>, <<"order", "ORDER", "handle">>,
   <<"cap", "SYN", "sample">>}

WaitPlace == \A t \in Tasks : pendOn[t] # None => <<t, pendOn[t], pc[t]>> \in WaitingPlaces

\* Nothing but a pend stops send_udp_task and order_handle_task: they never
\* sleep, no pend has a timeout, and only two tasks are ever suspended.
NeverSleeps ==
  /\ \A t \in Tasks : tstate[t] # "PEND_TIMEOUT"
  /\ tstate["send"] # "DLY" /\ tstate["order"] # "DLY"
  /\ \A t \in Tasks : susp[t] => t \in {"display", "boot"}

\* The processor is only kept by a task that calls OS_CRITICAL_ENTER.
HolderLocks == holder \in {None, "boot", "order", "check"}

\* Interrupts defer what the key handler and the tick post.
IsrEntries ==
  {[type |-> "SUSPEND", obj |-> "display", msg |-> None],
   [type |-> "Q", obj |-> "DATA", msg |-> "OVER"],
   [type |-> "Q", obj |-> "DATA", msg |-> "RECO"],
   [type |-> "RESUME", obj |-> "display", msg |-> None],
   [type |-> "TICK", obj |-> None, msg |-> None]}

IntQEntries == intQ \in Seq(IsrEntries)

Control == Places /\ WaitPlace /\ NeverSleeps /\ HolderLocks /\ IntQEntries

\* show_address creates send_udp_task before it creates cap_temp_task.
SendFirst ==
  /\ pc["boot"] \in {"poll", "send"} => ~Created("cap")
  /\ pc["boot"] \notin {"poll", "send"} => Created("send")

KernelOK == KTypeOK /\ HolderRuns /\ PendListExact /\ NoLostWakeup

-----------------------------------------------------------------------------
(* What the kernel calls do to it                                          *)

\* No task is created.
SameTasks == \A u \in Tasks : Created(u)' <=> Created(u)

\* The invariant without the places: what a call of task t keeps or changes.
Effect(t) ==
  /\ NeverSleeps' /\ HolderLocks' /\ IntQEntries' /\ SameTasks
  /\ \A u \in Tasks \ {t} : pendOn'[u] \in {pendOn[u], None}

\* A task that runs waits for nothing.
LEMMA RunningWaitsForNothing ==
  ASSUME KernelOK, NEW t \in Tasks, CanRun(t)
  PROVE  /\ pendOn[t] = None /\ tstate[t] = "RDY" /\ ~susp[t]
         /\ locked => holder = t
<1>1. t \in Task
  BY Names
<1>2. Ready(t) /\ (locked => holder = t)
  BY <1>1, RunningIsReady DEF KernelOK
<1> QED
  BY <1>1, <1>2 DEF Ready, KernelOK, PendListExact

\* A step moves one task.
LEMMA GotoEffect ==
  ASSUME Places, NEW t \in Tasks, NEW from, NEW to, Goto(t, from, to)
  PROVE  /\ pc[t] = from /\ pc'[t] = to /\ DOMAIN pc' = Tasks
         /\ \A u \in Tasks : u # t => pc'[u] = pc[u]
  BY DEF Goto, Places

\* A step without a kernel call.
LEMMA ComputeEffect ==
  ASSUME Control, NEW t \in Tasks, Compute(t)
  PROVE  Effect(t) /\ pendOn' = pendOn /\ locked' = locked
  BY DEF Compute, KeepCpu, Effect, Control, NeverSleeps, HolderLocks, IntQEntries,
         SameTasks, Created

\* OS_CRITICAL_ENTER and OS_CRITICAL_EXIT.
LEMMA LockEffect ==
  ASSUME Control, KernelOK, NEW t \in {"boot", "order", "check"}, Lock(t) \/ Unlock(t)
  PROVE  Effect(t) /\ pendOn' = pendOn
  BY DEF Lock, Unlock, Effect, Control, NeverSleeps, HolderLocks, IntQEntries,
         SameTasks, Created

\* OSTimeDlyHMSM, by a task other than the two most urgent ones.
LEMMA DelayEffect ==
  ASSUME Control, KernelOK, NEW t \in Tasks \ {"send", "order"}, OSTimeDly(t)
  PROVE  Effect(t) /\ pendOn' = pendOn /\ locked' = locked
<1>1. tstate \in [Tasks -> BaseState]
  BY Names DEF KernelOK, KTypeOK
<1>2. tstate[t] = "RDY"
  BY RunningWaitsForNothing DEF OSTimeDly
<1> QED
  BY <1>1, <1>2 DEF OSTimeDly, Effect, Control, NeverSleeps, HolderLocks, IntQEntries,
                    SameTasks, Created

\* OSQPend and OSSemPend, as the program calls them: without a timeout.
LEMMA PendEffect ==
  ASSUME Control, KernelOK, NEW t \in Tasks, NEW o \in {"DATA", "ORDER", "SYN"},
         OSQPend(t, o, FALSE) \/ OSSemPend(t, o, FALSE)
  PROVE  Effect(t) /\ pendOn'[t] \in {o, None} /\ locked' = locked
<1>1. /\ tstate \in [Tasks -> BaseState]
      /\ pendOn \in [Tasks -> Obj \cup {None}]
  BY Names DEF KernelOK, KTypeOK
<1>2. CASE OSQPendGet(t, o) \/ OSSemPendGet(t, o)
  <2>1. pendOn[t] = None
    BY <1>2, RunningWaitsForNothing DEF OSQPendGet, OSSemPendGet
  <2> QED
    BY <1>2, <2>1 DEF OSQPendGet, OSSemPendGet, KeepCpu, Effect, Control, NeverSleeps,
                      HolderLocks, IntQEntries, SameTasks, Created
<1>3. CASE PendLocked(t)
  <2>1. pendOn[t] = None
    BY <1>3, RunningWaitsForNothing DEF PendLocked
  <2> QED
    BY <1>3, <2>1 DEF PendLocked, Effect, Control, NeverSleeps, HolderLocks, IntQEntries,
                      SameTasks, Created
<1>4. CASE Block(t, o, FALSE)
  <2>1. tstate[t] = "RDY"
    BY <1>4, RunningWaitsForNothing DEF Block
  <2> QED
    BY <1>1, <1>4, <2>1
    DEF Block, OS_Pend, Effect, Control, NeverSleeps, HolderLocks, IntQEntries, SameTasks,
        Created
<1> QED
  BY <1>2, <1>3, <1>4 DEF OSQPend, OSSemPend

\* Only tasks that wait for the object are woken.
LEMMA PostEffect ==
  ASSUME Control, KernelOK,
         NEW o \in {"DATA", "ORDER", "SYN"}, NEW m, NEW all \in BOOLEAN,
         OS_QPost(o, m, all) \/ (o = "SYN" /\ OS_SemPost(o)), UNCHANGED susp
  PROVE  /\ NeverSleeps' /\ SameTasks
         /\ \A u \in Tasks : \/ pendOn'[u] = pendOn[u]
                             \/ pendOn'[u] = None /\ pendOn[u] = o
<1>1. /\ tstate \in [Tasks -> BaseState] /\ Task = Tasks
      /\ pendOn \in [Tasks -> Obj \cup {None}]
  BY Names DEF KernelOK, KTypeOK
<1>2. CASE pendList[o] = <<>>
  BY <1>2 DEF OS_QPost, OS_SemPost, Control, NeverSleeps, SameTasks, Created
<1>3. CASE pendList[o] # <<>>
  <2>1. PICK W, n : OS_Post(W, n) /\ W \subseteq Range(pendList[o])
    <3>1. o \in Obj /\ pendList[o] \in Seq(Task)
      BY Names DEF KernelOK, KTypeOK, Obj
    <3>2. Head(pendList[o]) \in Range(pendList[o])
      BY <1>3, <3>1, HeadTailProperties, LenProperties, EmptySeq DEF Range
    <3> QED
      BY <1>3, <3>2 DEF OS_QPost, OS_SemPost
  <2>2. \A u \in W : u \in Tasks => pendOn[u] = o
    BY <1>1, <2>1, Names DEF KernelOK, PendListExact, Obj
  <2>3. \A u \in Tasks : /\ tstate'[u] \in {"RDY", tstate[u]}
                         /\ pendOn'[u] = IF u \in W THEN None ELSE pendOn[u]
    BY <1>1, <2>1 DEF OS_Post
  <2>4. NeverSleeps'
    BY <2>3 DEF Control, NeverSleeps, Tasks
  <2>5. SameTasks
    <3>1. \A u \in Tasks : /\ u \in W => tstate[u] \in {"PEND", "PEND_TIMEOUT"}
                           /\ tstate'[u] = IF u \in W THEN "RDY" ELSE tstate[u]
      BY <1>1, <2>1, <2>2, Names, KernelAssumption DEF OS_Post, KernelOK, PendListExact, Obj
    <3> QED
      BY <3>1 DEF SameTasks, Created
  <2> QED
    BY <2>2, <2>3, <2>4, <2>5
<1> QED
  BY <1>2, <1>3

\* OSQPost and OSSemPost.
LEMMA PostCallEffect ==
  ASSUME Control, KernelOK, NEW t \in Tasks, NEW o \in {"DATA", "ORDER", "SYN"},
         NEW m, NEW all \in BOOLEAN,
         OSQPost(t, o, m, all) \/ (o = "SYN" /\ OSSemPost(t, o))
  PROVE  /\ Effect(t) /\ pendOn'[t] = None /\ locked' = locked
         /\ \A u \in Tasks : \/ pendOn'[u] = pendOn[u]
                             \/ pendOn'[u] = None /\ pendOn[u] = o
<1>1. /\ OS_QPost(o, m, all) \/ (o = "SYN" /\ OS_SemPost(o))
      /\ holder' \in {holder, None} /\ UNCHANGED <<susp, intQ, locked>>
  BY DEF OSQPost, OSSemPost, KeepCpu, OSSched
<1>2. pendOn[t] = None
  BY RunningWaitsForNothing DEF OSQPost, OSSemPost
<1> QED
  BY <1>1, <1>2, PostEffect DEF Effect, Control, HolderLocks, IntQEntries

\* OSTaskSuspend and OSTaskResume, as the program calls them.
LEMMA SuspendEffect ==
  ASSUME Control, KernelOK, NEW t \in Tasks, NEW u \in {"display", "boot"},
         OSTaskSuspend(t, u) \/ OSTaskResume(t, u)
  PROVE  Effect(t) /\ pendOn' = pendOn /\ locked' = locked
<1>1. /\ holder' \in {holder, None} /\ UNCHANGED <<tstate, pendOn, intQ, locked>>
      /\ OS_TaskSuspend(u) \/ OS_TaskResume(u) \/ UNCHANGED susp
  BY DEF OSTaskSuspend, OSTaskResume, OSSched
<1>2. \A v \in Tasks : v # u => susp'[v] = susp[v]
  BY <1>1, Names DEF OS_TaskSuspend, OS_TaskResume, KernelOK, KTypeOK
<1>3. NeverSleeps' /\ SameTasks
  BY <1>1, <1>2 DEF Control, NeverSleeps, SameTasks, Created
<1> QED
  BY <1>1, <1>3 DEF Effect, Control, HolderLocks, IntQEntries

\* OSTaskCreate, which fills in the TCB of a task that waits for nothing.
LEMMA CreateEffect ==
  ASSUME Control, KernelOK, NEW t \in Tasks, NEW u \in Tasks, OSTaskCreate(t, u)
  PROVE  /\ NeverSleeps' /\ HolderLocks' /\ IntQEntries'
         /\ UNCHANGED <<pendOn, rcv, msgQ, semCtr, susp, suspendCtr, locked, intQ>>
         /\ ~Created(u) /\ Created(u)'
         /\ \A v \in Tasks : v # u => (Created(v)' <=> Created(v))
<1>1. tstate \in [Tasks -> BaseState]
  BY Names DEF KernelOK, KTypeOK
<1> QED
  BY <1>1 DEF OSTaskCreate, OSSched, Control, NeverSleeps, HolderLocks, IntQEntries, Created

\* An interrupt handler, the tick task and the interrupt queue task, which
\* change the place of no task.
LEMMA SystemEffect ==
  ASSUME Control, KernelOK,
         \/ \E es \in {KeySuspends, KeyRecovers, TickPost} : Isr(es)
         \/ OS_IntQTask \/ TickTask
  PROVE  /\ NeverSleeps' /\ HolderLocks' /\ IntQEntries' /\ SameTasks
         /\ locked' = locked /\ semCtr' = semCtr
         /\ \A u \in Tasks : \/ pendOn'[u] = pendOn[u]
                             \/ pendOn'[u] = None /\ pendOn[u] = "DATA"
<1>1. CASE \E es \in {KeySuspends, KeyRecovers, TickPost} : Isr(es)
  <2>1. PICK es \in {KeySuspends, KeyRecovers, TickPost} : Isr(es)
    BY <1>1
  <2>2. es \in Seq(IsrEntries)
    <3>1. \A a, b \in IsrEntries : <<a, b>> \in Seq(IsrEntries) /\ <<a>> \in Seq(IsrEntries)
      OBVIOUS
    <3>2. /\ [type |-> "SUSPEND", obj |-> "display", msg |-> None] \in IsrEntries
          /\ [type |-> "Q", obj |-> "DATA", msg |-> "OVER"] \in IsrEntries
          /\ [type |-> "Q", obj |-> "DATA", msg |-> "RECO"] \in IsrEntries
          /\ [type |-> "RESUME", obj |-> "display", msg |-> None] \in IsrEntries
          /\ [type |-> "TICK", obj |-> None, msg |-> None] \in IsrEntries
      BY DEF IsrEntries
    <3> QED
      BY <3>1, <3>2 DEF KeySuspends, KeyRecovers, TickPost
  <2>3. intQ' \in Seq(IsrEntries)
    <3> DEFINE room == IntQSize - Len(intQ)
               n    == IF Len(es) < room THEN Len(es) ELSE room
    <3>1. IntQSize \in Nat /\ Len(intQ) \in Nat /\ Len(intQ) <= IntQSize /\ Len(es) \in Nat
      BY <2>2, KernelAssumption, LenProperties DEF KernelOK, KTypeOK
    <3>2. n \in 0..Len(es)
      BY <3>1
    <3>3. intQ' = intQ \o SubSeq(es, 1, n)
      BY <2>1 DEF Isr, IntQPosted
    <3> HIDE DEF n
    <3>4. SubSeq(es, 1, n) \in Seq(IsrEntries)
      BY <2>2, <3>1, <3>2, SubSeqElement
    <3> QED
      BY <3>3, <3>4, ConcatProperties DEF Control, IntQEntries
  <2> QED
    BY <2>1, <2>3 DEF Isr, Control, NeverSleeps, HolderLocks, IntQEntries, SameTasks, Created
<1>2. CASE OS_IntQTask
  <2> DEFINE e == Head(intQ)
  <2>1. e \in IsrEntries /\ Tail(intQ) \in Seq(IsrEntries)
    BY <1>2, HeadTailProperties DEF OS_IntQTask, Control, IntQEntries
  <2>2. OS_IntQRePost(e) /\ intQ' = Tail(intQ) /\ holder' = None /\ locked' = locked
    BY <1>2 DEF OS_IntQTask
  <2> HIDE DEF e
  <2>3. CASE e.type = "Q"
    <3> DEFINE all == e.type = "Q_ALL"
    <3>1. /\ OS_QPost(e.obj, e.msg, all)
          /\ UNCHANGED <<susp, semCtr>>
      BY <2>2, <2>3 DEF OS_IntQRePost
    <3>2. e.obj = "DATA" /\ all \in BOOLEAN
      BY <2>1, <2>3 DEF IsrEntries
    <3> HIDE DEF all
    <3>3. /\ NeverSleeps' /\ SameTasks
          /\ \A u \in Tasks : \/ pendOn'[u] = pendOn[u]
                              \/ pendOn'[u] = None /\ pendOn[u] = "DATA"
      BY <3>1, <3>2, PostEffect
    <3> QED
      BY <2>1, <2>2, <3>1, <3>3 DEF HolderLocks, IntQEntries
  <2>4. CASE e.type # "Q"
    <3>1. /\ UNCHANGED <<tstate, pendOn, semCtr>>
          /\ \A u \in Tasks : u # "display" => susp'[u] = susp[u]
      BY <2>1, <2>2, <2>4, Names
      DEF IsrEntries, OS_IntQRePost, OS_TaskSuspend, OS_TaskResume, KernelOK, KTypeOK
    <3> QED
      BY <2>1, <2>2, <3>1
      DEF Control, NeverSleeps, HolderLocks, IntQEntries, SameTasks, Created
  <2> QED
    BY <2>3, <2>4
<1>3. CASE TickTask
  <2>1. PICK t \in Tasks : DelayExpires(t)
    BY <1>3, Names DEF TickTask, PendTimesOut, Control, NeverSleeps
  <2>2. tstate \in [Tasks -> BaseState]
    BY Names DEF KernelOK, KTypeOK
  <2> QED
    BY <2>1, <2>2 DEF DelayExpires, Control, NeverSleeps, HolderLocks, IntQEntries,
                      SameTasks, Created
<1> QED
  BY <1>1, <1>2, <1>3

\* The places, given what a call does to its task.
LEMMA PlacesStep ==
  ASSUME Control, NEW t \in Tasks, NEW from, NEW to, Goto(t, from, to),
         to \in Pcs[t], Effect(t),
         pendOn'[t] # None => <<t, pendOn'[t], to>> \in WaitingPlaces
  PROVE  Control'
<1>1. /\ pc'[t] = to /\ DOMAIN pc' = Tasks
      /\ \A u \in Tasks : u # t => pc'[u] = pc[u]
  BY GotoEffect DEF Control
<1>2. Places'
  BY <1>1 DEF Places, Control
<1>3. WaitPlace'
  BY <1>1 DEF WaitPlace, Control, Effect
<1> QED
  BY <1>2, <1>3 DEF Control, Effect

\* The calls that never block, apart from the sleeping of a task.
Call(t) ==
  \/ Compute(t)
  \/ t \in {"boot", "order", "check"} /\ (Lock(t) \/ Unlock(t))
  \/ t \notin {"send", "order"} /\ OSTimeDly(t)
  \/ \E q \in {"DATA", "ORDER"}, m \in Msg, all \in BOOLEAN : OSQPost(t, q, m, all)
  \/ OSSemPost(t, "SYN")
  \/ OSTaskSuspend(t, "display") \/ OSTaskResume(t, "display")
  \/ OSTaskSuspend(t, "boot")

\* A task moves on with a call that does not block.
LEMMA CallStep ==
  ASSUME Control, KernelOK, NEW t \in Tasks, NEW from, NEW to, Goto(t, from, to),
         to \in Pcs[t], Call(t)
  PROVE  Control' /\ Effect(t)
<1>1. Effect(t) /\ (pendOn'[t] = None \/ pendOn' = pendOn)
  <2>1. CASE Compute(t)
    BY <2>1, ComputeEffect
  <2>2. CASE t \in {"boot", "order", "check"} /\ (Lock(t) \/ Unlock(t))
    BY <2>2, LockEffect
  <2>3. CASE t \notin {"send", "order"} /\ OSTimeDly(t)
    BY <2>3, DelayEffect
  <2>4. CASE \/ \E q \in {"DATA", "ORDER"}, m \in Msg, all \in BOOLEAN : OSQPost(t, q, m, all)
             \/ OSSemPost(t, "SYN")
    BY <2>4, PostCallEffect
  <2>5. CASE \/ OSTaskSuspend(t, "display") \/ OSTaskResume(t, "display")
             \/ OSTaskSuspend(t, "boot")
    BY <2>5, SuspendEffect
  <2> QED
    BY <2>1, <2>2, <2>3, <2>4, <2>5 DEF Call
<1>2. CanRun(t)
  BY DEF Call, Compute, Lock, Unlock, OSTimeDly, OSQPost, OSSemPost, OSTaskSuspend,
         OSTaskResume
<1>3. pendOn'[t] = None
  BY <1>1, <1>2, RunningWaitsForNothing
<1> QED
  BY <1>1, <1>3, PlacesStep

\* A task moves on with a call that may block.
LEMMA PendStep ==
  ASSUME Control, KernelOK, NEW t \in Tasks, NEW from, NEW to, Goto(t, from, to),
         to \in Pcs[t], NEW o \in {"DATA", "ORDER", "SYN"},
         <<t, o, to>> \in WaitingPlaces,
         OSQPend(t, o, FALSE) \/ OSSemPend(t, o, FALSE)
  PROVE  Control' /\ Effect(t)
  BY PendEffect, PlacesStep

\* suspend_task and recovery_task keep the invariant.
LEMMA SectionControl ==
  ASSUME Control, KernelOK, NEW t \in {"boot", "order", "check"}, CriticalSection(t)
  PROVE  Control' /\ Effect(t)
<1>1. t \in Tasks
  BY DEF Tasks
<1>2. Return(t) \in Pcs[t]
  BY DEF Return, Pcs, Tasks
<1>3. pc[t] \in Pcs[t]
  BY <1>1 DEF Control, Places
<1>4. InSuspend \subseteq Pcs[t]
  BY DEF Pcs, Tasks
<1>5. pc[t] \in {"r_enter"} \cup InRecovery => InRecovery \subseteq Pcs[t]
  BY <1>3 DEF Pcs, Tasks, InSuspend, InRecovery, InShowAddress
<1>6. CASE SuspendEnter(t)
  BY <1>1, <1>4, <1>6, CallStep DEF SuspendEnter, InSuspend, Call
<1>7. CASE SuspendDisplay(t)
  BY <1>1, <1>4, <1>7, CallStep DEF SuspendDisplay, InSuspend, Call
<1>8. CASE SuspendPost(t)
  BY <1>1, <1>4, <1>8, CallStep, Names DEF SuspendPost, InSuspend, Call
<1>9. CASE SuspendExit(t)
  BY <1>1, <1>2, <1>9, CallStep DEF SuspendExit, Call
<1>10. CASE RecoveryEnter(t)
  <2>1. "r_post" \in Pcs[t]
    BY <1>5, <1>10 DEF RecoveryEnter, Goto, InRecovery
  <2> QED
    BY <1>1, <1>10, <2>1, CallStep DEF RecoveryEnter, Call
<1>11. CASE RecoveryPost(t)
  <2>1. "r_resume" \in Pcs[t]
    BY <1>5, <1>11 DEF RecoveryPost, Goto, InRecovery
  <2> QED
    BY <1>1, <1>11, <2>1, CallStep, Names DEF RecoveryPost, Call
<1>12. CASE RecoveryResume(t)
  <2>1. "r_exit" \in Pcs[t]
    BY <1>5, <1>12 DEF RecoveryResume, Goto, InRecovery
  <2> QED
    BY <1>1, <1>12, <2>1, CallStep DEF RecoveryResume, Call
<1>13. CASE RecoveryExit(t)
  BY <1>1, <1>2, <1>13, CallStep DEF RecoveryExit, Call
<1> QED
  BY <1>6, <1>7, <1>8, <1>9, <1>10, <1>11, <1>12, <1>13 DEF CriticalSection

\* A step of task t outside the critical sections.
Plain(t) ==
  /\ Control' /\ Effect(t) /\ CanRun(t) /\ locked' = locked
  /\ \E from, to \in Pcs[t] \ Section : Goto(t, from, to)

\* A call that does not block, outside the critical sections.
LEMMA PlainCall ==
  ASSUME Control, KernelOK, NEW t \in Tasks,
         NEW from \in Pcs[t] \ Section, NEW to \in Pcs[t] \ Section, Goto(t, from, to),
         Call(t), locked' = locked
  PROVE  Plain(t)
<1>1. CanRun(t)
  BY DEF Call, Compute, Lock, Unlock, OSTimeDly, OSQPost, OSSemPost, OSTaskSuspend,
         OSTaskResume
<1> QED
  BY <1>1, CallStep DEF Plain

\* A pend, outside the critical sections.
LEMMA PlainPend ==
  ASSUME Control, KernelOK, NEW t \in Tasks, NEW o \in {"DATA", "ORDER", "SYN"},
         NEW from \in Pcs[t] \ Section, NEW to \in Pcs[t] \ Section, Goto(t, from, to),
         <<t, o, to>> \in WaitingPlaces,
         OSQPend(t, o, FALSE) \/ OSSemPend(t, o, FALSE)
  PROVE  Plain(t)
<1>1. CanRun(t) /\ locked' = locked
  BY DEF OSQPend, OSSemPend, OSQPendGet, OSSemPendGet, PendLocked, Block
<1> QED
  BY <1>1, PendStep DEF Plain

\* A step without a kernel call, outside the critical sections.
LEMMA PlainCompute ==
  ASSUME Control, KernelOK, NEW t \in Tasks,
         NEW from \in Pcs[t] \ Section, NEW to \in Pcs[t] \ Section, Goto(t, from, to),
         Compute(t)
  PROVE  Plain(t)
<1>1. CanRun(t) /\ locked' = locked
  BY DEF Compute
<1> QED
  BY <1>1, CallStep DEF Plain, Call

\* The places outside the critical sections, task by task.
LEMMA PlainPlaces ==
  /\ {"boot", "order", "send", "udp", "cap", "check", "display"} = Tasks
  /\ {"poll", "self", "gone", "s_enter"} \subseteq Pcs["boot"] \ Section
  /\ {"pend", "copy", "flag", "post"} \subseteq Pcs["send"] \ Section
  /\ {"pend", "show"} \subseteq Pcs["display"] \ Section
  /\ {"pend", "sample", "post", "delay"} \subseteq Pcs["cap"] \ Section
  /\ {"pend", "parse", "decide", "beep", "s_enter", "r_enter"} \subseteq Pcs["check"] \ Section
  /\ {"pend", "handle", "q_post", "s_enter", "r_enter"} \subseteq Pcs["order"] \ Section
  /\ {"poll", "clear", "recv", "post"} \subseteq Pcs["udp"] \ Section
  BY DEF Pcs, Section, InSuspend, InRecovery, InShowAddress, Tasks

\* send_udp_task.
LEMMA SendPlain ==
  ASSUME Control, KernelOK, Send
  PROVE  Plain("send")
<1>1. CASE SendPend
  BY <1>1, PlainPend, PlainPlaces DEF SendPend, WaitingPlaces
<1>2. CASE SendCopy \/ SendFlag
  BY <1>2, PlainCompute, PlainPlaces DEF SendCopy, SendFlag
<1>3. CASE SendPost
  BY <1>3, PlainCall, PlainPlaces
  DEF SendPost, Call, OSSemPost
<1> QED
  BY <1>1, <1>2, <1>3 DEF Send

\* display_task.
LEMMA DisplayPlain ==
  ASSUME Control, KernelOK, Display
  PROVE  Plain("display")
<1>1. CASE DisplayPend
  BY <1>1, PlainPend, PlainPlaces DEF DisplayPend, WaitingPlaces
<1>2. CASE DisplayShow
  BY <1>2, PlainCompute, PlainPlaces DEF DisplayShow
<1> QED
  BY <1>1, <1>2 DEF Display

\* cap_temp_task.
LEMMA CapPlain ==
  ASSUME Control, KernelOK, Cap
  PROVE  Plain("cap")
<1>1. CASE CapPend
  BY <1>1, PlainPend, PlainPlaces DEF CapPend, WaitingPlaces
<1>2. CASE CapSample
  BY <1>2, PlainCompute, PlainPlaces DEF CapSample
<1>3. CASE CapPost
  BY <1>3, PlainCall, PlainPlaces, Names DEF CapPost, Call, OSQPost
<1>4. CASE CapDelay
  BY <1>4, PlainCall, PlainPlaces DEF CapDelay, Call, OSTimeDly
<1> QED
  BY <1>1, <1>2, <1>3, <1>4 DEF Cap

\* check_temp_task.
LEMMA CheckPlain ==
  ASSUME Control, KernelOK, CheckPend \/ CheckParse \/ CheckDecide \/ CheckBeep
  PROVE  Plain("check")
<1>1. CASE CheckPend
  BY <1>1, PlainPend, PlainPlaces DEF CheckPend, WaitingPlaces
<1>2. CASE CheckParse
  BY <1>2, PlainCompute, PlainPlaces DEF CheckParse
<1>3. CASE CheckDecide
  BY <1>3, PlainCompute, PlainPlaces DEF CheckDecide
<1>4. CASE CheckBeep
  BY <1>4, PlainCall, PlainPlaces DEF CheckBeep, Call, OSTimeDly
<1> QED
  BY <1>1, <1>2, <1>3, <1>4

\* order_handle_task.
LEMMA OrderPlain ==
  ASSUME Control, KernelOK,
         \/ OrderPend \/ OrderSetLimits \/ OrderRecover \/ OrderSuspend
         \/ OrderTestReading \/ OrderPostReading \/ OrderIgnore
  PROVE  Plain("order")
<1>1. CASE OrderPend
  BY <1>1, PlainPend, PlainPlaces DEF OrderPend, WaitingPlaces
<1>2. CASE OrderSetLimits \/ OrderRecover \/ OrderSuspend \/ OrderTestReading \/ OrderIgnore
  BY <1>2, PlainCompute, PlainPlaces
  DEF OrderSetLimits, OrderRecover, OrderSuspend, OrderTestReading, OrderIgnore
<1>3. CASE OrderPostReading
  BY <1>3, PlainCall, PlainPlaces, Names DEF OrderPostReading, Call, OSQPost
<1> QED
  BY <1>1, <1>2, <1>3

\* udp_thread.
LEMMA UdpPlain ==
  ASSUME Control, KernelOK, Udp
  PROVE  Plain("udp")
<1>1. CASE UdpSend \/ UdpSendFails \/ UdpNothingToSend \/ UdpClear \/ UdpReceive
  BY <1>1, PlainCompute, PlainPlaces
  DEF UdpSend, UdpSendFails, UdpNothingToSend, UdpClear, UdpReceive
<1>2. CASE UdpPost
  BY <1>2, PlainCall, PlainPlaces, Names DEF UdpPost, Call, OSQPost
<1>3. CASE UdpWait
  BY <1>3, PlainCall, PlainPlaces DEF UdpWait, Call, OSTimeDly
<1> QED
  BY <1>1, <1>2, <1>3 DEF Udp

\* dhcp_start_task while it waits for the address, and its end.
LEMMA BootPlain ==
  ASSUME Control, KernelOK, BootPoll \/ BootSuspendsSelf
  PROVE  Plain("boot")
<1>1. CASE BootPoll
  BY <1>1, PlainCall, PlainPlaces DEF BootPoll, Call, OSTimeDly
<1>2. CASE BootSuspendsSelf
  BY <1>2, PlainCall, PlainPlaces DEF BootSuspendsSelf, Call, OSTaskSuspend
<1> QED
  BY <1>1, <1>2

\* dhcp_start_task inside show_address: it locks the scheduler, creates the tasks
\* in their order, and unlocks it.
ShowAddress == ShowAddressEnter \/ CreateTasks \/ ShowAddressExit

\* What show_address leaves alone, and the places it moves through.
LEMMA ShowAddressStep ==
  ASSUME Control, KernelOK, ShowAddress
  PROVE  /\ Control'
         /\ UNCHANGED <<pendOn, rcv, msgQ, semCtr, susp, suspendCtr, intQ>>
         /\ UNCHANGED <<dataVars, envVars>>
         /\ pc'["boot"] # pc["boot"] /\ pc'["boot"] \in InShowAddress \cup {"s_enter"}
         /\ \A u \in Tasks : u # "boot" => pc'[u] = pc[u]
<1>1. "boot" \in Tasks /\ InShowAddress \cup {"s_enter"} \subseteq Pcs["boot"]
      /\ {"send", "cap", "check", "display", "order"} \subseteq Tasks
  BY DEF Tasks, Pcs
<1>2. PICK from, to \in InShowAddress \cup {"poll", "s_enter"} :
        Goto("boot", from, to) /\ from # to /\ to # "poll"
  BY DEF ShowAddress, ShowAddressEnter, CreateTasks, ShowAddressCreates, ShowAddressExit,
         InShowAddress
<1>3. /\ pc["boot"] = from /\ pc'["boot"] = to /\ DOMAIN pc' = Tasks
      /\ \A u \in Tasks : u # "boot" => pc'[u] = pc[u]
  BY <1>1, <1>2, GotoEffect DEF Control
<1>4. /\ NeverSleeps' /\ HolderLocks' /\ IntQEntries'
      /\ UNCHANGED <<pendOn, rcv, msgQ, semCtr, susp, suspendCtr, intQ>>
      /\ UNCHANGED <<dataVars, envVars>> /\ CanRun("boot")
  <2>1. CASE ShowAddressEnter \/ ShowAddressExit
    <3>1. Lock("boot") \/ Unlock("boot")
      BY <2>1 DEF ShowAddressEnter, ShowAddressExit
    <3>2. Effect("boot")
      BY <3>1, LockEffect
    <3> QED
      BY <2>1, <3>1, <3>2 DEF Effect, Lock, Unlock, ShowAddressEnter, ShowAddressExit
  <2>2. CASE CreateTasks
    <3>1. PICK u \in Tasks : OSTaskCreate("boot", u)
      BY <1>1, <2>2 DEF CreateTasks, ShowAddressCreates
    <3>2. UNCHANGED <<dataVars, envVars>>
      BY <2>2 DEF CreateTasks, ShowAddressCreates
    <3> QED
      BY <1>1, <3>1, <3>2, CreateEffect DEF OSTaskCreate
  <2> QED
    BY <2>1, <2>2 DEF ShowAddress
<1>5. pendOn["boot"] = None
  BY <1>1, <1>4, RunningWaitsForNothing
<1>6. Places'
  BY <1>1, <1>2, <1>3 DEF Places, Control
<1>7. WaitPlace'
  BY <1>3, <1>4, <1>5 DEF WaitPlace, Control
<1> QED
  BY <1>2, <1>3, <1>4, <1>6, <1>7 DEF Control

\* What happens without a task of the application.
NoTask ==
  \/ EXTI0_IRQHandler \/ SysTick_Handler \/ Kernel
  \/ lwip_dhcp_task \/ TemperatureChanges \/ UNCHANGED vars

\* A step that is no task's: interrupts, kernel tasks, the address, temperature,
\* stuttering.
LEMMA QuietStep ==
  ASSUME Control, KernelOK, NoTask
  PROVE  /\ Control' /\ UNCHANGED <<pc, locked, semCtr>> /\ SameTasks
         /\ \A u \in Tasks : \/ pendOn'[u] = pendOn[u]
                             \/ pendOn'[u] = None /\ pendOn[u] = "DATA"
<1>1. CASE EXTI0_IRQHandler \/ SysTick_Handler \/ Kernel
  <2>1. /\ pc' = pc
        /\ \/ \E es \in {KeySuspends, KeyRecovers, TickPost} : Isr(es)
           \/ OS_IntQTask \/ TickTask
    BY <1>1 DEF EXTI0_IRQHandler, SysTick_Handler, Kernel
  <2>2. /\ NeverSleeps' /\ HolderLocks' /\ IntQEntries' /\ SameTasks
        /\ locked' = locked /\ semCtr' = semCtr
        /\ \A u \in Tasks : \/ pendOn'[u] = pendOn[u]
                            \/ pendOn'[u] = None /\ pendOn[u] = "DATA"
    BY <2>1, SystemEffect
  <2>3. Places' /\ WaitPlace'
    BY <2>1, <2>2 DEF Control, Places, WaitPlace
  <2> QED
    BY <2>1, <2>2, <2>3 DEF Control
<1>2. CASE lwip_dhcp_task \/ TemperatureChanges \/ UNCHANGED vars
  BY <1>2
  DEF lwip_dhcp_task, TemperatureChanges, vars, kvars, Control, Places, WaitPlace,
      NeverSleeps, HolderLocks, IntQEntries, SameTasks, Created
<1> QED
  BY <1>1, <1>2 DEF NoTask

\* The steps of the program: a step of a critical section or of show_address, a
\* plain step of a task, or none of a task.
LEMMA NextCases ==
  ASSUME Control, KernelOK, [Next]_vars
  PROVE  \/ \E t \in {"boot", "order", "check"} : CriticalSection(t)
         \/ ShowAddress
         \/ Send /\ Plain("send")
         \/ Cap /\ Plain("cap")
         \/ Udp /\ Plain("udp")
         \/ Display /\ Plain("display")
         \/ (BootPoll \/ BootSuspendsSelf) /\ Plain("boot")
         \/ (CheckPend \/ CheckParse \/ CheckDecide \/ CheckBeep) /\ Plain("check")
         \/ /\ \/ OrderPend \/ OrderSetLimits \/ OrderRecover \/ OrderSuspend
               \/ OrderTestReading \/ OrderPostReading \/ OrderIgnore
            /\ Plain("order")
         \/ NoTask
  BY SendPlain, CapPlain, UdpPlain, DisplayPlain, BootPlain, CheckPlain, OrderPlain
  DEF Next, Boot, Check, Order, ShowAddress, NoTask

\* The control invariant is inductive.
LEMMA ControlStep ==
  ASSUME Control, KernelOK, [Next]_vars
  PROVE  Control'
  BY NextCases, SectionControl, ShowAddressStep, QuietStep DEF Plain

-----------------------------------------------------------------------------
(* The theorems                                                            *)

\* The kernel's invariants hold of the monitor.
LEMMA MonitorKernelOK == Spec => []KernelOK
  BY MonitorUsesKernel, KTypeCorrect, HolderCorrect, PendListCorrect, WakeupCorrect, PTL
  DEF UsesKernel, KernelOK

\* Initially every task is at the start of its program.
LEMMA InitControl ==
  ASSUME Init
  PROVE  Control
<1>1. Places
  BY DEF Init, Places, Pcs, Tasks
<1>2. WaitPlace /\ NeverSleeps /\ HolderLocks /\ IntQEntries
  BY Names, EmptySeq
  DEF Init, KInit, WaitPlace, NeverSleeps, HolderLocks, IntQEntries, Tasks
<1> QED
  BY <1>1, <1>2 DEF Control

\* Every task is at a place of its own program, waits only where that program
\* pends, and only display and dhcp_start_task are ever suspended.
THEOREM ControlCorrect == Spec => []Control
<1>1. Control /\ KernelOK /\ [Next]_vars => Control'
  BY ControlStep
<1> QED
  BY <1>1, InitControl, MonitorKernelOK, PTL DEF Spec

\* A step keeps the scheduler locked exactly inside the critical sections.
LEMMA SectionStep ==
  ASSUME Control, KernelOK, LockIsSection, [Next]_vars
  PROVE  LockIsSection'
<1>1. ASSUME NEW t \in {"boot", "order", "check"}, CriticalSection(t)
      PROVE  LockIsSection'
  <2>1. t \in Tasks /\ Return(t) \notin Section
    BY DEF Tasks, Return, Section, InSuspend, InRecovery, InShowAddress
  <2>2. CASE SuspendEnter(t) \/ RecoveryEnter(t)
    <3>1. \E from, to : Goto(t, from, to) /\ to \in Section
      BY <2>2 DEF SuspendEnter, RecoveryEnter, Section, InSuspend, InRecovery, InShowAddress
    <3>2. ~locked /\ locked' /\ holder' = t
      BY <2>2 DEF SuspendEnter, RecoveryEnter, Lock
    <3>3. pc'[t] \in Section /\ \A u \in Tasks : u # t => pc'[u] = pc[u]
      BY <2>1, <3>1, GotoEffect DEF Control
    <3> QED
      BY <3>2, <3>3 DEF LockIsSection, Section
  <2>3. CASE SuspendExit(t) \/ RecoveryExit(t)
    <3>1. \E from : Goto(t, from, Return(t))
      BY <2>3 DEF SuspendExit, RecoveryExit
    <3>2. locked /\ ~locked' /\ CanRun(t)
      BY <2>3 DEF SuspendExit, RecoveryExit, Unlock
    <3>3. holder = t
      BY <3>2 DEF CanRun
    <3>4. pc'[t] \notin Section /\ \A u \in Tasks : u # t => pc'[u] = pc[u]
      BY <2>1, <3>1, GotoEffect DEF Control
    <3> QED
      BY <3>2, <3>3, <3>4 DEF LockIsSection, Section
  <2>4. CASE \/ SuspendDisplay(t) \/ SuspendPost(t)
             \/ RecoveryPost(t) \/ RecoveryResume(t)
    <3>1. \E from, to : Goto(t, from, to) /\ from \in Section /\ to \in Section
      BY <2>4
      DEF SuspendDisplay, SuspendPost, RecoveryPost, RecoveryResume, Section, InSuspend,
          InRecovery, InShowAddress
    <3>2. /\ pc[t] \in Section /\ pc'[t] \in Section
          /\ \A u \in Tasks : u # t => pc'[u] = pc[u]
      BY <2>1, <3>1, GotoEffect DEF Control
    <3>3. locked /\ holder = t
      BY <2>1, <3>2 DEF LockIsSection, Section
    <3>4. locked' = locked /\ holder' = holder
      BY <2>4, <3>3
      DEF SuspendDisplay, SuspendPost, RecoveryPost, RecoveryResume, OSTaskSuspend,
          OSTaskResume, OSQPost, OSSched, KeepCpu
    <3> QED
      BY <3>2, <3>4 DEF LockIsSection, Section
  <2> QED
    BY <1>1, <2>2, <2>3, <2>4 DEF CriticalSection
<1>2. ASSUME NEW t \in Tasks, Plain(t)
      PROVE  LockIsSection'
  <2>1. /\ pc[t] \notin Section /\ pc'[t] \notin Section
        /\ \A u \in Tasks : u # t => pc'[u] = pc[u]
    BY <1>2, GotoEffect DEF Plain, Control
  <2>2. ~locked
    BY <1>2, <2>1 DEF Plain, CanRun, LockIsSection, Section
  <2>3. ~locked'
    BY <1>2, <2>2 DEF Plain
  <2> QED
    BY <2>1, <2>2, <2>3 DEF LockIsSection, Section
<1>3. CASE NoTask /\ ~Kernel
  BY <1>3
  DEF NoTask, EXTI0_IRQHandler, SysTick_Handler, Isr, lwip_dhcp_task, TemperatureChanges,
      vars, kvars, LockIsSection
<1>4. CASE Kernel
  <2>1. ~locked /\ ~locked' /\ pc' = pc
    BY <1>4 DEF Kernel, OS_IntQTask, TickTask, DelayExpires, PendTimesOut
  <2> QED
    BY <2>1 DEF LockIsSection
<1>5. CASE ShowAddress
  <2>1. "boot" \in Tasks /\ \A u \in Tasks : u # "boot" => pc'[u] = pc[u]
    BY <1>5, ShowAddressStep DEF Tasks
  <2>2. \A from, to : Goto("boot", from, to) => pc["boot"] = from /\ pc'["boot"] = to
    BY <2>1, GotoEffect DEF Control
  <2>3. CASE ShowAddressEnter
    <3>1. ~locked /\ locked' /\ holder' = "boot" /\ pc'["boot"] \in Section
      BY <2>2, <2>3 DEF ShowAddressEnter, Lock, Section, InShowAddress
    <3> QED
      BY <2>1, <3>1 DEF LockIsSection
  <2>4. CASE ShowAddressExit
    <3>1. holder = "boot" /\ locked /\ ~locked' /\ pc'["boot"] \notin Section
      BY <2>2, <2>4
      DEF ShowAddressExit, Unlock, CanRun, Section, InSuspend, InRecovery, InShowAddress
    <3> QED
      BY <2>1, <3>1 DEF LockIsSection
  <2>5. CASE CreateTasks
    <3>1. pc["boot"] \in Section /\ pc'["boot"] \in Section
      BY <2>2, <2>5 DEF CreateTasks, ShowAddressCreates, Section, InShowAddress
    <3>2. locked /\ holder = "boot"
      BY <2>1, <3>1 DEF LockIsSection
    <3>3. locked' = locked /\ holder' = holder
      BY <2>5, <3>2 DEF CreateTasks, ShowAddressCreates, OSTaskCreate, OSSched
    <3> QED
      BY <2>1, <3>1, <3>3 DEF LockIsSection
  <2> QED
    BY <1>5, <2>3, <2>4, <2>5 DEF ShowAddress
<1> QED
  BY <1>1, <1>2, <1>3, <1>4, <1>5, NextCases DEF Tasks, NoTask

\* Only one task at a time is inside suspend_task, recovery_task or show_address,
\* and exactly then the scheduler is locked, whatever interrupts meet it.
THEOREM LockCorrect == Spec => []LockIsSection
<1>1. Init => LockIsSection
  BY DEF Init, KInit, LockIsSection, Section, InSuspend, InRecovery, InShowAddress
<1>2. Control /\ KernelOK /\ LockIsSection /\ [Next]_vars => LockIsSection'
  BY SectionStep
<1> QED
  BY <1>1, <1>2, ControlCorrect, MonitorKernelOK, PTL DEF Spec

\* A task that runs outside the critical sections is at least as urgent as
\* every ready task.
LEMMA RunningIsHighest ==
  ASSUME Control, KernelOK, NEW t \in {"send", "udp", "cap", "display"}, CanRun(t)
  PROVE  Highest(t)
<1>1. t \in Task
  BY Names DEF Tasks
<1>2. t # None
  BY <1>1, KernelAssumption
<1>3. holder # t
  BY <1>2 DEF Control, HolderLocks
<1> QED
  BY <1>3 DEF CanRun

\* The order of the creations survives every step.
LEMMA SendFirstStep ==
  ASSUME Control, KernelOK, SendFirst, [Next]_vars
  PROVE  SendFirst'
<1>1. {"boot", "send", "cap"} \subseteq Tasks
  BY DEF Tasks
<1>2. ASSUME SameTasks, pc'["boot"] \in {"poll", "send"} <=> pc["boot"] \in {"poll", "send"}
      PROVE  SendFirst'
  <2>1. (Created("cap")' <=> Created("cap")) /\ (Created("send")' <=> Created("send"))
    BY <1>1, <1>2 DEF SameTasks
  <2> QED
    BY <1>2, <2>1 DEF SendFirst
<1>3. ASSUME NEW t \in {"boot", "order", "check"}, CriticalSection(t)
      PROVE  SendFirst'
  <2>1. t \in Tasks
    BY DEF Tasks
  <2>2. PICK from, to \in {"s_enter", "r_enter", "self", "pend"} \cup InSuspend \cup InRecovery :
          Goto(t, from, to)
    <3>1. CASE SuspendEnter(t) \/ SuspendDisplay(t) \/ SuspendPost(t) \/ SuspendExit(t)
      BY <3>1
      DEF SuspendEnter, SuspendDisplay, SuspendPost, SuspendExit, Return, InSuspend
    <3>2. CASE RecoveryEnter(t) \/ RecoveryPost(t) \/ RecoveryResume(t) \/ RecoveryExit(t)
      BY <3>2
      DEF RecoveryEnter, RecoveryPost, RecoveryResume, RecoveryExit, Return, InRecovery
    <3> QED
      BY <1>3, <3>1, <3>2 DEF CriticalSection
  <2>3. SameTasks
    BY <1>3, SectionControl DEF Effect
  <2>4. /\ pc[t] = from /\ pc'[t] = to /\ \A u \in Tasks : u # t => pc'[u] = pc[u]
        /\ from \notin {"poll", "send"} /\ to \notin {"poll", "send"}
    BY <2>1, <2>2, GotoEffect DEF Control, InSuspend, InRecovery
  <2> QED
    BY <1>1, <1>2, <2>3, <2>4
<1>4. ASSUME NEW t \in Tasks \ {"boot"}, Plain(t)
      PROVE  SendFirst'
  <2>1. pc'["boot"] = pc["boot"]
    BY <1>1, <1>4, GotoEffect DEF Plain, Control
  <2> QED
    BY <1>2, <1>4, <2>1 DEF Plain, Effect
<1>5. CASE (BootPoll \/ BootSuspendsSelf) /\ Plain("boot")
  <2>1. PICK from, to : /\ Goto("boot", from, to)
                        /\ from \in {"poll", "send"} <=> to \in {"poll", "send"}
    BY <1>5 DEF BootPoll, BootSuspendsSelf
  <2> QED
    BY <1>1, <1>2, <1>5, <2>1, GotoEffect DEF Plain, Effect, Control
<1>6. CASE ShowAddress
  <2>1. \A from, to : Goto("boot", from, to) => pc["boot"] = from /\ pc'["boot"] = to
    BY <1>1, GotoEffect DEF Control
  <2>2. CASE ShowAddressEnter \/ ShowAddressExit
    <3>1. Lock("boot") \/ Unlock("boot")
      BY <2>2 DEF ShowAddressEnter, ShowAddressExit
    <3>2. SameTasks
      BY <3>1 DEF Lock, Unlock, SameTasks, Created
    <3> QED
      BY <1>2, <2>1, <2>2, <3>2 DEF ShowAddressEnter, ShowAddressExit
  <2>3. CASE CreateTasks
    <3>1. PICK u \in {"send", "cap", "check", "display", "order"} :
            pc["boot"] = u /\ pc'["boot"] \notin {"poll", "send"} /\ OSTaskCreate("boot", u)
      BY <2>1, <2>3 DEF CreateTasks, ShowAddressCreates
    <3>2. Created(u)' /\ \A v \in Tasks : v # u => (Created(v)' <=> Created(v))
      BY <1>1, <3>1, CreateEffect DEF Tasks
    <3> QED
      BY <1>1, <3>1, <3>2 DEF SendFirst
  <2> QED
    BY <1>6, <2>2, <2>3 DEF ShowAddress
<1>7. CASE NoTask
  BY <1>2, <1>7, QuietStep
<1> QED
  BY <1>3, <1>4, <1>5, <1>6, <1>7, NextCases DEF Tasks

\* send_udp_task exists whenever cap_temp_task does.
LEMMA SendFirstCorrect == Spec => []SendFirst
<1>1. Init => SendFirst
  BY DEF Init, SendFirst, Created, Tasks
<1>2. Control /\ KernelOK /\ SendFirst /\ [Next]_vars => SendFirst'
  BY SendFirstStep
<1> QED
  BY <1>1, <1>2, ControlCorrect, MonitorKernelOK, PTL DEF Spec

\* While cap_temp_task runs, send_udp_task waits for DATA_Msg.
LEMMA SenderWaits ==
  ASSUME Control, KernelOK, SendFirst, CanRun("cap")
  PROVE  pendOn["send"] = "DATA" /\ pc["send"] = "copy"
<1>1. "send" \in Tasks /\ "cap" \in Tasks /\ "send" \in Task
  BY Names DEF Tasks
<1>2. Prio["send"] = 6 /\ Prio["cap"] = 7
  BY Names DEF TaskPrio, Tasks
<1>3. ~Ready("send")
  BY <1>1, <1>2, RunningIsHighest DEF Highest
<1>4. tstate["send"] = "PEND"
  <2>1. tstate["cap"] = "RDY"
    BY <1>1, RunningWaitsForNothing
  <2>2. Created("send")
    BY <2>1 DEF SendFirst, Created
  <2> QED
    BY <1>1, <1>3, <2>2 DEF Ready, Created, KernelOK, KTypeOK, BaseState, Control, NeverSleeps
<1>5. pendOn["send"] # None
  BY <1>1, <1>4 DEF KernelOK, PendListExact
<1> QED
  BY <1>1, <1>5 DEF Control, WaitPlace, WaitingPlaces

\* A step of any other task or of the system neither takes the token nor makes
\* its holder wait.
LEMMA TokenFrame ==
  ASSUME SampleToken, UNCHANGED semCtr, pc'["cap"] = pc["cap"], pc'["send"] = pc["send"],
         pendOn'["cap"] \in {pendOn["cap"], None},
         pendOn'["send"] \in {pendOn["send"], None}
  PROVE  SampleToken'
  BY DEF SampleToken

\* A plain step of a third task.
LEMMA TokenOthers ==
  ASSUME Control, SampleToken, UNCHANGED semCtr, NEW t \in Tasks, t \notin {"cap", "send"},
         Effect(t), NEW from, NEW to, Goto(t, from, to)
  PROVE  SampleToken'
<1>1. "cap" \in Tasks \ {t} /\ "send" \in Tasks \ {t}
  BY DEF Tasks
<1>2. pc'["cap"] = pc["cap"] /\ pc'["send"] = pc["send"]
  BY <1>1, GotoEffect DEF Control
<1> QED
  BY <1>1, <1>2, TokenFrame DEF Effect

\* send_udp_task takes a message with the duty to signal SYN, and does it.
LEMMA TokenSend ==
  ASSUME Control, KernelOK, SampleToken, Send, Plain("send")
  PROVE  SampleToken'
<1>1. "cap" \in Tasks /\ "send" \in Tasks
  BY DEF Tasks
<1>2. pc'["cap"] = pc["cap"] /\ pendOn'["cap"] \in {pendOn["cap"], None}
  BY <1>1, GotoEffect DEF Control, Plain, Effect
<1>3. pendOn["send"] = None
  BY <1>1, RunningWaitsForNothing DEF Plain
<1>4. CASE SendPend
  <2>1. pc["send"] = "pend" /\ UNCHANGED semCtr
    BY <1>4
    DEF SendPend, Goto, OSQPend, OSQPendGet, PendLocked, Block
  <2> QED
    BY <1>2, <2>1 DEF SampleToken
<1>5. CASE SendCopy \/ SendFlag
  <2>1. pc'["send"] \in {"flag", "post"}
    BY <1>1, <1>5, GotoEffect DEF SendCopy, SendFlag, Control
  <2>2. pendOn'["send"] = None
    BY <1>3, <1>5 DEF SendCopy, SendFlag, Compute
  <2> QED
    BY <2>1, <2>2 DEF SampleToken
<1>6. CASE SendPost
  <2>1. OS_SemPost("SYN")
    BY <1>6 DEF SendPost, OSSemPost
  <2>2. CASE pendList["SYN"] = <<>>
    <3>1. semCtr' = IF semCtr["SYN"] < SemMax THEN [semCtr EXCEPT !["SYN"] = @ + 1]
                                              ELSE semCtr
      BY <2>1, <2>2 DEF OS_SemPost
    <3>2. "SYN" \in Sem /\ semCtr \in [Sem -> 0..SemMax] /\ SemMax \in Nat /\ SemMax > 0
      BY Names, MonitorAssumption, KernelAssumption DEF KernelOK, KTypeOK
    <3>3. semCtr'["SYN"] > 0
      BY <3>1, <3>2
    <3> QED
      BY <3>3 DEF SampleToken
  <2>3. CASE pendList["SYN"] # <<>>
    <3> DEFINE h == Head(pendList["SYN"])
    <3>1. "SYN" \in Obj /\ pendList["SYN"] \in Seq(Task)
      BY Names DEF KernelOK, KTypeOK, Obj
    <3>2. h \in Tasks /\ h \in Range(pendList["SYN"])
      BY <2>3, <3>1, Names, HeadTailProperties, LenProperties, EmptySeq DEF Range
    <3>3. pendOn[h] = "SYN"
      BY <3>1, <3>2, Names DEF KernelOK, PendListExact
    <3>4. "SYN" # None
      BY <3>1, KernelAssumption
    <3>5. h = "cap" /\ pc["cap"] = "sample"
      BY <3>2, <3>3, <3>4 DEF Control, WaitPlace, WaitingPlaces
    <3>6. OS_Post({h}, None)
      BY <2>1, <2>3 DEF OS_SemPost
    <3>7. pendOn'["cap"] = None
      BY <1>1, <3>5, <3>6, Names DEF OS_Post
    <3> QED
      BY <1>2, <3>5, <3>7 DEF SampleToken
  <2> QED
    BY <2>2, <2>3
<1> QED
  BY <1>4, <1>5, <1>6 DEF Send

\* cap_temp_task takes the token, keeps it while it samples and hands it to
\* send_udp_task with the reading.
LEMMA TokenCap ==
  ASSUME Control, KernelOK, SendFirst, SampleToken, Cap, Plain("cap")
  PROVE  SampleToken'
<1>1. "cap" \in Tasks /\ "send" \in Tasks
  BY DEF Tasks
<1>2. pc'["send"] = pc["send"] /\ pendOn'["send"] \in {pendOn["send"], None}
  BY <1>1, GotoEffect DEF Control, Plain, Effect
<1>3. pendOn["cap"] = None /\ pendOn["send"] = "DATA" /\ pc["send"] = "copy"
  BY <1>1, RunningWaitsForNothing, SenderWaits DEF Plain
<1>4. CASE CapPend
  <2>1. pc["cap"] = "pend" /\ pc'["cap"] = "sample"
    BY <1>1, <1>4, GotoEffect DEF CapPend, Control
  <2>2. semCtr["SYN"] > 0
    BY <1>3, <2>1, KernelAssumption, Names DEF SampleToken, Obj
  <2>3. OSSemPendGet("cap", "SYN")
    <3>1. semCtr["SYN"] # 0
      BY <2>2
    <3> QED
      BY <1>4, <3>1 DEF CapPend, OSSemPend
  <2> QED
    BY <1>3, <2>1, <2>3 DEF OSSemPendGet, SampleToken
<1>5. CASE CapSample
  <2>1. pc'["cap"] = "post" /\ pendOn' = pendOn
    BY <1>1, <1>5, GotoEffect DEF CapSample, Compute, Control
  <2> QED
    BY <1>3, <2>1 DEF SampleToken
<1>6. CASE CapPost
  <2>1. OS_QPost("DATA", "capBuf", TRUE)
    BY <1>6 DEF CapPost, OSQPost
  <2>2. "send" \in Range(pendList["DATA"])
    BY <1>1, <1>3, Names DEF KernelOK, PendListExact, Obj
  <2>3. pendList["DATA"] # <<>>
    BY <2>2 DEF Range
  <2>4. OS_Post(Range(pendList["DATA"]), "capBuf")
    BY <2>1, <2>3 DEF OS_QPost
  <2>5. pendOn'["send"] = None
    BY <1>1, <2>2, <2>4, Names DEF OS_Post
  <2> QED
    BY <1>2, <1>3, <2>5 DEF SampleToken
<1>7. CASE CapDelay
  <2>1. pc["cap"] = "delay" /\ UNCHANGED <<semCtr, pendOn>>
    BY <1>7 DEF CapDelay, Goto, OSTimeDly
  <2> QED
    BY <1>2, <2>1 DEF SampleToken
<1> QED
  BY <1>4, <1>5, <1>6, <1>7 DEF Cap

\* The critical sections do not touch SYN.
LEMMA SectionLeavesSyn ==
  ASSUME NEW t, CriticalSection(t)
  PROVE  UNCHANGED semCtr /\ \E from, to : Goto(t, from, to)
<1>1. CASE SuspendEnter(t) \/ SuspendExit(t) \/ RecoveryEnter(t) \/ RecoveryExit(t)
  BY <1>1 DEF SuspendEnter, SuspendExit, RecoveryEnter, RecoveryExit, Lock, Unlock
<1>2. CASE SuspendDisplay(t) \/ SuspendPost(t) \/ RecoveryPost(t) \/ RecoveryResume(t)
  BY <1>2
  DEF SuspendDisplay, SuspendPost, RecoveryPost, RecoveryResume, OSTaskSuspend,
      OSTaskResume, OSQPost
<1> QED
  BY <1>1, <1>2 DEF CriticalSection

\* The token survives every step.
LEMMA TokenStep ==
  ASSUME Control, KernelOK, SendFirst, SampleToken, [Next]_vars
  PROVE  SampleToken'
<1>1. ASSUME NEW t \in {"boot", "order", "check"}, CriticalSection(t)
      PROVE  SampleToken'
  <2>1. t \in Tasks /\ t \notin {"cap", "send"}
    BY DEF Tasks
  <2> QED
    BY <1>1, <2>1, SectionControl, SectionLeavesSyn, TokenOthers
<1>2. ASSUME NEW t \in {"boot", "order", "check", "udp", "display"}, Plain(t),
             UNCHANGED semCtr
      PROVE  SampleToken'
  <2>1. t \in Tasks /\ t \notin {"cap", "send"}
    BY DEF Tasks
  <2> QED
    BY <1>2, <2>1, TokenOthers DEF Plain
<1>3. CASE (CheckPend \/ CheckParse \/ CheckDecide \/ CheckBeep) /\ Plain("check")
  <2>1. UNCHANGED semCtr
    BY <1>3
    DEF CheckPend, CheckParse, CheckDecide, CheckBeep, Compute, OSTimeDly, OSQPend,
        OSQPendGet, PendLocked, Block
  <2> QED
    BY <1>2, <1>3, <2>1
<1>4. CASE /\ \/ OrderPend \/ OrderSetLimits \/ OrderRecover \/ OrderSuspend
              \/ OrderTestReading \/ OrderPostReading \/ OrderIgnore
           /\ Plain("order")
  <2>1. UNCHANGED semCtr
    BY <1>4
    DEF OrderPend, OrderSetLimits, OrderRecover, OrderSuspend, OrderTestReading,
        OrderPostReading, OrderIgnore, Compute, OSQPost, OSQPend, OSQPendGet, PendLocked,
        Block
  <2> QED
    BY <1>2, <1>4, <2>1
<1>5. CASE Udp /\ Plain("udp")
  <2>1. UNCHANGED semCtr
    BY <1>5
    DEF Udp, UdpSend, UdpSendFails, UdpNothingToSend, UdpClear, UdpReceive, UdpPost,
        UdpWait, Compute, OSQPost, OSTimeDly
  <2> QED
    BY <1>2, <1>5, <2>1
<1>6. CASE Display /\ Plain("display")
  <2>1. UNCHANGED semCtr
    BY <1>6
    DEF Display, DisplayPend, DisplayShow, Compute, OSQPend, OSQPendGet, PendLocked, Block
  <2> QED
    BY <1>2, <1>6, <2>1
<1>7. CASE (BootPoll \/ BootSuspendsSelf) /\ Plain("boot")
  <2>1. UNCHANGED semCtr
    BY <1>7 DEF BootPoll, BootSuspendsSelf, OSTimeDly, OSTaskSuspend
  <2> QED
    BY <1>2, <1>7, <2>1
<1>8. CASE NoTask
  <2>1. "cap" \in Tasks /\ "send" \in Tasks
    BY DEF Tasks
  <2>2. /\ pendOn'["cap"] \in {pendOn["cap"], None}
        /\ pendOn'["send"] \in {pendOn["send"], None}
        /\ UNCHANGED <<pc, semCtr>>
    BY <1>8, <2>1, QuietStep
  <2> QED
    BY <2>2, TokenFrame
<1>9. CASE Send /\ Plain("send")
  BY <1>9, TokenSend
<1>10. CASE Cap /\ Plain("cap")
  BY <1>10, TokenCap
<1>11. CASE ShowAddress
  <2>1. /\ UNCHANGED <<semCtr, pendOn>> /\ "cap" \in Tasks /\ "send" \in Tasks
        /\ pc'["cap"] = pc["cap"] /\ pc'["send"] = pc["send"]
    BY <1>11, ShowAddressStep DEF Tasks
  <2> QED
    BY <2>1, TokenFrame
<1> QED
  BY <1>1, <1>3, <1>4, <1>5, <1>6, <1>7, <1>8, <1>9, <1>10, <1>11, NextCases

\* The sampling token is never lost: whatever commands, keys and temperatures
\* do, SYN is signalled, or cap_temp_task was granted it, or send_udp_task is
\* about to signal it.  The argument is the priorities: cap_temp_task only runs
\* while send_udp_task waits for DATA_Msg, so its post to all always reaches it.
THEOREM TokenCorrect == Spec => []SampleToken
<1>1. Init => SampleToken
  <2> SUFFICES ASSUME Init PROVE SampleToken
    OBVIOUS
  <2>1. semCtr["SYN"] = 1
    BY Names DEF Init
  <2> QED
    BY <2>1 DEF SampleToken
<1>2. Control /\ KernelOK /\ SendFirst /\ SampleToken /\ [Next]_vars => SampleToken'
  BY TokenStep
<1> QED
  BY <1>1, <1>2, ControlCorrect, MonitorKernelOK, SendFirstCorrect, PTL DEF Spec

-----------------------------------------------------------------------------
(* Commands                                                                *)

\* While udp_thread runs, order_handle_task waits for a command, if it exists.
LEMMA HandlerWaits ==
  ASSUME Control, KernelOK, CanRun("udp"), Created("order")
  PROVE  pendOn["order"] = "ORDER"
<1>1. "order" \in Tasks /\ "order" \in Task
  BY Names DEF Tasks
<1>2. Prio["order"] = 5 /\ Prio["udp"] = 6
  BY Names DEF TaskPrio, Tasks
<1>3. ~Ready("order")
  BY <1>1, <1>2, RunningIsHighest DEF Highest
<1>4. tstate["order"] = "PEND"
  BY <1>1, <1>3 DEF Created, Ready, KernelOK, KTypeOK, BaseState, Control, NeverSleeps
<1>5. pendOn["order"] # None
  BY <1>1, <1>4 DEF KernelOK, PendListExact
<1> QED
  BY <1>1, <1>5 DEF Control, WaitPlace, WaitingPlaces

\* Only udp_thread moves udp_thread.
LEMMA UdpMoves ==
  ASSUME Control, KernelOK, [Next]_vars, pc'["udp"] # pc["udp"]
  PROVE  Udp /\ Plain("udp")
<1>1. "udp" \in Tasks
  BY DEF Tasks
<1>2. ASSUME NEW t \in Tasks, t # "udp", \E from, to : Goto(t, from, to)
      PROVE  FALSE
  BY <1>1, <1>2, GotoEffect DEF Control
<1>3. ~\E t \in {"boot", "order", "check"} : CriticalSection(t)
  <2>1. ASSUME NEW t \in {"boot", "order", "check"}, CriticalSection(t) PROVE FALSE
    BY <1>2, <2>1, SectionLeavesSyn DEF Tasks
  <2> QED
    BY <2>1
<1>4. ASSUME NEW t \in Tasks, Plain(t) PROVE t = "udp"
  BY <1>2, <1>4 DEF Plain
<1>5. ~NoTask /\ ~ShowAddress
  BY <1>1, QuietStep, ShowAddressStep
<1> QED
  BY <1>3, <1>4, <1>5, NextCases DEF Tasks

\* Once order_handle_task exists, a received command is handled before
\* udp_recvbuf is written again (udp_u.c:70), although ORDER_Msg only carries a
\* pointer to it: udp_thread runs only while order_handle_task waits, and a
\* waiting task means an empty queue, whatever piled up before its creation.
THEOREM CommandsCorrect == Spec => CommandNotOverwritten
<1> DEFINE Safe == pendOn["order"] = "ORDER" /\ "recvBuf" \notin Range(msgQ["ORDER"])
<1>1. ASSUME Control, KernelOK, [Next]_vars, pc["udp"] = "recv", pc'["udp"] = "post",
             Created("order")
      PROVE  Safe
  <2>1. pendOn["order"] = "ORDER"
    BY <1>1, UdpMoves, HandlerWaits DEF Plain
  <2>2. "order" \in Range(pendList["ORDER"])
    BY <1>1, <2>1, Names DEF KernelOK, PendListExact, Obj, Tasks
  <2>3. pendList["ORDER"] # <<>>
    BY <2>2 DEF Range
  <2>4. msgQ["ORDER"] = <<>>
    BY <1>1, <2>3, Names DEF KernelOK, NoLostWakeup
  <2> QED
    BY <2>1, <2>4 DEF Range
<1>2. Control /\ KernelOK /\ [Next]_vars
        => [pc["udp"] = "recv" /\ pc'["udp"] = "post" /\ Created("order") => Safe]_vars
  BY <1>1
<1> QED
  BY <1>2, ControlCorrect, MonitorKernelOK, PTL DEF Spec, CommandNotOverwritten

-----------------------------------------------------------------------------
(* Commands are handed over                                                *)

\* ORDER_Msg holds nothing but pointers to udp_recvbuf, and order_handle_task
\* finds one when it returns from its pend.
HandedOver ==
  /\ Range(msgQ["ORDER"]) \subseteq {"recvBuf"}
  /\ pc["order"] = "handle" /\ pendOn["order"] = None => rcv["order"] = "recvBuf"

\* The post of a command gives it to order_handle_task, or, before that task
\* exists, leaves a pointer to it in ORDER_Msg even if the queue is full.
Delivers == pc'["order"] = "handle" /\ pendOn'["order"] = None /\ rcv'["order"] = "recvBuf"
Queues   == "recvBuf" \in Range(msgQ'["ORDER"])

\* What order_handle_task waits for and what it received stays as it is.
OrderLeft ==
  /\ msgQ'["ORDER"] = msgQ["ORDER"]
  /\ rcv'["order"] = rcv["order"] /\ pendOn'["order"] = pendOn["order"]

\* A post to another object wakes order_handle_task never.
LEMMA PostLeavesOrder ==
  ASSUME Control, KernelOK, NEW m, NEW all \in BOOLEAN,
         OS_QPost("DATA", m, all) \/ (OS_SemPost("SYN") /\ UNCHANGED msgQ)
  PROVE  OrderLeft
<1>1. /\ "order" \in Tasks /\ "order" \in Task /\ Task = Tasks
      /\ "DATA" \in Obj /\ "SYN" \in Obj /\ "DATA" # None
  BY Names, KernelAssumption DEF Tasks, Obj
<1>2. /\ pendOn \in [Tasks -> Obj \cup {None}] /\ pendList \in [Obj -> Seq(Task)]
      /\ msgQ \in [Queue -> Seq(Msg)]
  BY <1>1 DEF KernelOK, KTypeOK
<1>3. pendOn["order"] # "DATA" /\ pendOn["order"] # "SYN"
  <2>1. pendOn["order"] # None => <<"order", pendOn["order"], pc["order"]>> \in WaitingPlaces
    BY <1>1 DEF Control, WaitPlace
  <2>2. "SYN" # None
    BY <1>1, KernelAssumption
  <2> QED
    BY <1>1, <2>1, <2>2 DEF WaitingPlaces
<1>4. "order" \notin Range(pendList["DATA"]) /\ "order" \notin Range(pendList["SYN"])
  BY <1>1, <1>3 DEF KernelOK, PendListExact
<1>5. msgQ'["ORDER"] = msgQ["ORDER"]
  <2>1. \/ msgQ' = msgQ
        \/ msgQ' = [msgQ EXCEPT !["DATA"] = Append(msgQ["DATA"], m)]
    BY DEF OS_QPost
  <2>2. "ORDER" \in Queue
    BY Names
  <2> QED
    BY <1>2, <2>1, <2>2
<1>6. ASSUME NEW W, OS_Post(W, m) \/ OS_Post(W, None), "order" \notin W
      PROVE  rcv'["order"] = rcv["order"] /\ pendOn'["order"] = pendOn["order"]
  BY <1>1, <1>6 DEF OS_Post
<1>7. ASSUME NEW o \in {"DATA", "SYN"}, pendList[o] # <<>>
      PROVE  "order" # Head(pendList[o])
  <2>1. pendList[o] \in Seq(Task)
    BY <1>1, <1>2
  <2>2. Head(pendList[o]) \in Range(pendList[o])
    BY <1>7, <2>1, HeadTailProperties, LenProperties, EmptySeq DEF Range
  <2> QED
    BY <1>4, <2>2
<1>8. rcv'["order"] = rcv["order"] /\ pendOn'["order"] = pendOn["order"]
  <2>1. CASE UNCHANGED <<rcv, pendOn>>
    BY <2>1
  <2>2. CASE pendList["DATA"] # <<>>
             /\ OS_Post(IF all THEN Range(pendList["DATA"]) ELSE {Head(pendList["DATA"])}, m)
    BY <1>4, <1>6, <1>7, <2>2
  <2>3. CASE pendList["SYN"] # <<>> /\ OS_Post({Head(pendList["SYN"])}, None)
    BY <1>6, <1>7, <2>3
  <2> QED
    BY <2>1, <2>2, <2>3 DEF OS_QPost, OS_SemPost
<1> QED
  BY <1>5, <1>8 DEF OrderLeft

\* The calls of the other tasks, but for a post to ORDER_Msg.
LEMMA CallLeavesOrder ==
  ASSUME Control, KernelOK, NEW t \in Tasks,
         \/ UNCHANGED <<rcv, pendOn, msgQ>>
         \/ \E m \in Msg, all \in BOOLEAN : OSQPost(t, "DATA", m, all)
         \/ OSSemPost(t, "SYN")
         \/ t # "order" /\ (OSQPend(t, "DATA", FALSE) \/ OSSemPend(t, "SYN", FALSE))
  PROVE  OrderLeft
<1>1. CASE UNCHANGED <<rcv, pendOn, msgQ>>
  BY <1>1 DEF OrderLeft
<1>2. CASE \E m \in Msg, all \in BOOLEAN : OSQPost(t, "DATA", m, all)
  BY <1>2, PostLeavesOrder DEF OSQPost
<1>3. CASE OSSemPost(t, "SYN")
  <2>1. OS_SemPost("SYN") /\ UNCHANGED msgQ
    BY <1>3 DEF OSSemPost
  <2> QED
    BY <2>1, PostLeavesOrder
<1>4. CASE t # "order" /\ (OSQPend(t, "DATA", FALSE) \/ OSSemPend(t, "SYN", FALSE))
  <2>1. /\ pendOn \in [Task -> Obj \cup {None}] /\ rcv \in [Task -> Msg \cup {None}]
        /\ msgQ \in [Queue -> Seq(Msg)] /\ "order" \in Task
    BY Names DEF KernelOK, KTypeOK, Tasks
  <2>2. CASE OSQPendGet(t, "DATA")
    BY <1>4, <2>1, <2>2 DEF OrderLeft, OSQPendGet
  <2>3. CASE OSSemPendGet(t, "SYN")
    BY <2>3 DEF OrderLeft, OSSemPendGet
  <2>4. CASE PendLocked(t)
    BY <1>4, <2>1, <2>4 DEF OrderLeft, PendLocked
  <2>5. ASSUME NEW o, Block(t, o, FALSE) PROVE OrderLeft
    BY <1>4, <2>1, <2>5 DEF OrderLeft, Block, OS_Pend
  <2> QED
    BY <1>4, <2>2, <2>3, <2>4, <2>5 DEF OSQPend, OSSemPend
<1> QED
  BY <1>1, <1>2, <1>3, <1>4

\* A command in a queue of such pointers.
LEMMA CommandQueued ==
  ASSUME NEW q \in Seq(Msg), NEW n \in Nat \ {0}, Range(q) \subseteq {"recvBuf"},
         NEW r, r = IF Len(q) < n THEN Append(q, "recvBuf") ELSE q
  PROVE  Range(r) = {"recvBuf"}
<1>1. "recvBuf" \in Msg /\ Len(q) \in Nat /\ DOMAIN q = 1 .. Len(q)
  BY Names, LenProperties
<1>2. \A i \in 1 .. Len(q) : q[i] = "recvBuf"
  BY <1>1 DEF Range
<1>3. CASE Len(q) < n
  <2>1. /\ DOMAIN r = 1 .. Len(q) + 1 /\ r[Len(q) + 1] = "recvBuf"
        /\ \A i \in 1 .. Len(q) : r[i] = q[i]
    BY <1>1, <1>3, AppendProperties, LenProperties
  <2>2. \A i \in 1 .. Len(q) + 1 : r[i] = "recvBuf"
    <3>1. \A i \in 1 .. Len(q) + 1 : i \in 1 .. Len(q) \/ i = Len(q) + 1
      BY <1>1
    <3> QED
      BY <1>2, <2>1, <3>1
  <2>3. Len(q) + 1 \in DOMAIN r
    BY <1>1, <2>1
  <2> QED
    BY <2>1, <2>2, <2>3 DEF Range
<1>4. CASE ~(Len(q) < n)
  <2>1. 1 \in DOMAIN q /\ r = q
    BY <1>1, <1>4
  <2> QED
    BY <1>1, <1>2, <2>1 DEF Range
<1> QED
  BY <1>3, <1>4

\* udp_thread posts a command: order_handle_task has it at once, or it is queued.
LEMMA CommandPost ==
  ASSUME Control, KernelOK, HandedOver, UdpPost
  PROVE  HandedOver' /\ IF Created("order") THEN Delivers ELSE Queues
<1>1. /\ "order" \in Tasks /\ "udp" \in Tasks /\ Task = Tasks /\ "ORDER" \in Obj
      /\ "ORDER" \in Queue /\ "ORDER" # None
  BY Names, KernelAssumption DEF Tasks, Obj
<1>2. CanRun("udp") /\ Goto("udp", "post", "poll") /\ OS_QPost("ORDER", "recvBuf", FALSE)
  BY DEF UdpPost, OSQPost
<1>3. pc'["order"] = pc["order"]
  BY <1>1, <1>2, GotoEffect DEF Control
<1>4. ASSUME NEW h \in Tasks, pendOn[h] = "ORDER" PROVE h = "order" /\ pc[h] = "handle"
  <2>1. <<h, "ORDER", pc[h]>> \in WaitingPlaces
    BY <1>1, <1>4 DEF Control, WaitPlace
  <2> QED
    BY <2>1 DEF WaitingPlaces
<1>5. pendList["ORDER"] \in Seq(Tasks)
  BY <1>1 DEF KernelOK, KTypeOK
<1>6. pendList["ORDER"] # <<>> => /\ Head(pendList["ORDER"]) \in Tasks
                                 /\ pendOn[Head(pendList["ORDER"])] = "ORDER"
  <2>1. pendList["ORDER"] # <<>> => /\ Head(pendList["ORDER"]) \in Range(pendList["ORDER"])
                                   /\ Head(pendList["ORDER"]) \in Tasks
    BY <1>5, HeadTailProperties, LenProperties, EmptySeq DEF Range
  <2> QED
    BY <1>1, <2>1 DEF KernelOK, PendListExact
<1>7. CASE Created("order")
  <2>1. pendOn["order"] = "ORDER"
    BY <1>2, <1>7, HandlerWaits
  <2>2. pc["order"] = "handle"
    BY <1>1, <1>4, <2>1
  <2>3. "order" \in Range(pendList["ORDER"])
    BY <1>1, <2>1 DEF KernelOK, PendListExact
  <2>4. pendList["ORDER"] # <<>>
    BY <2>3 DEF Range
  <2>5. Head(pendList["ORDER"]) = "order"
    BY <1>4, <1>6, <2>4
  <2>6. OS_Post({"order"}, "recvBuf") /\ msgQ' = msgQ
    BY <1>2, <2>4, <2>5 DEF OS_QPost
  <2>7. pendOn'["order"] = None /\ rcv'["order"] = "recvBuf"
    BY <1>1, <2>6 DEF OS_Post
  <2> QED
    BY <1>3, <1>7, <2>2, <2>6, <2>7 DEF HandedOver, Delivers
<1>8. CASE ~Created("order")
  <2>1. pendOn["order"] = None
    BY <1>1, <1>8 DEF Created, KernelOK, PendListExact
  <2>2. pendList["ORDER"] = <<>>
    BY <1>1, <1>4, <1>6, <2>1
  <2>3. /\ UNCHANGED <<pendOn, rcv>>
        /\ msgQ' = IF Len(msgQ["ORDER"]) < QSize["ORDER"]
                     THEN [msgQ EXCEPT !["ORDER"] = Append(@, "recvBuf")] ELSE msgQ
    BY <1>2, <2>2 DEF OS_QPost
  <2>4. /\ msgQ["ORDER"] \in Seq(Msg) /\ QSize["ORDER"] \in Nat \ {0}
        /\ msgQ'["ORDER"] = IF Len(msgQ["ORDER"]) < QSize["ORDER"]
                              THEN Append(msgQ["ORDER"], "recvBuf") ELSE msgQ["ORDER"]
    BY <1>1, <2>3, KernelAssumption DEF KernelOK, KTypeOK
  <2>5. Range(msgQ'["ORDER"]) = {"recvBuf"}
    BY <2>4, CommandQueued DEF HandedOver
  <2> QED
    BY <1>3, <1>8, <2>3, <2>5 DEF HandedOver, Queues
<1> QED
  BY <1>7, <1>8

\* No step but that of udp_thread gives order_handle_task anything.
LEMMA HandedOverStep ==
  ASSUME Control, KernelOK, LockIsSection, HandedOver, [Next]_vars
  PROVE  HandedOver'
<1>1. "order" \in Tasks
  BY DEF Tasks
<1>2. ASSUME OrderLeft, pc'["order"] = pc["order"] \/ pc'["order"] # "handle"
      PROVE  HandedOver'
  BY <1>2 DEF HandedOver, OrderLeft
<1>3. ASSUME NEW t \in Tasks, t # "order", Plain(t), OrderLeft
      PROVE  HandedOver'
  <2>1. PICK from, to : Goto(t, from, to)
    BY <1>3, Zenon DEF Plain
  <2>2. pc'["order"] = pc["order"]
    BY <1>1, <1>3, <2>1, GotoEffect DEF Control
  <2> QED
    BY <1>2, <1>3, <2>2
<1>4. ASSUME NEW t \in {"boot", "order", "check"}, CriticalSection(t)
      PROVE  HandedOver'
  <2>1. t \in Tasks
    BY DEF Tasks
  <2>2. OrderLeft
    <3>1. CASE SuspendPost(t) \/ RecoveryPost(t)
      <4>1. OSQPost(t, "DATA", "OVER", FALSE) \/ OSQPost(t, "DATA", "RECO", FALSE)
        BY <3>1 DEF SuspendPost, RecoveryPost
      <4> QED
        BY <2>1, <4>1, CallLeavesOrder, Names
    <3>2. CASE ~(SuspendPost(t) \/ RecoveryPost(t))
      <4>1. \/ Lock(t) \/ Unlock(t)
            \/ OSTaskSuspend(t, "display") \/ OSTaskResume(t, "display")
        BY <1>4, <3>2, Zenon
        DEF CriticalSection, SuspendEnter, SuspendExit, RecoveryEnter, RecoveryExit,
            SuspendDisplay, RecoveryResume
      <4>2. UNCHANGED <<rcv, pendOn, msgQ>>
        BY <4>1 DEF Lock, Unlock, OSTaskSuspend, OSTaskResume
      <4> QED
        BY <2>1, <4>2, CallLeavesOrder
    <3> QED
      BY <3>1, <3>2
  <2>3. pc'["order"] = pc["order"] \/ pc'["order"] # "handle"
    <3>1. ASSUME NEW from, NEW to, Goto(t, from, to), to # "handle"
          PROVE  pc'["order"] = pc["order"] \/ pc'["order"] # "handle"
      BY <1>1, <2>1, <3>1, GotoEffect DEF Control
    <3>2. CASE SuspendExit(t) \/ RecoveryExit(t)
      <4>1. Return(t) # "handle" /\ \E from : Goto(t, from, Return(t))
        BY <3>2 DEF SuspendExit, RecoveryExit, Return
      <4> QED
        BY <3>1, <4>1
    <3>3. CASE ~(SuspendExit(t) \/ RecoveryExit(t))
      <4>1. \E from : \E to \in Section : Goto(t, from, to)
        <5>1. CASE SuspendEnter(t) \/ SuspendDisplay(t) \/ SuspendPost(t)
          BY <5>1 DEF SuspendEnter, SuspendDisplay, SuspendPost, Section, InSuspend
        <5>2. CASE RecoveryEnter(t) \/ RecoveryPost(t) \/ RecoveryResume(t)
          BY <5>2 DEF RecoveryEnter, RecoveryPost, RecoveryResume, Section, InRecovery
        <5> QED
          BY <1>4, <3>3, <5>1, <5>2 DEF CriticalSection
      <4>2. "handle" \notin Section
        BY DEF Section, InSuspend, InRecovery, InShowAddress
      <4> QED
        BY <3>1, <4>1, <4>2
    <3> QED
      BY <3>2, <3>3
  <2> QED
    BY <1>2, <2>2, <2>3
<1>5. CASE Send /\ Plain("send")
  <2>1. "send" \in Tasks
    BY DEF Tasks
  <2>2. OrderLeft
    BY <1>5, <2>1, CallLeavesOrder DEF Send, SendPend, SendCopy, SendFlag, SendPost, Compute
  <2> QED
    BY <1>3, <1>5, <2>1, <2>2
<1>6. CASE Cap /\ Plain("cap")
  <2>1. "cap" \in Tasks
    BY DEF Tasks
  <2>2. OrderLeft
    BY <1>6, <2>1, CallLeavesOrder, Names
    DEF Cap, CapPend, CapSample, CapPost, CapDelay, Compute, OSTimeDly
  <2> QED
    BY <1>3, <1>6, <2>1, <2>2
<1>7. CASE Display /\ Plain("display")
  <2>1. "display" \in Tasks
    BY DEF Tasks
  <2>2. OrderLeft
    BY <1>7, <2>1, CallLeavesOrder DEF Display, DisplayPend, DisplayShow, Compute
  <2> QED
    BY <1>3, <1>7, <2>1, <2>2
<1>8. CASE (BootPoll \/ BootSuspendsSelf) /\ Plain("boot")
  <2>1. "boot" \in Tasks
    BY DEF Tasks
  <2>2. OrderLeft
    BY <1>8, <2>1, CallLeavesOrder DEF BootPoll, BootSuspendsSelf, OSTimeDly, OSTaskSuspend
  <2> QED
    BY <1>3, <1>8, <2>1, <2>2
<1>9. CASE (CheckPend \/ CheckParse \/ CheckDecide \/ CheckBeep) /\ Plain("check")
  <2>1. "check" \in Tasks
    BY DEF Tasks
  <2>2. OrderLeft
    BY <1>9, <2>1, CallLeavesOrder
    DEF CheckPend, CheckParse, CheckDecide, CheckBeep, Compute, OSTimeDly
  <2> QED
    BY <1>3, <1>9, <2>1, <2>2
<1>10. CASE Udp /\ Plain("udp")
  <2>1. "udp" \in Tasks
    BY DEF Tasks
  <2>2. CASE ~UdpPost
    <3>1. OrderLeft
      BY <1>10, <2>1, <2>2, CallLeavesOrder
      DEF Udp, UdpSend, UdpSendFails, UdpNothingToSend, UdpClear, UdpReceive, UdpWait,
          Compute, OSTimeDly
    <3> QED
      BY <1>3, <1>10, <2>1, <3>1
  <2> QED
    BY <2>2, CommandPost
<1>11. CASE OrderPend /\ Plain("order")
  <2>1. pc["order"] = "pend" /\ OSQPend("order", "ORDER", FALSE)
    BY <1>11 DEF OrderPend, Goto
  <2>2. ~locked
    BY <1>1, <1>11, <2>1, RunningWaitsForNothing
    DEF Plain, LockIsSection, Section, InSuspend, InRecovery, InShowAddress
  <2>3. /\ msgQ \in [Queue -> Seq(Msg)] /\ "ORDER" \in Queue /\ "order" \in Task
        /\ rcv \in [Task -> Msg \cup {None}] /\ pendOn \in [Task -> Obj \cup {None}]
        /\ "ORDER" # None
    BY Names, KernelAssumption DEF KernelOK, KTypeOK, Tasks, Obj
  <2>4. CASE OSQPendGet("order", "ORDER")
    <3> DEFINE q == msgQ["ORDER"]
    <3>1. q \in Seq(Msg) /\ q # <<>> /\ Range(q) \subseteq {"recvBuf"}
      BY <2>3, <2>4 DEF OSQPendGet, HandedOver
    <3>2. rcv'["order"] = Head(q) /\ msgQ'["ORDER"] = Tail(q)
      BY <2>3, <2>4 DEF OSQPendGet
    <3> HIDE DEF q
    <3>3. Head(q) \in Range(q) /\ Range(Tail(q)) \subseteq Range(q)
      <4>1. /\ Len(q) \in Nat /\ Len(q) > 0 /\ DOMAIN q = 1 .. Len(q) /\ Head(q) = q[1]
            /\ DOMAIN Tail(q) = 1 .. Len(q) - 1
            /\ \A i \in 1 .. Len(q) - 1 : Tail(q)[i] = q[i + 1]
        BY <3>1, HeadTailProperties, LenProperties, EmptySeq
      <4>2. \A i \in 1 .. Len(q) - 1 : i + 1 \in 1 .. Len(q)
        BY <4>1
      <4>3. 1 \in 1 .. Len(q)
        BY <4>1
      <4> QED
        BY <4>1, <4>2, <4>3 DEF Range
    <3> QED
      BY <3>1, <3>2, <3>3 DEF HandedOver
  <2>5. CASE Block("order", "ORDER", FALSE)
    BY <2>3, <2>5 DEF Block, OS_Pend, HandedOver
  <2> QED
    BY <2>1, <2>2, <2>4, <2>5 DEF OSQPend, PendLocked
<1>12. CASE /\ \/ OrderSetLimits \/ OrderRecover \/ OrderSuspend
               \/ OrderTestReading \/ OrderPostReading \/ OrderIgnore
            /\ Plain("order")
  <2>1. OrderLeft
    BY <1>1, <1>12, CallLeavesOrder, Names
    DEF OrderSetLimits, OrderRecover, OrderSuspend, OrderTestReading, OrderPostReading,
        OrderIgnore, Compute
  <2>2. PICK from, to \in {"handle", "pend", "r_enter", "s_enter", "q_post"} :
          Goto("order", from, to) /\ to # "handle"
    BY <1>12
    DEF OrderSetLimits, OrderRecover, OrderSuspend, OrderTestReading, OrderPostReading,
        OrderIgnore
  <2>3. pc'["order"] # "handle"
    BY <1>1, <2>2, GotoEffect DEF Control
  <2> QED
    BY <1>2, <2>1, <2>3
<1>13. CASE NoTask /\ ~Kernel
  <2>1. UNCHANGED <<rcv, pendOn, msgQ, pc>>
    BY <1>13
    DEF NoTask, EXTI0_IRQHandler, SysTick_Handler, lwip_dhcp_task, TemperatureChanges,
        Isr, vars, kvars
  <2> QED
    BY <1>2, <2>1 DEF OrderLeft
<1>14. CASE Kernel
  <2>1. pc' = pc /\ (OS_IntQTask \/ TickTask)
    BY <1>14 DEF Kernel
  <2>2. CASE TickTask
    <3>1. UNCHANGED <<rcv, pendOn, msgQ>>
      BY <2>2, Names DEF TickTask, DelayExpires, PendTimesOut, Control, NeverSleeps
    <3> QED
      BY <1>2, <2>1, <3>1 DEF OrderLeft
  <2>3. CASE OS_IntQTask
    <3> DEFINE e == Head(intQ)
    <3>1. e \in IsrEntries
      BY <2>3, HeadTailProperties DEF OS_IntQTask, Control, IntQEntries
    <3>2. OS_IntQRePost(e)
      BY <2>3 DEF OS_IntQTask
    <3> HIDE DEF e
    <3>3. \/ UNCHANGED <<rcv, pendOn, msgQ>>
          \/ e.type = "Q" /\ OS_QPost(e.obj, e.msg, e.type = "Q_ALL")
      BY <3>1, <3>2 DEF IsrEntries, OS_IntQRePost
    <3>4. e.type = "Q" => e.obj = "DATA"
      BY <3>1 DEF IsrEntries
    <3>5. OrderLeft
      <4>1. CASE UNCHANGED <<rcv, pendOn, msgQ>>
        BY <4>1 DEF OrderLeft
      <4>2. CASE e.type = "Q" /\ OS_QPost(e.obj, e.msg, e.type = "Q_ALL")
        <5>1. OS_QPost("DATA", e.msg, FALSE)
          BY <3>4, <4>2
        <5> QED
          BY <5>1, PostLeavesOrder
      <4> QED
        BY <3>3, <4>1, <4>2
    <3> QED
      BY <1>2, <2>1, <3>5
  <2> QED
    BY <2>1, <2>2, <2>3
<1>15. CASE ShowAddress
  BY <1>1, <1>2, <1>15, ShowAddressStep DEF OrderLeft
<1> QED
  BY <1>4, <1>5, <1>6, <1>7, <1>8, <1>9, <1>10, <1>11, <1>12, <1>13, <1>14, <1>15, NextCases

\* When order_handle_task leaves its pend, it has the pointer to udp_recvbuf
\* (task.c:228), never the NULL of a failed pend nor anything else, whether the
\* command was waiting in ORDER_Msg since before the task was created or is
\* handed to it by udp_thread.
THEOREM HandedOverCorrect == Spec => []HandedOver
<1>1. Init => HandedOver
  <2> SUFFICES ASSUME Init PROVE HandedOver
    OBVIOUS
  <2>1. msgQ["ORDER"] = <<>> /\ pc["order"] = "pend"
    BY Names DEF Init, KInit, Tasks
  <2> QED
    BY <2>1 DEF HandedOver, Range
<1>2. Control /\ KernelOK /\ LockIsSection /\ HandedOver /\ [Next]_vars => HandedOver'
  BY HandedOverStep
<1> QED
  BY <1>1, <1>2, ControlCorrect, MonitorKernelOK, LockCorrect, PTL DEF Spec

\* The step with which udp_thread leaves its post gives the command to
\* order_handle_task, or queues it for the task that does not exist yet.
CommandDelivered ==
  [][pc["udp"] = "post" /\ pc'["udp"] # "post"
       => IF Created("order") THEN Delivers ELSE Queues]_vars

\* Once order_handle_task exists, a received command is delivered by the post
\* itself (task.c:228, udp_u.c:80); between the bound address and that moment
\* (task.c:322-336) the post leaves it in ORDER_Msg.  A post to the full queue is
\* dropped, and the entries there point to the same buffer all the same.
THEOREM CommandDeliveredCorrect == Spec => CommandDelivered
<1> DEFINE Handed == IF Created("order") THEN Delivers ELSE Queues
<1>1. ASSUME Control, KernelOK, HandedOver, [Next]_vars, pc["udp"] = "post", pc'["udp"] # "post"
      PROVE  Handed
  <2>1. Udp
    BY <1>1, UdpMoves
  <2>2. UdpPost
    BY <1>1, <2>1
    DEF Udp, UdpSend, UdpSendFails, UdpNothingToSend, UdpClear, UdpReceive, UdpWait, Goto
  <2> QED
    BY <1>1, <2>2, CommandPost
<1>2. Control /\ KernelOK /\ HandedOver /\ [Next]_vars
        => [pc["udp"] = "post" /\ pc'["udp"] # "post" => Handed]_vars
  BY <1>1
<1> QED
  BY <1>2, ControlCorrect, MonitorKernelOK, HandedOverCorrect, PTL DEF Spec, CommandDelivered

-----------------------------------------------------------------------------
(* Types                                                                   *)

\* What may be in udp_recvbuf.
Contents == Readings \cup Commands \cup {NoText}

\* The application's own variables; the kernel's and the places are apart.
DataTyped ==
  /\ capBuf \in Readings \cup {NoText} /\ recvBuf \in Contents
  /\ unsent \in BOOLEAN /\ sendFlag \in BOOLEAN
  /\ temp \in Temps /\ adc \in Temps /\ dhcpstatus \in {0, 2}
  /\ limits \in Limits
  /\ isHotOver \in {0, 1} /\ isDormancy \in {0, 1}
  /\ orders \in 0..MaxOrders /\ keys \in 0..MaxKeys
  /\ ticks \in 0..MaxTicks /\ flips \in 0..MaxFlips

\* An empty buffer holds none of the words the tasks look for.
LEMMA NoWord == NoText[1] \notin {"reading", "q", "t"}
  BY Zenon DEF NoText

\* The number in a text is a temperature or a pair of limits, as its first
\* word says.
LEMMA TextFields ==
  ASSUME NEW x \in Contents \cup {<<"OVER">>, <<"RECO">>}
  PROVE  /\ x[1] \in {"reading", "q"} => x[2] \in Temps
         /\ x[1] = "t" => x[2] \in Limits
<1>1. CASE x \in Readings
  BY <1>1 DEF Readings
<1>2. CASE x \in Commands
  BY <1>2 DEF Commands
<1>3. CASE x \in {NoText, <<"OVER">>, <<"RECO">>}
  BY <1>3, NoWord
<1> QED
  BY <1>1, <1>2, <1>3 DEF Contents

\* What a task reads through the pointer it received.
LEMMA ReadText ==
  ASSUME DataTyped, KTypeOK, NEW t \in Tasks, rcv[t] # None
  PROVE  Text(rcv[t]) \in Contents \cup {<<"OVER">>, <<"RECO">>}
<1>1. rcv[t] \in Pointers
  BY MonitorAssumption DEF KTypeOK
<1>2. capBuf \in Contents /\ recvBuf \in Contents
  BY DEF DataTyped, Contents
<1>3. CASE rcv[t] = "capBuf"
  BY <1>2, <1>3 DEF Text
<1>4. CASE rcv[t] = "recvBuf"
  BY <1>2, <1>4 DEF Text
<1>5. CASE rcv[t] \in {"OVER", "RECO"}
  BY <1>5 DEF Text
<1> QED
  BY <1>1, <1>3, <1>4, <1>5 DEF Pointers

\* order_handle_task reads a command, or nothing.
LEMMA OrderFields ==
  ASSUME DataTyped, KTypeOK
  PROVE  /\ OrderText[1] \in {"reading", "q"} => OrderText[2] \in Temps
         /\ OrderText[1] = "t" => OrderText[2] \in Limits
<1>1. "order" \in Tasks
  BY DEF Tasks
<1>2. CASE rcv["order"] = None
  BY <1>2, NoWord DEF OrderText
<1>3. CASE rcv["order"] # None
  <2>1. OrderText = Text(rcv["order"])
    BY <1>3 DEF OrderText
  <2> QED
    BY <1>1, <1>3, <2>1, ReadText, TextFields
<1> QED
  BY <1>2, <1>3

\* The steps that write the application's variables.
LEMMA DataStep ==
  ASSUME DataTyped, KTypeOK, [Next]_vars
  PROVE  DataTyped'
<1> USE DEF DataTyped
<1>1. CASE UNCHANGED <<dataVars, envVars>>
  BY <1>1 DEF dataVars, envVars
<1>2. ASSUME NEW t \in Tasks, SuspendExit(t) \/ RecoveryExit(t) PROVE DataTyped'
  BY <1>2 DEF SuspendExit, RecoveryExit, envVars
<1>3. CASE SendCopy \/ SendFlag
  BY <1>3 DEF SendCopy, SendFlag, envVars
<1>4. CASE CapSample
  <2>1. capBuf' \in Readings
    BY <1>4 DEF CapSample, Readings
  <2> QED
    BY <1>4, <2>1 DEF CapSample, envVars
<1>5. CASE CheckParse
  <2>1. temp' \in Temps
    <3>1. CASE rcv["check"] = None
      BY <1>5, <3>1 DEF CheckParse
    <3>2. CASE rcv["check"] # None
      <4> DEFINE text == Text(rcv["check"])
      <4>1. text[1] = "reading" => text[2] \in Temps
        BY <3>2, ReadText, TextFields DEF Tasks
      <4>2. temp' = IF text[1] = "reading" THEN text[2] ELSE temp
        BY <1>5, <3>2 DEF CheckParse
      <4> QED
        BY <4>1, <4>2
    <3> QED
      BY <3>1, <3>2
  <2> QED
    BY <1>5, <2>1 DEF CheckParse, envVars
<1>6. CASE CheckDecide
  BY <1>6 DEF CheckDecide, envVars
<1>7. CASE OrderSetLimits
  BY <1>7, OrderFields DEF OrderSetLimits, envVars
<1>8. CASE OrderTestReading
  <2>1. recvBuf' \in Contents
    BY <1>8, OrderFields DEF OrderTestReading, Contents, Readings
  <2> QED
    BY <1>8, <2>1 DEF OrderTestReading, envVars
<1>9. CASE UdpSend \/ UdpClear
  BY <1>9 DEF UdpSend, UdpClear, envVars
<1>10. CASE UdpReceive
  <2>1. recvBuf' \in Contents
    BY <1>10, MonitorAssumption DEF UdpReceive, Contents
  <2>2. orders' \in 0..MaxOrders
    BY <1>10, MonitorAssumption DEF UdpReceive
  <2> QED
    BY <1>10, <2>1, <2>2 DEF UdpReceive
<1>11. CASE EXTI0_IRQHandler
  <2>1. keys' \in 0..MaxKeys
    BY <1>11, MonitorAssumption DEF EXTI0_IRQHandler
  <2> QED
    BY <1>11, <2>1 DEF EXTI0_IRQHandler
<1>12. CASE SysTick_Handler
  <2>1. ticks' \in 0..MaxTicks
    BY <1>12, MonitorAssumption DEF SysTick_Handler
  <2> QED
    BY <1>12, <2>1 DEF SysTick_Handler, dataVars
<1>13. CASE TemperatureChanges
  <2>1. flips' \in 0..MaxFlips
    BY <1>13, MonitorAssumption DEF TemperatureChanges
  <2> QED
    BY <1>13, <2>1 DEF TemperatureChanges, dataVars
<1>14. ASSUME NEW t \in Tasks, CriticalSection(t) PROVE DataTyped'
  BY <1>1, <1>2, <1>14
  DEF CriticalSection, SuspendEnter, SuspendDisplay, SuspendPost, RecoveryEnter,
      RecoveryPost, RecoveryResume
<1> QED
  <2>1. CASE Boot
    BY <1>1, <1>14, <2>1
    DEF Boot, BootPoll, ShowAddressEnter, CreateTasks, ShowAddressCreates, ShowAddressExit,
        BootSuspendsSelf, Tasks
  <2>2. CASE Send \/ Display
    BY <1>1, <1>3, <2>2 DEF Send, SendPend, SendPost, Display, DisplayPend, DisplayShow
  <2>3. CASE Cap
    BY <1>1, <1>4, <2>3 DEF Cap, CapPend, CapPost, CapDelay
  <2>4. CASE Check
    BY <1>1, <1>5, <1>6, <1>14, <2>4 DEF Check, CheckPend, CheckBeep, Tasks
  <2>5. CASE Order
    BY <1>1, <1>7, <1>8, <1>14, <2>5
    DEF Order, OrderPend, OrderRecover, OrderSuspend, OrderPostReading, OrderIgnore, Tasks
  <2>6. CASE Udp
    BY <1>1, <1>9, <1>10, <2>6 DEF Udp, UdpSendFails, UdpNothingToSend, UdpPost, UdpWait
  <2>7. CASE Kernel \/ UNCHANGED vars
    BY <1>1, <2>7 DEF Kernel, vars
  <2>8. CASE lwip_dhcp_task
    BY <2>8 DEF lwip_dhcp_task, dataVars
  <2> QED
    BY <1>11, <1>12, <1>13, <2>1, <2>2, <2>3, <2>4, <2>5, <2>6, <2>7, <2>8 DEF Next

\* Every variable of the monitor keeps its type and every task stays in its own
\* program, for any temperatures, limits, commands and bounds.
THEOREM MonitorTypeCorrect == Spec => []TypeOK
<1>1. ASSUME Init PROVE DataTyped
  <2>1. /\ capBuf \in Readings \cup {NoText} /\ recvBuf \in Contents
        /\ unsent \in BOOLEAN /\ sendFlag \in BOOLEAN
        /\ temp \in Temps /\ adc \in Temps /\ dhcpstatus \in {0, 2}
        /\ isHotOver \in {0, 1} /\ isDormancy \in {0, 1}
    BY <1>1 DEF Init, Contents
  <2>2. limits \in Limits
    BY <1>1, MonitorAssumption DEF Init
  <2>3. {MaxOrders, MaxKeys, MaxTicks, MaxFlips} \subseteq Nat
    BY MonitorAssumption
  <2>4. /\ orders \in 0..MaxOrders /\ keys \in 0..MaxKeys
        /\ ticks \in 0..MaxTicks /\ flips \in 0..MaxFlips
    BY <1>1, <2>3 DEF Init
  <2> QED
    BY <2>1, <2>2, <2>4 DEF DataTyped
<1>2. DataTyped /\ KTypeOK /\ [Next]_vars => DataTyped'
  BY DataStep
<1>3. KernelOK => KTypeOK
  BY DEF KernelOK
<1>4. Control /\ KTypeOK /\ DataTyped => TypeOK
  BY DEF Control, Places, DataTyped, Contents, TypeOK
<1> QED
  BY <1>1, <1>2, <1>3, <1>4, ControlCorrect, MonitorKernelOK, PTL DEF Spec

-----------------------------------------------------------------------------
(* Dormancy                                                                *)

\* The number of suspensions of the display that are still to be undone.
Depth == IF susp["display"] THEN suspendCtr["display"] ELSE 0

\* What carrying out a deferred entry does to that number.
Carried(n, e) ==
  CASE e.type = "SUSPEND" -> n + 1
    [] e.type = "RESUME"  -> IF n = 0 THEN 0 ELSE n - 1
    [] OTHER              -> n

\* d[i] is a number of suspensions the display has at least when the first i
\* entries of the queue q are carried out, n being the number it has now.
AtLeast(q, n, d) ==
  /\ d \in [0 .. Len(q) -> Nat]
  /\ d[0] <= n
  /\ \A i \in 1 .. Len(q) : d[i] <= Carried(d[i - 1], q[i])

\* No deferred resumption finds the display running.
NoneWasted(q, d) == \A i \in 1 .. Len(q) : q[i].type = "RESUME" => d[i - 1] > 0

\* The display will have one suspension if the flag says dormant, and one more
\* once suspend_task has made its own; when recovery_task has made its
\* resumption, it is about to clear the flag.
Covers(d) ==
  /\ (\A t \in Tasks : pc[t] # "r_exit") => d[Len(intQ)] >= isDormancy
  /\ \A t \in Tasks : pc[t] = "s_suspend" => NoneWasted(intQ, d)
  /\ \A t \in Tasks : pc[t] \in {"s_post", "s_exit"} => d[Len(intQ)] >= 1 + isDormancy

Dormancy == \E d : AtLeast(intQ, Depth, d) /\ Covers(d)

\* The counter of suspensions has room for one more.
FewNested == suspendCtr["display"] < NestMod - 1

\* A key press finds room for the two calls it defers.
KeyHasRoom == keys' # keys => Len(intQ) + 2 <= IntQSize

MonitorOK == TypeOK /\ Control /\ LockIsSection

\* What the invariants say of the display's suspensions.
LEMMA DepthTyped ==
  ASSUME MonitorOK
  PROVE  /\ susp["display"] \in BOOLEAN /\ suspendCtr["display"] \in Nat
         /\ suspendCtr["display"] < NestMod /\ Depth \in Nat
         /\ susp \in [Tasks -> BOOLEAN] /\ suspendCtr \in [Tasks -> Nat]
         /\ NestMod \in Nat /\ NestMod > 1 /\ isDormancy \in {0, 1}
         /\ intQ \in Seq(IsrEntries) /\ Len(intQ) \in Nat /\ IntQSize \in Nat
<1>1. NestMod \in Nat /\ NestMod > 1 /\ IntQSize \in Nat /\ "display" \in Tasks /\ Task = Tasks
  BY KernelAssumption, Names DEF Tasks
<1>2. susp \in [Tasks -> BOOLEAN] /\ suspendCtr \in [Tasks -> 0 .. NestMod - 1]
  BY <1>1 DEF MonitorOK, TypeOK, KTypeOK
<1>3. susp["display"] \in BOOLEAN /\ suspendCtr["display"] \in 0 .. NestMod - 1
  BY <1>1, <1>2
<1>4. intQ \in Seq(IsrEntries) /\ isDormancy \in {0, 1}
  BY DEF MonitorOK, TypeOK, Control, IntQEntries
<1>5. Len(intQ) \in Nat
  BY <1>4, LenProperties
<1> QED
  BY <1>1, <1>2, <1>3, <1>4, <1>5 DEF Depth

\* Suspending the display adds a suspension.
LEMMA DepthSuspend ==
  ASSUME MonitorOK, FewNested, OS_TaskSuspend("display")
  PROVE  Depth' \in Nat /\ Depth' >= Depth + 1
<1> DEFINE c == suspendCtr["display"]
<1>1. /\ susp["display"] \in BOOLEAN /\ c \in Nat /\ c < NestMod - 1 /\ NestMod \in Nat
      /\ "display" \in DOMAIN susp /\ "display" \in DOMAIN suspendCtr
  <2>1. c < NestMod - 1
    BY DEF FewNested
  <2> HIDE DEF c
  <2>2. "display" \in DOMAIN susp /\ "display" \in DOMAIN suspendCtr
    BY DepthTyped DEF Tasks
  <2> QED
    BY <2>1, <2>2, DepthTyped DEF c
<1>2. susp'["display"] /\ suspendCtr'["display"] = IF susp["display"] THEN (c + 1) % NestMod ELSE 1
  BY <1>1 DEF OS_TaskSuspend
<1> HIDE DEF c
<1>3. (c + 1) % NestMod = c + 1
  BY <1>1
<1> QED
  BY <1>1, <1>2, <1>3 DEF Depth, c

\* Resuming it takes one away, if there is one.
LEMMA DepthResume ==
  ASSUME MonitorOK, OS_TaskResume("display")
  PROVE  Depth' \in Nat /\ Depth' >= Depth - 1
<1> DEFINE c == suspendCtr["display"]
           r == (c + NestMod - 1) % NestMod
<1>1. /\ susp["display"] \in BOOLEAN /\ c \in Nat /\ c < NestMod /\ NestMod \in Nat /\ NestMod > 1
      /\ "display" \in DOMAIN susp /\ "display" \in DOMAIN suspendCtr
  BY DepthTyped DEF Tasks
<1>2. CASE ~susp["display"]
  BY <1>1, <1>2 DEF OS_TaskResume, Depth
<1>3. CASE susp["display"]
  <2>1. suspendCtr'["display"] = r /\ susp'["display"] = (r # 0)
    BY <1>1, <1>3 DEF OS_TaskResume
  <2> HIDE DEF c
  <2>2. r \in Nat /\ r >= c - 1
    <3>1. CASE c = 0
      BY <1>1, <3>1
    <3>2. CASE c # 0
      <4>1. c + NestMod - 1 = (c - 1) + NestMod /\ c - 1 \in Nat /\ c - 1 < NestMod
        BY <1>1, <3>2
      <4>2. r = c - 1
        BY <1>1, <4>1
      <4> QED
        BY <1>1, <3>2, <4>2
    <3> QED
      BY <3>1, <3>2
  <2> HIDE DEF r
  <2> QED
    BY <1>3, <2>1, <2>2 DEF Depth, c
<1> QED
  BY <1>1, <1>2, <1>3

\* Another entry in the queue.
LEMMA Deferring ==
  ASSUME NEW q \in Seq(IsrEntries), NEW e \in IsrEntries, NEW n \in Nat, NEW d,
         AtLeast(q, n, d)
  PROVE  \E c : /\ AtLeast(Append(q, e), n, c)
                /\ c[Len(q)] = d[Len(q)] /\ c[Len(q) + 1] = Carried(d[Len(q)], e)
                /\ NoneWasted(q, d) /\ (e.type = "RESUME" => d[Len(q)] > 0)
                     => NoneWasted(Append(q, e), c)
<1> DEFINE k == Len(q)
           w == Append(q, e)
           c == [i \in 0 .. k + 1 |-> IF i <= k THEN d[i] ELSE Carried(d[k], e)]
<1>1. k \in Nat /\ Len(w) = k + 1 /\ w[k + 1] = e /\ \A i \in 1 .. k : w[i] = q[i]
  BY LenProperties, AppendProperties
<1>2. d \in [0 .. k -> Nat] /\ d[0] <= n /\ \A i \in 1 .. k : d[i] <= Carried(d[i - 1], q[i])
  BY DEF AtLeast
<1> HIDE DEF k, w
<1>3. d[k] \in Nat /\ Carried(d[k], e) \in Nat
  BY <1>1, <1>2 DEF Carried
<1>4. c \in [0 .. k + 1 -> Nat]
  BY <1>1, <1>2, <1>3
<1>5. (\A i \in 0 .. k : c[i] = d[i]) /\ c[k + 1] = Carried(d[k], e)
  BY <1>1
<1> HIDE DEF c
<1>6. \A i \in 1 .. k + 1 : i - 1 \in 0 .. k /\ c[i - 1] = d[i - 1] /\ (i \in 1 .. k \/ i = k + 1)
  BY <1>1, <1>5
<1>7. \A i \in 1 .. k + 1 : c[i] <= Carried(c[i - 1], w[i])
  <2> TAKE i \in 1 .. k + 1
  <2>1. CASE i \in 1 .. k
    <3>1. i \in 0 .. k
      BY <1>1, <2>1
    <3> QED
      BY <1>1, <1>2, <1>5, <1>6, <2>1, <3>1
  <2>2. CASE i = k + 1
    <3>1. c[i] = Carried(c[i - 1], w[i]) /\ c[i] = Carried(d[k], e)
      BY <1>1, <1>5, <1>6, <2>2
    <3> QED
      BY <1>3, <3>1
  <2> QED
    BY <1>6, <2>1, <2>2
<1>8. AtLeast(w, n, c)
  BY <1>1, <1>2, <1>4, <1>5, <1>7 DEF AtLeast
<1>9. NoneWasted(q, d) /\ (e.type = "RESUME" => d[k] > 0) => NoneWasted(w, c)
  <2> SUFFICES ASSUME NoneWasted(q, d), e.type = "RESUME" => d[k] > 0,
                      NEW i \in 1 .. k + 1, w[i].type = "RESUME"
               PROVE  c[i - 1] > 0
    BY <1>1 DEF NoneWasted
  <2>1. c[i - 1] = d[i - 1]
    BY <1>6
  <2>2. CASE i \in 1 .. k
    BY <1>1, <2>1, <2>2 DEF NoneWasted, k
  <2>3. CASE i = k + 1
    BY <1>1, <2>1, <2>3
  <2> QED
    BY <1>6, <2>2, <2>3
<1>10. c[k] = d[k]
  BY <1>1, <1>5
<1> QED
  BY <1>5, <1>8, <1>9, <1>10 DEF k, w

\* An entry that is not wasted moves the number, whatever it is.
LEMMA CarriedMore ==
  ASSUME NEW e, NEW n \in Nat, NEW m \in Nat, m <= Carried(n, e), e.type = "RESUME" => n > 0
  PROVE  m + 1 <= Carried(n + 1, e)
<1>1. CASE e.type = "SUSPEND"
  BY <1>1 DEF Carried
<1>2. CASE e.type = "RESUME"
  BY <1>2 DEF Carried
<1>3. CASE e.type \notin {"SUSPEND", "RESUME"}
  BY <1>3 DEF Carried
<1> QED
  BY <1>1, <1>2, <1>3

\* What suspend_task and recovery_task do to the suspensions.
LEMMA DormancySection ==
  ASSUME MonitorOK, FewNested, Dormancy,
         NEW t \in {"boot", "order", "check"}, CriticalSection(t)
  PROVE  Dormancy'
<1>1. t \in Tasks /\ t # "display"
  BY DEF Tasks
<1>2. PICK d : AtLeast(intQ, Depth, d) /\ Covers(d)
  BY DEF Dormancy
<1> DEFINE k == Len(intQ)
<1>3. /\ Depth \in Nat /\ isDormancy \in {0, 1} /\ k \in Nat
      /\ d \in [0 .. k -> Nat] /\ d[0] <= Depth /\ d[k] \in Nat
      /\ \A i \in 1 .. k : d[i] <= Carried(d[i - 1], intQ[i])
  BY <1>2, DepthTyped DEF AtLeast
<1>4. \E from, to : Goto(t, from, to)
  BY DEF CriticalSection, SuspendEnter, SuspendDisplay, SuspendPost, SuspendExit,
         RecoveryEnter, RecoveryPost, RecoveryResume, RecoveryExit
<1>5. \A u \in Tasks : u # t => pc'[u] = pc[u]
  BY <1>1, <1>4, GotoEffect DEF MonitorOK, Control
<1>6. intQ' = intQ
  BY DEF CriticalSection, SuspendEnter, SuspendDisplay, SuspendPost, SuspendExit,
         RecoveryEnter, RecoveryPost, RecoveryResume, RecoveryExit, Lock, Unlock, OSQPost,
         OSTaskSuspend, OSTaskResume
<1>7. \A u \in Tasks : u # t => pc[u] \notin Section
  <2>1. CASE SuspendEnter(t) \/ RecoveryEnter(t)
    BY <2>1 DEF SuspendEnter, RecoveryEnter, Lock, MonitorOK, LockIsSection, Section
  <2>2. CASE pc[t] \in Section
    BY <1>1, <2>2 DEF MonitorOK, LockIsSection, Section
  <2> QED
    BY <2>1, <2>2
    DEF CriticalSection, SuspendDisplay, SuspendPost, SuspendExit, RecoveryPost,
        RecoveryResume, RecoveryExit, Goto, Section, InSuspend, InRecovery, InShowAddress
<1>8. (t \in DOMAIN pc) /\ \A from, to : Goto(t, from, to) => pc[t] = from /\ pc'[t] = to
  BY <1>1, GotoEffect DEF MonitorOK, Control, Places
<1>9. CASE SuspendEnter(t) \/ RecoveryEnter(t)
  <2>1. k = 0
    <3>1. intQ = <<>>
      BY <1>9 DEF SuspendEnter, RecoveryEnter, Lock, CanRun
    <3> QED
      BY <3>1, EmptySeq
  <2>2. /\ pc[t] \notin Section /\ pc'[t] \in {"s_suspend", "r_post"}
        /\ isDormancy' = isDormancy /\ susp' = susp /\ suspendCtr' = suspendCtr
    BY <1>8, <1>9
    DEF SuspendEnter, RecoveryEnter, Lock, Section, InSuspend, InRecovery, InShowAddress,
        dataVars
  <2>3. d[k] >= isDormancy
    BY <1>2, <1>7, <2>2 DEF Covers, Section, InRecovery
  <2>4. NoneWasted(intQ, d)
    BY <2>1 DEF NoneWasted
  <2>5. Covers(d)'
    BY <1>5, <1>6, <1>7, <2>2, <2>3, <2>4
    DEF Covers, Section, InSuspend, InRecovery, InShowAddress, NoneWasted
  <2>6. Depth' = Depth
    BY <2>2 DEF Depth
  <2> QED
    BY <1>2, <1>6, <2>5, <2>6 DEF Dormancy
<1>10. CASE SuspendDisplay(t)
  <2>0. PICK c : c = [i \in 0 .. k |-> d[i] + 1]
    OBVIOUS
  <2>1. /\ pc[t] = "s_suspend" /\ pc'[t] = "s_post" /\ isDormancy' = isDormancy
        /\ OS_TaskSuspend("display")
    BY <1>1, <1>8, <1>10 DEF SuspendDisplay, OSTaskSuspend, dataVars
  <2>2. NoneWasted(intQ, d) /\ d[k] >= isDormancy
    BY <1>1, <1>2, <1>7, <2>1 DEF Covers, Section, InRecovery
  <2>3. Depth' \in Nat /\ Depth' >= Depth + 1
    BY <2>1, DepthSuspend
  <2>4. c \in [0 .. k -> Nat] /\ c[0] <= Depth' /\ c[k] = d[k] + 1
    BY <1>3, <2>0, <2>3
  <2>5. ASSUME NEW i \in 1 .. k PROVE c[i] <= Carried(c[i - 1], intQ[i])
    <3>1. i - 1 \in 0 .. k /\ i \in 0 .. k
      BY <1>3
    <3>2. c[i] = d[i] + 1 /\ c[i - 1] = d[i - 1] + 1 /\ d[i] \in Nat /\ d[i - 1] \in Nat
      BY <1>3, <2>0, <3>1
    <3>3. d[i] <= Carried(d[i - 1], intQ[i]) /\ (intQ[i].type = "RESUME" => d[i - 1] > 0)
      BY <1>3, <2>2 DEF NoneWasted
    <3> QED
      BY <3>2, <3>3, CarriedMore
  <2>6. AtLeast(intQ', Depth', c)
    BY <1>6, <2>4, <2>5 DEF AtLeast
  <2>7. Covers(c)'
    BY <1>3, <1>5, <1>6, <1>7, <2>1, <2>2, <2>4
    DEF Covers, Section, InSuspend, InRecovery, InShowAddress
  <2> QED
    BY <2>6, <2>7 DEF Dormancy
<1>11. CASE SuspendPost(t)
  <2>1. /\ pc[t] = "s_post" /\ pc'[t] = "s_exit" /\ isDormancy' = isDormancy
        /\ susp' = susp /\ suspendCtr' = suspendCtr
    BY <1>8, <1>11 DEF SuspendPost, OSQPost, dataVars
  <2>2. d[k] >= 1 + isDormancy
    <3>1. \A u \in Tasks : pc[u] \in {"s_post", "s_exit"} => d[k] >= 1 + isDormancy
      BY <1>2 DEF Covers
    <3>2. t \in Tasks /\ pc[t] \in {"s_post", "s_exit"}
      BY <1>1, <2>1
    <3> QED
      BY <3>1, <3>2, Zenon
  <2>3. Covers(d)'
    <3>1. d[Len(intQ')] >= 1 + isDormancy' /\ d[Len(intQ')] >= isDormancy'
      BY <1>3, <1>6, <2>1, <2>2
    <3>2. ASSUME NEW u \in Tasks PROVE pc'[u] # "s_suspend"
      <4>1. CASE u = t
        BY <2>1, <4>1
      <4>2. CASE u # t
        BY <1>5, <1>7, <4>2 DEF Section, InSuspend
      <4> QED
        BY <4>1, <4>2
    <3> QED
      BY <3>1, <3>2 DEF Covers
  <2>4. Depth' = Depth
    BY <2>1 DEF Depth
  <2> QED
    BY <1>2, <1>6, <2>3, <2>4 DEF Dormancy
<1>12. CASE SuspendExit(t) \/ RecoveryExit(t)
  <2>1. /\ pc'[t] = Return(t) /\ susp' = susp /\ suspendCtr' = suspendCtr
        /\ \/ isDormancy' = 0
           \/ pc[t] = "s_exit" /\ isDormancy' = 1
    BY <1>8, <1>12 DEF SuspendExit, RecoveryExit, Unlock
  <2>2. d[k] >= isDormancy'
    BY <1>1, <1>2, <1>3, <2>1 DEF Covers
  <2>3. Covers(d)'
    BY <1>5, <1>6, <1>7, <2>1, <2>2
    DEF Covers, Section, InSuspend, InRecovery, InShowAddress, Return
  <2>4. Depth' = Depth
    BY <2>1 DEF Depth
  <2> QED
    BY <1>2, <1>6, <2>3, <2>4 DEF Dormancy
<1>13. CASE RecoveryPost(t)
  <2>1. /\ pc[t] = "r_post" /\ pc'[t] = "r_resume" /\ isDormancy' = isDormancy
        /\ susp' = susp /\ suspendCtr' = suspendCtr
    BY <1>8, <1>13 DEF RecoveryPost, OSQPost, dataVars
  <2>2. Covers(d)'
    BY <1>1, <1>2, <1>5, <1>6, <1>7, <2>1
    DEF Covers, Section, InSuspend, InRecovery, InShowAddress
  <2>3. Depth' = Depth
    BY <2>1 DEF Depth
  <2> QED
    BY <1>2, <1>6, <2>2, <2>3 DEF Dormancy
<1>14. CASE RecoveryResume(t)
  <2> DEFINE c == [i \in 0 .. k |-> 0]
  <2>1. pc'[t] = "r_exit" /\ OS_TaskResume("display")
    BY <1>8, <1>14 DEF RecoveryResume, OSTaskResume
  <2>2. Depth' \in Nat
    BY <2>1, DepthResume
  <2>3. \A i \in 1 .. k : Carried(0, intQ[i]) \in Nat
    BY DEF Carried
  <2>4. AtLeast(intQ', Depth', c)
    BY <1>3, <1>6, <2>2, <2>3 DEF AtLeast
  <2>5. Covers(c)'
    BY <1>1, <1>5, <1>7, <2>1 DEF Covers, Section, InSuspend, InRecovery, InShowAddress
  <2> QED
    BY <2>4, <2>5 DEF Dormancy
<1> QED
  BY <1>9, <1>10, <1>11, <1>12, <1>13, <1>14 DEF CriticalSection

\* A step that touches neither the display nor the queue nor a critical section.
LEMMA DormancyPlain ==
  ASSUME MonitorOK, Dormancy, NEW t \in Tasks, Plain(t),
         UNCHANGED <<intQ, isDormancy>>, Depth' = Depth
  PROVE  Dormancy'
<1>1. PICK d : AtLeast(intQ, Depth, d) /\ Covers(d)
  BY DEF Dormancy
<1>2. /\ pc[t] \notin Section /\ pc'[t] \notin Section
      /\ \A u \in Tasks : u # t => pc'[u] = pc[u]
  BY GotoEffect DEF Plain, MonitorOK, Control
<1>3. Covers(d)'
  BY <1>1, <1>2 DEF Covers, Section, InSuspend, InRecovery, InShowAddress
<1> QED
  BY <1>1, <1>3 DEF Dormancy

\* The tasks' own steps.
LEMMA DormancyTask ==
  ASSUME MonitorOK, Dormancy,
         \/ Send /\ Plain("send")
         \/ Cap /\ Plain("cap")
         \/ Udp /\ Plain("udp")
         \/ Display /\ Plain("display")
         \/ (BootPoll \/ BootSuspendsSelf) /\ Plain("boot")
         \/ (CheckPend \/ CheckParse \/ CheckDecide \/ CheckBeep) /\ Plain("check")
         \/ /\ \/ OrderPend \/ OrderSetLimits \/ OrderRecover \/ OrderSuspend
               \/ OrderTestReading \/ OrderPostReading \/ OrderIgnore
            /\ Plain("order")
  PROVE  Dormancy'
<1>1. susp \in [Tasks -> BOOLEAN] /\ suspendCtr \in [Tasks -> Nat] /\ "boot" # "display"
  BY DepthTyped
<1> DEFINE Same == UNCHANGED <<susp, suspendCtr, intQ, isDormancy>>
<1>2. ASSUME NEW t \in Tasks, Plain(t), Same PROVE Dormancy'
  BY <1>2, DormancyPlain DEF Depth
<1>3. CASE Send /\ Plain("send")
  <2>1. Same
    BY <1>3
    DEF Send, SendPend, SendCopy, SendFlag, SendPost, Compute, OSQPend, OSQPendGet,
        PendLocked, Block, OSSemPost, dataVars
  <2> QED
    BY <1>2, <1>3, <2>1 DEF Tasks
<1>4. CASE Cap /\ Plain("cap")
  <2>1. Same
    BY <1>4
    DEF Cap, CapPend, CapSample, CapPost, CapDelay, Compute, OSSemPend, OSSemPendGet,
        PendLocked, Block, OSQPost, OSTimeDly, dataVars
  <2> QED
    BY <1>2, <1>4, <2>1 DEF Tasks
<1>5. CASE Udp /\ Plain("udp")
  <2>1. Same
    BY <1>5
    DEF Udp, UdpSend, UdpSendFails, UdpNothingToSend, UdpClear, UdpReceive, UdpPost,
        UdpWait, Compute, OSQPost, OSTimeDly, dataVars
  <2> QED
    BY <1>2, <1>5, <2>1 DEF Tasks
<1>6. CASE Display /\ Plain("display")
  <2>1. Same
    BY <1>6
    DEF Display, DisplayPend, DisplayShow, Compute, OSQPend, OSQPendGet, PendLocked,
        Block, dataVars
  <2> QED
    BY <1>2, <1>6, <2>1 DEF Tasks
<1>7. CASE (CheckPend \/ CheckParse \/ CheckDecide \/ CheckBeep) /\ Plain("check")
  <2>1. Same
    BY <1>7
    DEF CheckPend, CheckParse, CheckDecide, CheckBeep, Compute, OSQPend, OSQPendGet,
        PendLocked, Block, OSTimeDly, dataVars
  <2> QED
    BY <1>2, <1>7, <2>1 DEF Tasks
<1>8. CASE /\ \/ OrderPend \/ OrderSetLimits \/ OrderRecover \/ OrderSuspend
              \/ OrderTestReading \/ OrderPostReading \/ OrderIgnore
           /\ Plain("order")
  <2>1. Same
    BY <1>8
    DEF OrderPend, OrderSetLimits, OrderRecover, OrderSuspend, OrderTestReading,
        OrderPostReading, OrderIgnore, Compute, OSQPend, OSQPendGet, PendLocked, Block,
        OSQPost, dataVars
  <2> QED
    BY <1>2, <1>8, <2>1 DEF Tasks
<1>9. CASE (BootPoll \/ BootSuspendsSelf) /\ Plain("boot")
  <2>1. /\ UNCHANGED <<intQ, isDormancy>>
        /\ OS_TaskSuspend("boot") \/ UNCHANGED <<susp, suspendCtr>>
    BY <1>9 DEF BootPoll, BootSuspendsSelf, OSTimeDly, OSTaskSuspend, dataVars
  <2>2. Depth' = Depth
    BY <1>1, <2>1 DEF OS_TaskSuspend, Depth, Tasks
  <2> QED
    BY <1>9, <2>1, <2>2, DormancyPlain DEF Tasks
<1> QED
  BY <1>3, <1>4, <1>5, <1>6, <1>7, <1>8, <1>9

\* Two entries are posted when there is room for them.
LEMMA PostedPair ==
  ASSUME MonitorOK, NEW a \in IsrEntries, NEW b \in IsrEntries, Len(intQ) + 2 <= IntQSize
  PROVE  IntQPosted(<<a, b>>) = Append(Append(intQ, a), b)
<1>1. intQ \in Seq(IsrEntries) /\ Len(intQ) \in Nat /\ IntQSize \in Nat
  BY DepthTyped
<1>2. Len(<<a, b>>) = 2 /\ <<a, b>> \in Seq(IsrEntries)
  OBVIOUS
<1>3. SubSeq(<<a, b>>, 1, 2) = <<a, b>>
  BY <1>2, SubSeqFull
<1>4. IntQPosted(<<a, b>>) = intQ \o <<a, b>>
  <2>1. (IF Len(<<a, b>>) < IntQSize - Len(intQ) THEN Len(<<a, b>>) ELSE IntQSize - Len(intQ)) = 2
    BY <1>1, <1>2
  <2> QED
    BY <1>3, <2>1 DEF IntQPosted
<1>5. intQ \o <<a, b>> = Append(Append(intQ, a), b)
  BY <1>1
<1> QED
  BY <1>4, <1>5

\* A tick is posted or dropped.
LEMMA PostedTick ==
  ASSUME MonitorOK, NEW a \in IsrEntries, Isr(<<a>>)
  PROVE  intQ' = Append(intQ, a) \/ intQ' = intQ
<1>1. /\ intQ \in Seq(IsrEntries) /\ Len(intQ) \in Nat /\ IntQSize \in Nat
      /\ Len(intQ) <= IntQSize
  BY DepthTyped DEF MonitorOK, TypeOK, KTypeOK
<1> DEFINE n == IF Len(<<a>>) < IntQSize - Len(intQ) THEN Len(<<a>>) ELSE IntQSize - Len(intQ)
<1>2. intQ' = intQ \o SubSeq(<<a>>, 1, n)
  BY DEF Isr, IntQPosted
<1>3. Len(<<a>>) = 1 /\ <<a>> \in Seq(IsrEntries)
  OBVIOUS
<1>4. n \in {0, 1}
  BY <1>1, <1>3
<1> HIDE DEF n
<1>5. CASE n = 1
  <2>1. SubSeq(<<a>>, 1, 1) = <<a>>
    BY <1>3, SubSeqFull
  <2>2. intQ' = intQ \o <<a>>
    BY <1>2, <1>5, <2>1
  <2> QED
    BY <1>1, <2>2
<1>6. CASE n = 0
  <2>1. SubSeq(<<a>>, 1, 0) = <<>>
    OBVIOUS
  <2>2. intQ' = intQ \o <<>>
    BY <1>2, <1>6, <2>1
  <2> QED
    BY <1>1, <2>2
<1> QED
  BY <1>4, <1>5, <1>6

\* The key interrupt defers a suspension or a resumption and sets the flag.
LEMMA DormancyKey ==
  ASSUME MonitorOK, Dormancy, KeyHasRoom, EXTI0_IRQHandler
  PROVE  Dormancy'
<1> DEFINE s == [type |-> "SUSPEND", obj |-> "display", msg |-> None]
           o == [type |-> "Q", obj |-> "DATA", msg |-> "OVER"]
           w == [type |-> "Q", obj |-> "DATA", msg |-> "RECO"]
           r == [type |-> "RESUME", obj |-> "display", msg |-> None]
           k == Len(intQ)
<1>1. PICK d : AtLeast(intQ, Depth, d) /\ Covers(d)
  BY DEF Dormancy
<1>2. /\ Depth \in Nat /\ isDormancy \in {0, 1} /\ k \in Nat
      /\ intQ \in Seq(IsrEntries) /\ d \in [0 .. k -> Nat] /\ d[k] \in Nat
  <2>1. /\ Depth \in Nat /\ isDormancy \in {0, 1} /\ k \in Nat /\ intQ \in Seq(IsrEntries)
    BY DepthTyped
  <2>2. d \in [0 .. k -> Nat]
    BY <1>1 DEF AtLeast
  <2>3. k \in 0 .. k
    BY <2>1
  <2> QED
    BY <2>1, <2>2, <2>3
<1>3. /\ pc' = pc /\ susp' = susp /\ suspendCtr' = suspendCtr
      /\ \/ isDormancy # 1 /\ Isr(KeySuspends) /\ isDormancy' = 1
         \/ isDormancy = 1 /\ Isr(KeyRecovers) /\ isDormancy' = 0
  BY DEF EXTI0_IRQHandler, Isr
<1>4. Depth' = Depth
  BY <1>3 DEF Depth
<1>5. Len(intQ) + 2 <= IntQSize
  <2>1. keys \in Nat /\ keys' = keys + 1
    BY MonitorAssumption DEF EXTI0_IRQHandler, MonitorOK, TypeOK
  <2> QED
    BY <2>1 DEF KeyHasRoom
<1>6. {s, o, w, r} \subseteq IsrEntries
  BY DEF IsrEntries
<1>7. s.type = "SUSPEND" /\ o.type = "Q" /\ w.type = "Q" /\ r.type = "RESUME"
  OBVIOUS
<1>8. KeySuspends = <<s, o>> /\ KeyRecovers = <<w, r>>
  BY DEF KeySuspends, KeyRecovers
<1> HIDE DEF s, o, w, r
<1>9. \A t, u \in Tasks : pc[t] \in {"s_suspend", "s_post", "s_exit"} /\ pc[u] \in Section => u = t
  BY DEF MonitorOK, LockIsSection, Section, InSuspend, InRecovery, InShowAddress
<1>10. ASSUME NEW t \in Tasks, pc[t] \in {"s_suspend", "s_post", "s_exit"}
       PROVE  d[k] >= isDormancy
  <2>1. \A u \in Tasks : pc[u] # "r_exit"
    BY <1>9, <1>10 DEF Section, InRecovery
  <2> QED
    BY <1>1, <2>1 DEF Covers
<1>11. ASSUME NEW a \in IsrEntries, NEW b \in IsrEntries, Isr(<<a, b>>)
       PROVE  \E c : /\ AtLeast(intQ', Depth', c)
                     /\ c[Len(intQ')] = Carried(Carried(d[k], a), b)
                     /\ /\ NoneWasted(intQ, d)
                        /\ a.type = "RESUME" => d[k] > 0
                        /\ b.type = "RESUME" => Carried(d[k], a) > 0
                        => NoneWasted(intQ', c)
  <2>1. intQ' = Append(Append(intQ, a), b)
    BY <1>5, <1>11, PostedPair DEF Isr
  <2> DEFINE q == Append(intQ, a)
  <2>2. q \in Seq(IsrEntries) /\ Len(q) = k + 1 /\ Len(Append(q, b)) = k + 2
    BY <1>2
  <2>3. PICK e : /\ AtLeast(q, Depth, e)
                 /\ e[k + 1] = Carried(d[k], a)
                 /\ NoneWasted(intQ, d) /\ (a.type = "RESUME" => d[k] > 0) => NoneWasted(q, e)
    BY <1>1, <1>2, Deferring
  <2> HIDE DEF q
  <2>4. PICK c : /\ AtLeast(Append(q, b), Depth, c)
                 /\ c[(k + 1) + 1] = Carried(e[k + 1], b)
                 /\ NoneWasted(q, e) /\ (b.type = "RESUME" => e[k + 1] > 0)
                      => NoneWasted(Append(q, b), c)
    BY <1>2, <2>2, <2>3, Deferring
  <2>5. (k + 1) + 1 = k + 2 /\ intQ' = Append(q, b)
    BY <1>2, <2>1 DEF q
  <2>6. /\ AtLeast(intQ', Depth', c) /\ c[Len(intQ')] = Carried(Carried(d[k], a), b)
    BY <1>4, <2>2, <2>3, <2>4, <2>5
  <2>7. /\ NoneWasted(intQ, d)
        /\ a.type = "RESUME" => d[k] > 0
        /\ b.type = "RESUME" => Carried(d[k], a) > 0
        => NoneWasted(intQ', c)
    BY <2>3, <2>4, <2>5
  <2> QED
    BY <2>6, <2>7
<1>12. CASE isDormancy # 1 /\ Isr(KeySuspends) /\ isDormancy' = 1
  <2>1. PICK c : /\ AtLeast(intQ', Depth', c)
                 /\ c[Len(intQ')] = Carried(Carried(d[k], s), o)
                 /\ NoneWasted(intQ, d) => NoneWasted(intQ', c)
    BY <1>6, <1>7, <1>8, <1>11, <1>12
  <2>2. c[Len(intQ')] = d[k] + 1
    BY <1>7, <2>1 DEF Carried
  <2>3. d[k] >= 0 /\ isDormancy' = 1 /\ isDormancy = 0
    BY <1>2, <1>12
  <2>4. \A t \in Tasks : pc'[t] \in {"s_post", "s_exit"} => c[Len(intQ')] >= 1 + isDormancy'
    BY <1>1, <1>2, <1>3, <2>2, <2>3 DEF Covers
  <2>5. \A t \in Tasks : pc'[t] = "s_suspend" => NoneWasted(intQ', c)
    BY <1>1, <1>3, <2>1 DEF Covers
  <2>6. c[Len(intQ')] >= isDormancy'
    BY <1>2, <2>2, <2>3
  <2>7. Covers(c)'
    BY <2>4, <2>5, <2>6 DEF Covers
  <2> QED
    BY <2>1, <2>7 DEF Dormancy
<1>13. CASE isDormancy = 1 /\ Isr(KeyRecovers) /\ isDormancy' = 0
  <2>1. PICK c : /\ AtLeast(intQ', Depth', c)
                 /\ c[Len(intQ')] = Carried(Carried(d[k], w), r)
                 /\ NoneWasted(intQ, d) /\ Carried(d[k], w) > 0 => NoneWasted(intQ', c)
    BY <1>6, <1>7, <1>8, <1>11, <1>13
  <2>2. Carried(d[k], w) = d[k] /\ c[Len(intQ')] = IF d[k] = 0 THEN 0 ELSE d[k] - 1
    BY <1>7, <2>1 DEF Carried
  <2>3. \A t \in Tasks : pc'[t] \in {"s_post", "s_exit"} => c[Len(intQ')] >= 1 + isDormancy'
    <3>1. \A t \in Tasks : pc[t] \in {"s_post", "s_exit"} => d[k] >= 2
      BY <1>1, <1>13 DEF Covers
    <3> QED
      BY <1>2, <1>3, <1>13, <2>2, <3>1
  <2>4. \A t \in Tasks : pc'[t] = "s_suspend" => NoneWasted(intQ', c)
    <3>1. \A t \in Tasks : pc[t] = "s_suspend" => NoneWasted(intQ, d) /\ d[k] > 0
      BY <1>1, <1>2, <1>10, <1>13 DEF Covers
    <3> QED
      BY <1>3, <2>1, <2>2, <3>1
  <2>5. c[Len(intQ')] >= isDormancy'
    BY <1>2, <1>13, <2>2
  <2>6. Covers(c)'
    BY <2>3, <2>4, <2>5 DEF Covers
  <2> QED
    BY <2>1, <2>6 DEF Dormancy
<1> QED
  BY <1>3, <1>12, <1>13

\* OS_IntQTask carries out the oldest entry; no task is in a critical section.
LEMMA DormancyIntQ ==
  ASSUME MonitorOK, FewNested, Dormancy, OS_IntQTask, UNCHANGED <<pc, dataVars>>
  PROVE  Dormancy'
<1> DEFINE k == Len(intQ)
           e == Head(intQ)
<1>1. PICK d : AtLeast(intQ, Depth, d) /\ Covers(d)
  BY DEF Dormancy
<1>2. /\ Depth \in Nat /\ isDormancy \in {0, 1} /\ k \in Nat /\ intQ \in Seq(IsrEntries)
      /\ d \in [0 .. k -> Nat] /\ d[0] <= Depth
      /\ \A i \in 1 .. k : d[i] <= Carried(d[i - 1], intQ[i])
  BY <1>1, DepthTyped DEF AtLeast
<1>3. intQ # <<>> /\ ~locked /\ OS_IntQRePost(e) /\ intQ' = Tail(intQ) /\ isDormancy' = isDormancy
  BY DEF OS_IntQTask, dataVars
<1>4. /\ k > 0 /\ e = intQ[1] /\ e \in IsrEntries
      /\ Len(Tail(intQ)) = k - 1 /\ \A i \in 1 .. k - 1 : Tail(intQ)[i] = intQ[i + 1]
  BY <1>2, <1>3, HeadTailProperties, EmptySeq
<1> HIDE DEF k, e
<1>5. Depth' \in Nat /\ Carried(Depth, e) <= Depth'
  <2>1. CASE e.type = "SUSPEND"
    <3>1. OS_TaskSuspend("display")
      BY <1>3, <1>4, <2>1 DEF OS_IntQRePost, IsrEntries
    <3>2. Carried(Depth, e) = Depth + 1
      BY <2>1 DEF Carried
    <3> QED
      BY <3>1, <3>2, DepthSuspend
  <2>2. CASE e.type = "RESUME"
    <3>1. OS_TaskResume("display")
      BY <1>3, <1>4, <2>2 DEF OS_IntQRePost, IsrEntries
    <3>2. Carried(Depth, e) = IF Depth = 0 THEN 0 ELSE Depth - 1
      BY <2>2 DEF Carried
    <3>3. Depth' \in Nat /\ Depth' >= Depth - 1
      BY <3>1, DepthResume
    <3> QED
      BY <1>2, <3>2, <3>3
  <2>3. CASE e.type \notin {"SUSPEND", "RESUME"}
    <3>1. UNCHANGED <<susp, suspendCtr>>
      BY <1>3, <2>3 DEF OS_IntQRePost
    <3>2. Depth' = Depth
      BY <3>1 DEF Depth
    <3>3. Carried(Depth, e) = Depth
      BY <2>3 DEF Carried
    <3> QED
      BY <1>2, <3>2, <3>3
  <2> QED
    BY <2>1, <2>2, <2>3
<1>6. PICK c : c = [i \in 0 .. k - 1 |-> d[i + 1]]
  OBVIOUS
<1>7. c \in [0 .. k - 1 -> Nat] /\ c[0] = d[1] /\ c[k - 1] = d[k]
  BY <1>2, <1>4, <1>6 DEF k
<1>8. c[0] <= Depth'
  <2>1. d[0] \in Nat /\ d[1] \in Nat /\ d[1] <= Carried(d[0], e)
    BY <1>2, <1>4 DEF k
  <2>2. Carried(d[0], e) <= Carried(Depth, e)
    BY <1>2, <2>1 DEF Carried
  <2>3. Carried(d[0], e) \in Nat /\ Carried(Depth, e) \in Nat
    BY <1>2, <2>1 DEF Carried
  <2> QED
    BY <1>5, <1>7, <2>1, <2>2, <2>3
<1>9. ASSUME NEW i \in 1 .. k - 1 PROVE c[i] <= Carried(c[i - 1], Tail(intQ)[i])
  <2>1. i \in 0 .. k - 1 /\ i - 1 \in 0 .. k - 1 /\ (i - 1) + 1 = i /\ i + 1 \in 1 .. k
    BY <1>2, <1>4 DEF k
  <2>2. c[i] = d[i + 1] /\ c[i - 1] = d[i]
    BY <1>6, <2>1
  <2>3. d[i + 1] <= Carried(d[(i + 1) - 1], intQ[i + 1]) /\ (i + 1) - 1 = i
    BY <1>2, <2>1 DEF k
  <2> QED
    BY <1>4, <2>2, <2>3
<1>10. AtLeast(intQ', Depth', c)
  BY <1>3, <1>4, <1>7, <1>8, <1>9 DEF AtLeast
<1>11. \A t \in Tasks : pc[t] \notin Section
  BY <1>3 DEF MonitorOK, LockIsSection, Section
<1>12. c[Len(intQ')] >= isDormancy
  BY <1>1, <1>3, <1>4, <1>7, <1>11 DEF Covers, Section, InRecovery, k
<1>13. Covers(c)'
  BY <1>3, <1>11, <1>12 DEF Covers, Section, InSuspend
<1> QED
  BY <1>10, <1>13 DEF Dormancy

\* A tick in a critical section.
LEMMA DormancyTick ==
  ASSUME MonitorOK, Dormancy, SysTick_Handler
  PROVE  Dormancy'
<1> DEFINE e == [type |-> "TICK", obj |-> None, msg |-> None]
<1>1. PICK d : AtLeast(intQ, Depth, d) /\ Covers(d)
  BY DEF Dormancy
<1>2. Depth \in Nat /\ Len(intQ) \in Nat /\ intQ \in Seq(IsrEntries)
  BY DepthTyped
<1>3. e \in IsrEntries /\ e.type = "TICK" /\ TickPost = <<e>>
  BY DEF IsrEntries, TickPost
<1> HIDE DEF e
<1>4. /\ Isr(<<e>>) /\ pc' = pc /\ isDormancy' = isDormancy
      /\ susp' = susp /\ suspendCtr' = suspendCtr
  BY <1>3 DEF SysTick_Handler, Isr, dataVars
<1>5. Depth' = Depth
  BY <1>4 DEF Depth
<1>6. CASE intQ' = intQ
  BY <1>1, <1>4, <1>5, <1>6 DEF Dormancy, Covers
<1>7. CASE intQ' = Append(intQ, e)
  <2>1. PICK c : /\ AtLeast(Append(intQ, e), Depth, c)
                 /\ c[Len(intQ) + 1] = Carried(d[Len(intQ)], e)
                 /\ NoneWasted(intQ, d) => NoneWasted(Append(intQ, e), c)
    BY <1>1, <1>2, <1>3, Deferring
  <2>2. Len(intQ') = Len(intQ) + 1
    BY <1>2, <1>7
  <2>3. c[Len(intQ')] = d[Len(intQ)]
    BY <1>3, <2>1, <2>2 DEF Carried
  <2>4. Covers(c)'
    BY <1>1, <1>4, <1>7, <2>1, <2>3 DEF Covers
  <2> QED
    BY <1>5, <1>7, <2>1, <2>4 DEF Dormancy
<1> QED
  BY <1>3, <1>4, <1>6, <1>7, PostedTick

\* Every step keeps the display as deep in suspensions as the flag says.
LEMMA DormancyStep ==
  ASSUME MonitorOK, KernelOK, FewNested, Dormancy, [Next]_vars, [KeyHasRoom]_vars
  PROVE  Dormancy'
<1>1. CASE \E t \in {"boot", "order", "check"} : CriticalSection(t)
  BY <1>1, DormancySection
<1>2. CASE EXTI0_IRQHandler
  <2>1. vars' # vars
    <3>1. keys \in Nat /\ keys' = keys + 1
      BY <1>2, MonitorAssumption DEF EXTI0_IRQHandler, MonitorOK, TypeOK
    <3> QED
      BY <3>1 DEF vars, envVars
  <2> QED
    BY <1>2, <2>1, DormancyKey
<1>3. CASE SysTick_Handler
  BY <1>3, DormancyTick
<1>4. CASE Kernel
  <2>1. CASE OS_IntQTask
    BY <1>4, <2>1, DormancyIntQ DEF Kernel
  <2>2. CASE TickTask
    <3>1. UNCHANGED <<susp, suspendCtr, intQ, pc, isDormancy>>
      BY <1>4, <2>2 DEF Kernel, TickTask, DelayExpires, PendTimesOut, dataVars
    <3> QED
      BY <3>1 DEF Dormancy, Depth, Covers
  <2> QED
    BY <1>4, <2>1, <2>2 DEF Kernel
<1>5. CASE lwip_dhcp_task \/ TemperatureChanges \/ UNCHANGED vars
  <2>1. UNCHANGED <<susp, suspendCtr, intQ, pc, isDormancy>>
    BY <1>5 DEF lwip_dhcp_task, TemperatureChanges, vars, kvars, dataVars
  <2> QED
    BY <2>1 DEF Dormancy, Depth, Covers
<1>6. Control
  BY DEF MonitorOK
<1>7. CASE ShowAddress
  <2>1. /\ UNCHANGED <<susp, suspendCtr, intQ, isDormancy>>
        /\ pc'["boot"] \in InShowAddress \cup {"s_enter"}
        /\ \A u \in Tasks : u # "boot" => pc'[u] = pc[u]
        /\ pc["boot"] \notin {"r_exit", "s_suspend", "s_post", "s_exit"}
    <3>1. /\ UNCHANGED <<susp, suspendCtr, intQ>> /\ UNCHANGED <<dataVars, envVars>>
          /\ pc'["boot"] \in InShowAddress \cup {"s_enter"}
          /\ \A u \in Tasks : u # "boot" => pc'[u] = pc[u]
      BY <1>6, <1>7, ShowAddressStep
    <3>2. pc["boot"] \notin {"r_exit", "s_suspend", "s_post", "s_exit"}
      BY <1>7 DEF ShowAddress, ShowAddressEnter, CreateTasks, ShowAddressCreates,
                  ShowAddressExit, Goto
    <3> QED
      BY <3>1, <3>2 DEF dataVars
  <2>2. PICK d : AtLeast(intQ, Depth, d) /\ Covers(d)
    BY DEF Dormancy
  <2>3. \A p \in {"r_exit", "s_suspend", "s_post", "s_exit"}, u \in Tasks : pc'[u] = p <=> pc[u] = p
    BY <2>1 DEF InShowAddress
  <2>4. Covers(d)'
    BY <2>1, <2>2, <2>3 DEF Covers
  <2> QED
    BY <2>1, <2>2, <2>4 DEF Dormancy, Depth
<1> QED
  BY <1>1, <1>2, <1>3, <1>4, <1>5, <1>6, <1>7, NextCases, DormancyTask DEF NoTask

\* For any number of key presses, commands and changes of temperature: when the
\* flag says dormant and nothing is under way, the display is suspended, whoever
\* put the system to sleep and however suspend_task, recovery_task and the key
\* interrupt meet -- provided that a key press finds room in the interrupt queue
\* for its two calls (os_int.c:138 drops them otherwise) and that fewer than
\* NestMod - 1 suspensions nest (the 8-bit SuspendCtr of os_task.c wraps).
THEOREM DormancyCorrect ==
  Spec /\ [][KeyHasRoom]_vars /\ []FewNested => []DormantMeansSuspended
<1>1. ASSUME Init PROVE Dormancy
  <2> DEFINE d == [i \in 0 .. 0 |-> 0]
  <2>1. intQ = <<>> /\ Len(intQ) = 0 /\ isDormancy = 0 /\ ~susp["display"]
    BY <1>1, EmptySeq, Names DEF Init, KInit, Tasks
  <2>2. \A t \in Tasks : pc[t] \notin {"s_suspend", "s_post", "s_exit", "r_exit"}
    BY <1>1 DEF Init
  <2>3. AtLeast(intQ, Depth, d) /\ Covers(d)
    BY <2>1, <2>2 DEF AtLeast, Covers, Depth
  <2> QED
    BY <2>3 DEF Dormancy
<1>2. MonitorOK /\ KernelOK /\ FewNested /\ Dormancy /\ [Next]_vars /\ [KeyHasRoom]_vars
        => Dormancy'
  BY DormancyStep
<1>3. ASSUME MonitorOK, Dormancy PROVE DormantMeansSuspended
  <2> SUFFICES ASSUME Quiet, isDormancy = 1 PROVE susp["display"]
    BY DEF DormantMeansSuspended
  <2>1. PICK d : AtLeast(intQ, Depth, d) /\ Covers(d)
    BY <1>3 DEF Dormancy
  <2>2. \A t \in Tasks : pc[t] # "r_exit"
    BY <1>3 DEF Quiet, MonitorOK, LockIsSection, Section, InRecovery
  <2>3. Len(intQ) = 0
    BY EmptySeq DEF Quiet
  <2>4. d[0] >= 1 /\ d[0] <= Depth /\ d[0] \in Nat /\ Depth \in Nat
    BY <1>3, <2>1, <2>2, <2>3, DepthTyped DEF AtLeast, Covers
  <2>5. Depth # 0
    BY <2>4
  <2> QED
    BY <2>5 DEF Depth
<1>4. TypeOK /\ Control /\ LockIsSection => MonitorOK
  BY DEF MonitorOK
<1>5. Spec => []MonitorOK
  BY <1>4, MonitorTypeCorrect, ControlCorrect, LockCorrect, PTL
<1> QED
  BY <1>1, <1>2, <1>3, <1>5, MonitorKernelOK, PTL DEF Spec

=============================================================================
