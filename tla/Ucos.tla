-------------------------------- MODULE Ucos --------------------------------
(***************************************************************************)
(* The part of the uC/OS-III kernel (src/tem_project/UCOSIII/uCOS-III/     *)
(* Source) that the application runs on: message queues, semaphores, pend  *)
(* lists, nested task suspension, delays and pend timeouts, the scheduler  *)
(* lock, and the deferred interrupt queue of OS_CFG_ISR_POST_DEFERRED_EN.  *)
(*                                                                         *)
(* The kernel calls are actions with the calling task as their first       *)
(* parameter.  Next lets every task call every service in any order; the   *)
(* modules of the application conjoin the same actions with the program    *)
(* counter and the data of the calling task.                               *)
(*                                                                         *)
(* A TCB's TaskState is the pair of a base state and the SUSPENDED bit: it *)
(* is <<tstate[t], susp[t]>>.  The processor is given to tasks by CanRun   *)
(* instead of by explicit context switches.                                *)
(***************************************************************************)
EXTENDS Integers, SequencesExt

CONSTANTS
  Task,      \* the application's tasks (TCBs)
  Prio,      \* OS_TCB.Prio: a lower number is more urgent
  Queue,     \* OS_Q objects
  Sem,       \* OS_SEM objects
  Msg,       \* the messages posted to queues: pointers
  QSize,     \* OSQCreate's max_qty of every queue
  SemMax,    \* the largest OS_SEM_CTR (DEF_INT_32U_MAX_VAL in the code)
  IntQSize,  \* OSCfg_IntQSize, entries of the deferred interrupt queue
  NestMod,   \* OS_NESTING_CTR counts modulo this (256 in the code)
  IsrPosts,  \* what the interrupt handlers post: sequences of Deferred
  None       \* the NULL pointer

Obj == Queue \cup Sem

\* An entry of the interrupt queue: the service, the object and the message.
Deferred == [type : {"SUSPEND", "RESUME"}, obj : Task, msg : {None}]
              \cup [type : {"Q", "Q_ALL"}, obj : Queue, msg : Msg]
              \cup [type : {"SEM"}, obj : Sem, msg : {None}]
              \cup [type : {"TICK"}, obj : {None}, msg : {None}]

ASSUME KernelAssumption ==
  /\ Prio \in [Task -> Nat]
  /\ Queue \cap Sem = {}
  /\ QSize \in [Queue -> Nat \ {0}]
  /\ SemMax \in Nat
  /\ IntQSize \in Nat
  /\ NestMod \in Nat \ {0, 1}
  /\ IsrPosts \subseteq Seq(Deferred)
  /\ None \notin Task \cup Obj \cup Msg

VARIABLES
  tstate,      \* base of TaskState: "RDY", "DLY", "PEND" or "PEND_TIMEOUT";
               \* "NONE" for a TCB that OSTaskCreate has not filled in yet
  susp,        \* the SUSPENDED bit of TaskState
  suspendCtr,  \* OS_TCB.SuspendCtr
  pendOn,      \* the object the task is pending on
  pendList,    \* OS_PEND_LIST of every object, head first
  rcv,         \* what the task's last pend returned: OS_TCB.MsgPtr or OS_MsgQGet
  err,         \* *p_err of the task's last pend
  msgQ,        \* OS_MSG_Q of every queue, oldest message first
  semCtr,      \* OS_SEM.Ctr
  locked,      \* OSSchedLockNestingCtr > 0
  holder,      \* OSTCBCurPtr while the scheduler is locked, and after
               \* OS_CRITICAL_EXIT until OSSched is called; None otherwise
  intQ         \* the deferred interrupt queue

kvars == <<tstate, susp, suspendCtr, pendOn, pendList, rcv, err, msgQ, semCtr,
           locked, holder, intQ>>

BaseState == {"NONE", "RDY", "DLY", "PEND", "PEND_TIMEOUT"}
PendErr   == {"NONE", "TIMEOUT", "SCHED_LOCKED"}

KInit ==
  /\ tstate \in [Task -> {"NONE", "RDY"}]
  /\ susp = [t \in Task |-> FALSE]
  /\ suspendCtr = [t \in Task |-> 0]
  /\ pendOn = [t \in Task |-> None]
  /\ pendList = [o \in Obj |-> <<>>]
  /\ rcv = [t \in Task |-> None]
  /\ err = [t \in Task |-> "NONE"]
  /\ msgQ = [q \in Queue |-> <<>>]
  /\ semCtr \in [Sem -> 0..SemMax]
  /\ locked = FALSE
  /\ holder = None
  /\ intQ = <<>>

-----------------------------------------------------------------------------
(* Scheduling                                                              *)

Created(t) == tstate[t] # "NONE"

Ready(t) == tstate[t] = "RDY" /\ ~susp[t]

\* OS_PrioGetHighest; round robin lets any task of that priority run.
Highest(t) == Ready(t) /\ \A u \in Task : Ready(u) => Prio[t] <= Prio[u]

\* The task that owns the processor.  OS_IntQTask (priority 0) precedes every
\* application task, unless the scheduler is locked.
CanRun(t) ==
  IF locked THEN holder = t
            ELSE intQ = <<>> /\ (Highest(t) \/ holder = t)

\* The caller does not reach OSSched.
KeepCpu(t) == holder' = IF holder = t THEN t ELSE None

\* OSSched: nothing while the scheduler is locked.
OSSched == holder' = IF locked THEN holder ELSE None

\* OS_CRITICAL_ENTER of the application.
Lock(t) ==
  /\ CanRun(t) /\ ~locked
  /\ locked' = TRUE /\ holder' = t
  /\ UNCHANGED <<tstate, susp, suspendCtr, pendOn, pendList, rcv, err, msgQ,
                 semCtr, intQ>>

\* OS_CRITICAL_EXIT: reschedules only when an interrupt deferred something.
Unlock(t) ==
  /\ CanRun(t) /\ locked
  /\ locked' = FALSE
  /\ holder' = IF intQ = <<>> THEN t ELSE None
  /\ UNCHANGED <<tstate, susp, suspendCtr, pendOn, pendList, rcv, err, msgQ,
                 semCtr, intQ>>

\* A step of task t that calls no kernel service.
Compute(t) ==
  /\ CanRun(t) /\ KeepCpu(t)
  /\ UNCHANGED <<tstate, susp, suspendCtr, pendOn, pendList, rcv, err, msgQ,
                 semCtr, locked, intQ>>

-----------------------------------------------------------------------------
(* Blocking and waking                                                     *)

\* Mutant: every waiter queues at the tail, whatever its priority.
InsertedAtTail(list, t, new) == new = Append(list, t)

\* OS_PendListInsertPrio: before the first entry of lower urgency.
InsertedByPrio(list, t, new) ==
  \E k \in 1..(Len(list) + 1) :
    /\ \A i \in 1..(k - 1) : Prio[list[i]] <= Prio[t]
    /\ k <= Len(list) => Prio[t] < Prio[list[k]]
    /\ new = InsertAt(list, k, t)

\* OS_Pend of the running task t on object o, with or without a timeout.
OS_Pend(t, o, timed) ==
  /\ tstate' = [tstate EXCEPT ![t] = IF timed THEN "PEND_TIMEOUT" ELSE "PEND"]
  /\ pendOn' = [pendOn EXCEPT ![t] = o]
  /\ \E list \in {InsertAt(pendList[o], k, t) : k \in 1..(Len(pendList[o]) + 1)} :
       /\ InsertedByPrio(pendList[o], t, list)
       /\ pendList' = [pendList EXCEPT ![o] = list]
  /\ err' = [err EXCEPT ![t] = "NONE"]

\* OS_Post of message m to every task of W; a suspended one stays suspended.
OS_Post(W, m) ==
  /\ tstate' = [t \in Task |-> IF t \in W THEN "RDY" ELSE tstate[t]]
  /\ pendOn' = [t \in Task |-> IF t \in W THEN None ELSE pendOn[t]]
  /\ rcv' = [t \in Task |-> IF t \in W THEN m ELSE rcv[t]]

\* Mutant: the entry limit of the queue is not enforced.
OS_QPostUnbounded(q, m, all) ==
  /\ pendList[q] = <<>>
  /\ msgQ' = [msgQ EXCEPT ![q] = Append(@, m)]
  /\ UNCHANGED <<tstate, pendOn, rcv, pendList>>

\* OS_QPost: to the first waiter, to all of them, or into the queue if it has
\* room (otherwise the message is dropped with OS_ERR_Q_MAX).
OS_QPost(q, m, all) ==
  \/ /\ pendList[q] = <<>>
     /\ msgQ' = IF Len(msgQ[q]) < QSize[q]
                  THEN [msgQ EXCEPT ![q] = Append(@, m)] ELSE msgQ
     /\ UNCHANGED <<tstate, pendOn, rcv, pendList>>
  \/ /\ pendList[q] # <<>>
     /\ OS_Post(IF all THEN Range(pendList[q]) ELSE {Head(pendList[q])}, m)
     /\ pendList' = [pendList EXCEPT ![q] = IF all THEN <<>> ELSE Tail(@)]
     /\ UNCHANGED msgQ

\* OS_SemPost with OS_OPT_POST_1; a full counter drops the signal.
OS_SemPost(s) ==
  \/ /\ pendList[s] = <<>>
     /\ semCtr' = IF semCtr[s] < SemMax THEN [semCtr EXCEPT ![s] = @ + 1]
                                        ELSE semCtr
     /\ UNCHANGED <<tstate, pendOn, rcv, pendList>>
  \/ /\ pendList[s] # <<>>
     /\ OS_Post({Head(pendList[s])}, None)
     /\ pendList' = [pendList EXCEPT ![s] = Tail(@)]
     /\ UNCHANGED semCtr

\* OS_TaskSuspend of task u: suspensions nest, in an 8-bit counter.
OS_TaskSuspend(u) ==
  /\ susp' = [susp EXCEPT ![u] = TRUE]
  /\ suspendCtr' = [suspendCtr EXCEPT ![u] =
                      IF susp[u] THEN (@ + 1) % NestMod ELSE 1]

\* OS_TaskResume of task u: only the last resume makes it runnable.
OS_TaskResume(u) ==
  IF susp[u]
    THEN LET c == (suspendCtr[u] + NestMod - 1) % NestMod IN
         /\ suspendCtr' = [suspendCtr EXCEPT ![u] = c]
         /\ susp' = [susp EXCEPT ![u] = c # 0]
    ELSE UNCHANGED <<susp, suspendCtr>>

-----------------------------------------------------------------------------
(* The services, called by task t                                          *)

OSQPost(t, q, m, all) ==
  /\ CanRun(t)
  /\ OS_QPost(q, m, all)
  /\ IF pendList[q] = <<>> THEN KeepCpu(t) ELSE OSSched
  /\ UNCHANGED <<susp, suspendCtr, err, semCtr, locked, intQ>>

\* A message waiting in the queue: returned at once, without rescheduling.
OSQPendGet(t, q) ==
  /\ CanRun(t)
  /\ msgQ[q] # <<>>
  /\ rcv' = [rcv EXCEPT ![t] = Head(msgQ[q])]
  /\ err' = [err EXCEPT ![t] = "NONE"]
  /\ msgQ' = [msgQ EXCEPT ![q] = Tail(@)]
  /\ KeepCpu(t)
  /\ UNCHANGED <<tstate, susp, suspendCtr, pendOn, pendList, semCtr, locked, intQ>>

\* OS_ERR_SCHED_LOCKED: a task may not block under the scheduler lock.
PendLocked(t) ==
  /\ CanRun(t) /\ locked
  /\ rcv' = [rcv EXCEPT ![t] = None]
  /\ err' = [err EXCEPT ![t] = "SCHED_LOCKED"]
  /\ UNCHANGED <<tstate, susp, suspendCtr, pendOn, pendList, msgQ, semCtr,
                 locked, holder, intQ>>

Block(t, o, timed) ==
  /\ CanRun(t) /\ ~locked
  /\ OS_Pend(t, o, timed)
  /\ rcv' = [rcv EXCEPT ![t] = None]
  /\ holder' = None
  /\ UNCHANGED <<susp, suspendCtr, msgQ, semCtr, locked, intQ>>

\* Mutant: the caller blocks on a queue without looking for a message first.
OSQPendUnchecked(t, q, timed) ==
  OSQPendGet(t, q) \/ PendLocked(t) \/ Block(t, q, timed)

OSQPend(t, q, timed) ==
  \/ OSQPendGet(t, q)
  \/ msgQ[q] = <<>> /\ (PendLocked(t) \/ Block(t, q, timed))

OSSemPost(t, s) ==
  /\ CanRun(t)
  /\ OS_SemPost(s)
  /\ IF pendList[s] = <<>> THEN KeepCpu(t) ELSE OSSched
  /\ UNCHANGED <<susp, suspendCtr, err, msgQ, locked, intQ>>

OSSemPendGet(t, s) ==
  /\ CanRun(t)
  /\ semCtr[s] > 0
  /\ semCtr' = [semCtr EXCEPT ![s] = @ - 1]
  /\ err' = [err EXCEPT ![t] = "NONE"]
  /\ KeepCpu(t)
  /\ UNCHANGED <<tstate, susp, suspendCtr, pendOn, pendList, rcv, msgQ, locked, intQ>>

OSSemPend(t, s, timed) ==
  \/ OSSemPendGet(t, s)
  \/ semCtr[s] = 0 /\ (PendLocked(t) \/ Block(t, s, timed))

\* OSTaskCreate of task u: the last step puts it into the ready list.
OSTaskCreate(t, u) ==
  /\ CanRun(t) /\ ~Created(u)
  /\ tstate' = [tstate EXCEPT ![u] = "RDY"]
  /\ OSSched
  /\ UNCHANGED <<susp, suspendCtr, pendOn, pendList, rcv, err, msgQ, semCtr,
                 locked, intQ>>

\* Mutant: the caller may suspend itself under the scheduler lock.
OSTaskSuspendUnguarded(t, u) ==
  /\ CanRun(t) /\ Created(u)
  /\ OS_TaskSuspend(u) /\ OSSched
  /\ UNCHANGED <<tstate, pendOn, pendList, rcv, err, msgQ, semCtr, locked, intQ>>

\* Refused for the calling task under the scheduler lock.  Suspending a TCB that
\* was not created corrupts the ready list; the model leaves it out.
OSTaskSuspend(t, u) ==
  /\ CanRun(t) /\ Created(u)
  /\ IF u = t /\ locked
       THEN UNCHANGED <<susp, suspendCtr, holder>>
       ELSE OS_TaskSuspend(u) /\ OSSched
  /\ UNCHANGED <<tstate, pendOn, pendList, rcv, err, msgQ, semCtr, locked, intQ>>

\* OSTaskResume of the caller itself is OS_ERR_TASK_RESUME_SELF.
OSTaskResume(t, u) ==
  /\ CanRun(t) /\ u # t /\ Created(u)
  /\ OS_TaskResume(u)
  /\ OSSched
  /\ UNCHANGED <<tstate, pendOn, pendList, rcv, err, msgQ, semCtr, locked, intQ>>

\* OSTimeDlyHMSM of more than 0 ticks; refused under the scheduler lock.
OSTimeDly(t) ==
  /\ CanRun(t) /\ ~locked
  /\ tstate' = [tstate EXCEPT ![t] = "DLY"]
  /\ holder' = None
  /\ UNCHANGED <<susp, suspendCtr, pendOn, pendList, rcv, err, msgQ, semCtr,
                 locked, intQ>>

-----------------------------------------------------------------------------
(* The tick task, the interrupts and the interrupt queue task              *)

\* OS_TickListUpdate ends the delay of task t.
DelayExpires(t) ==
  /\ ~locked /\ intQ = <<>>
  /\ tstate[t] = "DLY"
  /\ tstate' = [tstate EXCEPT ![t] = "RDY"]
  /\ holder' = None
  /\ UNCHANGED <<susp, suspendCtr, pendOn, pendList, rcv, err, msgQ, semCtr,
                 locked, intQ>>

\* Mutant: a pend that timed out leaves its entry on the pend list.
PendTimesOutListed(t) ==
  /\ ~locked /\ intQ = <<>>
  /\ tstate[t] = "PEND_TIMEOUT"
  /\ tstate' = [tstate EXCEPT ![t] = "RDY"]
  /\ pendOn' = [pendOn EXCEPT ![t] = None]
  /\ holder' = None
  /\ UNCHANGED <<susp, suspendCtr, pendList, rcv, err, msgQ, semCtr, locked, intQ>>

\* OS_TickListUpdate ends the timed pend of task t.
PendTimesOut(t) ==
  /\ ~locked /\ intQ = <<>>
  /\ tstate[t] = "PEND_TIMEOUT"
  /\ tstate' = [tstate EXCEPT ![t] = "RDY"]
  /\ pendOn' = [pendOn EXCEPT ![t] = None]
  /\ rcv' = [rcv EXCEPT ![t] = None]
  /\ err' = [err EXCEPT ![t] = "TIMEOUT"]
  /\ \E i \in DOMAIN pendList[pendOn[t]] :
       /\ pendList[pendOn[t]][i] = t
       /\ pendList' = [pendList EXCEPT ![pendOn[t]] = RemoveAt(@, i)]
  /\ holder' = None
  /\ UNCHANGED <<susp, suspendCtr, msgQ, semCtr, locked, intQ>>

\* OS_IntQPost: what is left of intQ after the entries es are posted in order.
IntQPosted(es) ==
  LET room == IntQSize - Len(intQ)
  IN  intQ \o SubSeq(es, 1, IF Len(es) < room THEN Len(es) ELSE room)

\* An interrupt handler that posts the entries es.  It may interrupt a section
\* under the scheduler lock, since OS_CRITICAL_ENTER leaves interrupts enabled.
\* It names no TCB that was not created.
Isr(es) ==
  /\ \A i \in DOMAIN es : es[i].type \in {"SUSPEND", "RESUME"} => Created(es[i].obj)
  /\ intQ' = IntQPosted(es)
  /\ UNCHANGED <<tstate, susp, suspendCtr, pendOn, pendList, rcv, err, msgQ,
                 semCtr, locked, holder>>

\* OS_IntQRePost of one entry.
OS_IntQRePost(e) ==
  \/ /\ e.type = "SUSPEND" /\ OS_TaskSuspend(e.obj)
     /\ UNCHANGED <<tstate, pendOn, pendList, rcv, msgQ, semCtr>>
  \/ /\ e.type = "RESUME" /\ OS_TaskResume(e.obj)
     /\ UNCHANGED <<tstate, pendOn, pendList, rcv, msgQ, semCtr>>
  \/ /\ e.type \in {"Q", "Q_ALL"} /\ OS_QPost(e.obj, e.msg, e.type = "Q_ALL")
     /\ UNCHANGED <<susp, suspendCtr, semCtr>>
  \/ /\ e.type = "SEM" /\ OS_SemPost(e.obj)
     /\ UNCHANGED <<susp, suspendCtr, msgQ>>
  \/ /\ e.type = "TICK"
     /\ UNCHANGED <<tstate, susp, suspendCtr, pendOn, pendList, rcv, msgQ, semCtr>>

\* OS_IntQTask takes the oldest entry.
OS_IntQTask ==
  /\ ~locked /\ intQ # <<>>
  /\ OS_IntQRePost(Head(intQ))
  /\ intQ' = Tail(intQ)
  /\ holder' = None
  /\ UNCHANGED <<err, locked>>

-----------------------------------------------------------------------------
(* Any tasks, any calls                                                    *)

TaskStep(t) ==
  \/ Lock(t) \/ Unlock(t) \/ Compute(t) \/ OSTimeDly(t)
  \/ \E q \in Queue, m \in Msg, all \in BOOLEAN : OSQPost(t, q, m, all)
  \/ \E q \in Queue, timed \in BOOLEAN : OSQPend(t, q, timed)
  \/ \E s \in Sem : OSSemPost(t, s)
  \/ \E s \in Sem, timed \in BOOLEAN : OSSemPend(t, s, timed)
  \/ \E u \in Task : OSTaskCreate(t, u) \/ OSTaskSuspend(t, u) \/ OSTaskResume(t, u)

TickTask == \E t \in Task : DelayExpires(t) \/ PendTimesOut(t)

Interrupt == \E es \in IsrPosts : Isr(es)

KNext == (\E t \in Task : TaskStep(t)) \/ TickTask \/ Interrupt \/ OS_IntQTask

KSpec == KInit /\ [][KNext]_kvars

-----------------------------------------------------------------------------
(* Invariants                                                              *)

\* Every variable has its type and no queue exceeds its size.
KTypeOK ==
  /\ tstate \in [Task -> BaseState]
  /\ susp \in [Task -> BOOLEAN]
  /\ suspendCtr \in [Task -> 0..(NestMod - 1)]
  /\ pendOn \in [Task -> Obj \cup {None}]
  /\ pendList \in [Obj -> Seq(Task)]
  /\ rcv \in [Task -> Msg \cup {None}]
  /\ err \in [Task -> PendErr]
  /\ msgQ \in [Queue -> Seq(Msg)]
  /\ \A q \in Queue : Len(msgQ[q]) <= QSize[q]
  /\ semCtr \in [Sem -> 0..SemMax]
  /\ locked \in BOOLEAN
  /\ holder \in Task \cup {None}
  /\ intQ \in Seq(Deferred)
  /\ Len(intQ) <= IntQSize

\* A task is on the pend list of an object exactly when its TCB says that it
\* pends on that object, and it is there once: OS_Pend, OS_Post and the tick
\* task keep the lists and the TCBs in step.
PendListExact ==
  /\ \A t \in Task : pendOn[t] # None <=> tstate[t] \in {"PEND", "PEND_TIMEOUT"}
  /\ \A o \in Obj, t \in Task : t \in Range(pendList[o]) <=> pendOn[t] = o
  /\ \A o \in Obj : IsInjective(pendList[o])

\* The head of a pend list is the most urgent waiter: the one a post wakes.
PendListSorted ==
  \A o \in Obj : \A i, j \in DOMAIN pendList[o] :
    i < j => Prio[pendList[o][i]] <= Prio[pendList[o][j]]

\* No lost wake-up: a task never waits for a queue that holds a message or for
\* a semaphore that was signalled.
NoLostWakeup ==
  /\ \A q \in Queue : msgQ[q] # <<>> => pendList[q] = <<>>
  /\ \A s \in Sem : semCtr[s] > 0 => pendList[s] = <<>>

\* The task that keeps the processor (under the scheduler lock or lingering
\* after OS_CRITICAL_EXIT) can execute: nothing blocks or suspends the holder
\* of the lock, so a locked system never stops.
HolderRuns ==
  /\ locked => holder # None
  /\ holder # None => Ready(holder)

=============================================================================
