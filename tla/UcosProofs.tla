----------------------------- MODULE UcosProofs -----------------------------
(***************************************************************************)
(* Theorems about module Ucos for any number of tasks, queues and          *)
(* semaphores: type correctness, and the invariants that tie the pend      *)
(* lists, the queues, the semaphores and the processor together.           *)
(***************************************************************************)
EXTENDS Ucos, ListFacts

-----------------------------------------------------------------------------
(* Type correctness                                                        *)

\* OS_Post changes three TCB fields of the tasks it wakes.
LEMMA PostType ==
  ASSUME KTypeOK, NEW W, NEW m \in Msg \cup {None}, OS_Post(W, m)
  PROVE  /\ tstate' \in [Task -> BaseState]
         /\ pendOn' \in [Task -> Obj \cup {None}]
         /\ rcv' \in [Task -> Msg \cup {None}]
  BY DEF KTypeOK, OS_Post, BaseState

\* The pend lists after a post: one of them is emptied or loses its head.
LEMMA ShorterListType ==
  ASSUME KTypeOK, NEW o \in Obj, pendList[o] # <<>>,
         NEW all \in BOOLEAN,
         pendList' = [pendList EXCEPT ![o] = IF all THEN <<>> ELSE Tail(@)]
  PROVE  pendList' \in [Obj -> Seq(Task)]
<1>1. Tail(pendList[o]) \in Seq(Task)
  BY HeadTailProperties DEF KTypeOK
<1> QED
  BY <1>1, EmptySeq DEF KTypeOK

\* OS_QPost never overfills a queue.
LEMMA QPostType ==
  ASSUME KTypeOK, NEW q \in Queue, NEW m \in Msg, NEW all \in BOOLEAN,
         OS_QPost(q, m, all)
  PROVE  /\ tstate' \in [Task -> BaseState]
         /\ pendOn' \in [Task -> Obj \cup {None}]
         /\ rcv' \in [Task -> Msg \cup {None}]
         /\ pendList' \in [Obj -> Seq(Task)]
         /\ msgQ' \in [Queue -> Seq(Msg)]
         /\ \A r \in Queue : Len(msgQ'[r]) <= QSize[r]
<1>1. CASE pendList[q] = <<>>
  <2>1. /\ Append(msgQ[q], m) \in Seq(Msg)
        /\ Len(Append(msgQ[q], m)) = Len(msgQ[q]) + 1
        /\ Len(msgQ[q]) \in Nat
    BY AppendProperties, LenProperties DEF KTypeOK
  <2>2. UNCHANGED <<tstate, pendOn, rcv, pendList>>
    BY <1>1 DEF OS_QPost
  <2>3. CASE Len(msgQ[q]) < QSize[q]
    <3>1. msgQ' = [msgQ EXCEPT ![q] = Append(msgQ[q], m)]
      BY <1>1, <2>3 DEF OS_QPost
    <3>2. QSize[q] \in Nat
      BY KernelAssumption
    <3> QED
      BY <2>1, <2>2, <2>3, <3>1, <3>2 DEF KTypeOK
  <2>4. CASE ~(Len(msgQ[q]) < QSize[q])
    BY <1>1, <2>2, <2>4 DEF OS_QPost, KTypeOK
  <2> QED
    BY <2>3, <2>4
<1>2. CASE pendList[q] # <<>>
  <2>1. \E W : OS_Post(W, m)
    BY <1>2 DEF OS_QPost
  <2>2. pendList' = [pendList EXCEPT ![q] = IF all THEN <<>> ELSE Tail(@)]
    BY <1>2 DEF OS_QPost
  <2>3. msgQ' = msgQ
    BY <1>2 DEF OS_QPost
  <2>4. pendList' \in [Obj -> Seq(Task)]
    BY <1>2, <2>2, ShorterListType DEF Obj
  <2>5. m \in Msg \cup {None}
    OBVIOUS
  <2> QED
    BY <2>1, <2>3, <2>4, <2>5, PostType DEF KTypeOK
<1> QED
  BY <1>1, <1>2

\* OS_SemPost never exceeds the largest counter value.
LEMMA SemPostType ==
  ASSUME KTypeOK, NEW s \in Sem, OS_SemPost(s)
  PROVE  /\ tstate' \in [Task -> BaseState]
         /\ pendOn' \in [Task -> Obj \cup {None}]
         /\ rcv' \in [Task -> Msg \cup {None}]
         /\ pendList' \in [Obj -> Seq(Task)]
         /\ semCtr' \in [Sem -> 0..SemMax]
<1>1. CASE pendList[s] = <<>>
  <2>1. UNCHANGED <<tstate, pendOn, rcv, pendList>>
    BY <1>1 DEF OS_SemPost
  <2>2. SemMax \in Nat /\ semCtr \in [Sem -> 0..SemMax]
    BY KernelAssumption DEF KTypeOK
  <2>3. semCtr' = IF semCtr[s] < SemMax THEN [semCtr EXCEPT ![s] = @ + 1]
                                        ELSE semCtr
    BY <1>1 DEF OS_SemPost
  <2>4. semCtr' \in [Sem -> 0..SemMax]
    BY <2>2, <2>3
  <2> QED
    BY <2>1, <2>4 DEF KTypeOK
<1>2. CASE pendList[s] # <<>>
  <2>1. \E W : OS_Post(W, None)
    BY <1>2 DEF OS_SemPost
  <2>2. pendList' = [pendList EXCEPT ![s] = IF FALSE THEN <<>> ELSE Tail(@)]
    BY <1>2 DEF OS_SemPost
  <2>3. semCtr' = semCtr
    BY <1>2 DEF OS_SemPost
  <2>4. pendList' \in [Obj -> Seq(Task)]
    BY <1>2, <2>2, ShorterListType DEF Obj
  <2> QED
    BY <2>1, <2>3, <2>4, PostType DEF KTypeOK
<1> QED
  BY <1>1, <1>2

\* The suspension counter stays below NestMod, whatever nests.
LEMMA SuspendType ==
  ASSUME KTypeOK, NEW u, OS_TaskSuspend(u) \/ OS_TaskResume(u)
  PROVE  /\ susp' \in [Task -> BOOLEAN]
         /\ suspendCtr' \in [Task -> 0..(NestMod - 1)]
<1>1. NestMod \in Nat /\ NestMod > 1
  BY KernelAssumption
<1>2. \A n \in Int : n % NestMod \in 0..(NestMod - 1)
  BY <1>1
<1>3. \A t \in Task : suspendCtr[t] \in Int
  BY <1>1 DEF KTypeOK
<1>4. CASE OS_TaskSuspend(u)
  <2>1. susp' \in [Task -> BOOLEAN]
    BY <1>4, Zenon DEF OS_TaskSuspend, KTypeOK
  <2> DEFINE c == IF susp[u] THEN (suspendCtr[u] + 1) % NestMod ELSE 1
  <2>2. suspendCtr' = [suspendCtr EXCEPT ![u] = c]
    BY <1>4 DEF OS_TaskSuspend
  <2>3. u \in Task => c \in 0..(NestMod - 1)
    BY <1>1, <1>2, <1>3
  <2> HIDE DEF c
  <2> QED
    BY <2>1, <2>2, <2>3 DEF KTypeOK
<1>5. CASE OS_TaskResume(u)
  <2> DEFINE c == (suspendCtr[u] + NestMod - 1) % NestMod
  <2>1. CASE susp[u]
    <3>1. /\ suspendCtr' = [suspendCtr EXCEPT ![u] = c]
          /\ susp' = [susp EXCEPT ![u] = c # 0]
      BY <1>5, <2>1 DEF OS_TaskResume
    <3>2. u \in Task => c \in 0..(NestMod - 1)
      BY <1>1, <1>2, <1>3
    <3>3. susp' \in [Task -> BOOLEAN]
      BY <3>1, Zenon DEF KTypeOK
    <3> HIDE DEF c
    <3> QED
      BY <3>1, <3>2, <3>3 DEF KTypeOK
  <2>2. CASE ~susp[u]
    BY <1>5, <2>2 DEF OS_TaskResume, KTypeOK
  <2> QED
    BY <2>1, <2>2
<1> QED
  BY <1>4, <1>5

\* What the interrupt handlers post fits into the interrupt queue.
LEMMA IntQPostedType ==
  ASSUME KTypeOK, NEW es \in Seq(Deferred)
  PROVE  IntQPosted(es) \in Seq(Deferred) /\ Len(IntQPosted(es)) <= IntQSize
<1> DEFINE room == IntQSize - Len(intQ)
           n    == IF Len(es) < room THEN Len(es) ELSE room
<1>1. /\ IntQSize \in Nat /\ Len(intQ) \in Nat /\ Len(es) \in Nat
      /\ Len(intQ) <= IntQSize /\ intQ \in Seq(Deferred)
  BY KernelAssumption, LenProperties DEF KTypeOK
<1>2. n \in 0..Len(es) /\ n <= room
  BY <1>1
<1>3. IntQPosted(es) = intQ \o SubSeq(es, 1, n)
  BY DEF IntQPosted
<1> HIDE DEF n
<1>4. SubSeq(es, 1, n) \in Seq(Deferred) /\ Len(SubSeq(es, 1, n)) = n
  BY <1>1, <1>2, SubSeqElement
<1>5. /\ intQ \o SubSeq(es, 1, n) \in Seq(Deferred)
      /\ Len(intQ \o SubSeq(es, 1, n)) = Len(intQ) + Len(SubSeq(es, 1, n))
  BY <1>1, <1>4, ConcatProperties
<1> QED
  BY <1>1, <1>2, <1>3, <1>4, <1>5

\* OS_Pend leaves sequences of tasks.
LEMMA PendType ==
  ASSUME KTypeOK, NEW t \in Task, NEW o \in Obj, NEW timed \in BOOLEAN,
         OS_Pend(t, o, timed)
  PROVE  /\ tstate' \in [Task -> BaseState]
         /\ pendOn' \in [Task -> Obj \cup {None}]
         /\ pendList' \in [Obj -> Seq(Task)]
         /\ err' \in [Task -> PendErr]
<1>1. PICK k \in 1..(Len(pendList[o]) + 1) :
        pendList' = [pendList EXCEPT ![o] = InsertAt(pendList[o], k, t)]
  BY DEF OS_Pend
<1>2. InsertAt(pendList[o], k, t) \in Seq(Task)
  BY InsertAtProperties DEF KTypeOK
<1> QED
  BY <1>1, <1>2 DEF OS_Pend, KTypeOK, BaseState, PendErr

\* Every call of a task keeps the types.
LEMMA TaskTypeStep ==
  ASSUME KTypeOK, NEW t \in Task, TaskStep(t)
  PROVE  KTypeOK'
<1>1. CASE Lock(t) \/ Unlock(t)
  BY <1>1 DEF Lock, Unlock, KTypeOK
<1>2. CASE Compute(t)
  BY <1>2 DEF Compute, KeepCpu, KTypeOK
<1>3. CASE OSTimeDly(t) \/ \E u \in Task : OSTaskCreate(t, u)
  BY <1>3 DEF OSTimeDly, OSTaskCreate, OSSched, KTypeOK, BaseState
<1>4. ASSUME NEW q \in Queue, NEW m \in Msg, NEW all \in BOOLEAN, OSQPost(t, q, m, all)
      PROVE  KTypeOK'
  <2>1. OS_QPost(q, m, all)
    BY <1>4 DEF OSQPost
  <2>2. holder' \in Task \cup {None}
    BY <1>4 DEF OSQPost, KeepCpu, OSSched, KTypeOK
  <2>3. UNCHANGED <<susp, suspendCtr, err, semCtr, locked, intQ>>
    BY <1>4 DEF OSQPost
  <2> QED
    BY <2>1, <2>2, <2>3, QPostType DEF KTypeOK
<1>5. ASSUME NEW q \in Queue, OSQPendGet(t, q)
      PROVE  KTypeOK'
  <2>1. /\ Head(msgQ[q]) \in Msg /\ Tail(msgQ[q]) \in Seq(Msg)
        /\ Len(Tail(msgQ[q])) = Len(msgQ[q]) - 1 /\ Len(msgQ[q]) \in Nat
    BY <1>5, HeadTailProperties, LenProperties DEF OSQPendGet, KTypeOK
  <2>2. QSize[q] \in Nat /\ Len(msgQ[q]) <= QSize[q]
    BY KernelAssumption DEF KTypeOK
  <2>3. msgQ' = [msgQ EXCEPT ![q] = Tail(msgQ[q])]
    BY <1>5 DEF OSQPendGet
  <2>4. msgQ' \in [Queue -> Seq(Msg)] /\ \A r \in Queue : Len(msgQ'[r]) <= QSize[r]
    BY <2>1, <2>2, <2>3 DEF KTypeOK
  <2>5. /\ rcv' = [rcv EXCEPT ![t] = Head(msgQ[q])]
        /\ err' = [err EXCEPT ![t] = "NONE"]
        /\ holder' \in {t, None}
        /\ UNCHANGED <<tstate, susp, suspendCtr, pendOn, pendList, semCtr, locked, intQ>>
    BY <1>5 DEF OSQPendGet, KeepCpu
  <2> QED
    BY <2>1, <2>4, <2>5 DEF KTypeOK, PendErr
<1>6. CASE PendLocked(t)
  BY <1>6 DEF PendLocked, KTypeOK, PendErr
<1>7. ASSUME NEW o \in Obj, NEW timed \in BOOLEAN, Block(t, o, timed)
      PROVE  KTypeOK'
  <2>1. OS_Pend(t, o, timed)
    BY <1>7 DEF Block
  <2>2. /\ rcv' = [rcv EXCEPT ![t] = None]
        /\ holder' = None
        /\ UNCHANGED <<susp, suspendCtr, msgQ, semCtr, locked, intQ>>
    BY <1>7 DEF Block
  <2> QED
    BY <2>1, <2>2, PendType DEF KTypeOK
<1>8. ASSUME NEW s \in Sem, OSSemPost(t, s)
      PROVE  KTypeOK'
  <2>1. OS_SemPost(s)
    BY <1>8 DEF OSSemPost
  <2>2. holder' \in Task \cup {None}
    BY <1>8 DEF OSSemPost, KeepCpu, OSSched, KTypeOK
  <2>3. UNCHANGED <<susp, suspendCtr, err, msgQ, locked, intQ>>
    BY <1>8 DEF OSSemPost
  <2> QED
    BY <2>1, <2>2, <2>3, SemPostType DEF KTypeOK
<1>9. ASSUME NEW s \in Sem, OSSemPendGet(t, s)
      PROVE  KTypeOK'
  <2>1. SemMax \in Nat /\ semCtr \in [Sem -> 0..SemMax]
    BY KernelAssumption DEF KTypeOK
  <2>2. /\ semCtr[s] > 0
        /\ semCtr' = [semCtr EXCEPT ![s] = @ - 1]
    BY <1>9 DEF OSSemPendGet
  <2>3. semCtr' \in [Sem -> 0..SemMax]
    BY <2>1, <2>2
  <2>4. /\ err' = [err EXCEPT ![t] = "NONE"]
        /\ holder' \in {t, None}
        /\ UNCHANGED <<tstate, susp, suspendCtr, pendOn, pendList, rcv, msgQ, locked, intQ>>
    BY <1>9 DEF OSSemPendGet, KeepCpu
  <2> QED
    BY <2>3, <2>4 DEF KTypeOK, PendErr
<1>10. ASSUME NEW u \in Task, OSTaskSuspend(t, u) \/ OSTaskResume(t, u)
       PROVE  KTypeOK'
  <2>1. /\ susp' \in [Task -> BOOLEAN]
        /\ suspendCtr' \in [Task -> 0..(NestMod - 1)]
    <3>1. CASE OS_TaskSuspend(u) \/ OS_TaskResume(u)
      BY <3>1, SuspendType
    <3>2. CASE UNCHANGED <<susp, suspendCtr>>
      BY <3>2 DEF KTypeOK
    <3> QED
      BY <1>10, <3>1, <3>2 DEF OSTaskSuspend, OSTaskResume
  <2>2. holder' \in Task \cup {None}
    BY <1>10 DEF OSTaskSuspend, OSTaskResume, OSSched, KTypeOK
  <2>3. UNCHANGED <<tstate, pendOn, pendList, rcv, err, msgQ, semCtr, locked, intQ>>
    BY <1>10 DEF OSTaskSuspend, OSTaskResume
  <2> QED
    BY <2>1, <2>2, <2>3 DEF KTypeOK
<1> QED
  BY <1>1, <1>2, <1>3, <1>4, <1>5, <1>6, <1>7, <1>8, <1>9, <1>10
  DEF TaskStep, OSQPend, OSSemPend, Obj

\* The tick task, the interrupts and the interrupt queue task keep the types.
LEMMA SystemTypeStep ==
  ASSUME KTypeOK, TickTask \/ Interrupt \/ OS_IntQTask
  PROVE  KTypeOK'
<1>1. ASSUME NEW t \in Task, DelayExpires(t)
      PROVE  KTypeOK'
  BY <1>1 DEF DelayExpires, KTypeOK, BaseState
<1>2. ASSUME NEW t \in Task, PendTimesOut(t)
      PROVE  KTypeOK'
  <2>1. PICK i \in DOMAIN pendList[pendOn[t]] :
          pendList' = [pendList EXCEPT ![pendOn[t]] = RemoveAt(@, i)]
    BY <1>2 DEF PendTimesOut
  <2>2. pendList' \in [Obj -> Seq(Task)]
    <3>1. CASE pendOn[t] \in Obj
      <4>1. pendList[pendOn[t]] \in Seq(Task) /\ i \in 1..Len(pendList[pendOn[t]])
        BY <3>1, LenProperties DEF KTypeOK
      <4>2. RemoveAt(pendList[pendOn[t]], i) \in Seq(Task)
        BY <4>1, RemoveAtProperties
      <4> QED
        BY <2>1, <4>2 DEF KTypeOK
    <3>2. CASE pendOn[t] \notin Obj
      BY <2>1, <3>2 DEF KTypeOK
    <3> QED
      BY <3>1, <3>2
  <2>3. /\ tstate' = [tstate EXCEPT ![t] = "RDY"]
        /\ pendOn' = [pendOn EXCEPT ![t] = None]
        /\ rcv' = [rcv EXCEPT ![t] = None]
        /\ err' = [err EXCEPT ![t] = "TIMEOUT"]
        /\ holder' = None
        /\ UNCHANGED <<susp, suspendCtr, msgQ, semCtr, locked, intQ>>
    BY <1>2 DEF PendTimesOut
  <2> QED
    BY <2>2, <2>3 DEF KTypeOK, BaseState, PendErr
<1>3. ASSUME NEW es \in IsrPosts, Isr(es)
      PROVE  KTypeOK'
  <2>1. es \in Seq(Deferred)
    BY KernelAssumption
  <2>2. intQ' \in Seq(Deferred) /\ Len(intQ') <= IntQSize
    BY <1>3, <2>1, IntQPostedType DEF Isr
  <2> QED
    BY <1>3, <2>2 DEF Isr, KTypeOK
<1>4. CASE OS_IntQTask
  <2> DEFINE e == Head(intQ)
  <2>1. /\ e \in Deferred /\ Tail(intQ) \in Seq(Deferred)
        /\ Len(Tail(intQ)) = Len(intQ) - 1 /\ Len(intQ) \in Nat
    BY <1>4, HeadTailProperties, LenProperties DEF OS_IntQTask, KTypeOK
  <2>2. intQ' \in Seq(Deferred) /\ Len(intQ') <= IntQSize
    BY <1>4, <2>1, KernelAssumption DEF OS_IntQTask, KTypeOK
  <2>3. OS_IntQRePost(e) /\ holder' = None /\ UNCHANGED <<err, locked>>
    BY <1>4 DEF OS_IntQTask
  <2> HIDE DEF e
  <2>4. CASE /\ OS_TaskSuspend(e.obj) \/ OS_TaskResume(e.obj)
             /\ UNCHANGED <<tstate, pendOn, pendList, rcv, msgQ, semCtr>>
    BY <2>2, <2>3, <2>4, SuspendType DEF KTypeOK
  <2>5. CASE /\ e.type \in {"Q", "Q_ALL"} /\ OS_QPost(e.obj, e.msg, e.type = "Q_ALL")
             /\ UNCHANGED <<susp, suspendCtr, semCtr>>
    <3>1. e.obj \in Queue /\ e.msg \in Msg /\ (e.type = "Q_ALL") \in BOOLEAN
      BY <2>1, <2>5 DEF Deferred
    <3> QED
      BY <2>2, <2>3, <2>5, <3>1, QPostType DEF KTypeOK
  <2>6. CASE /\ e.type = "SEM" /\ OS_SemPost(e.obj)
             /\ UNCHANGED <<susp, suspendCtr, msgQ>>
    <3>1. e.obj \in Sem
      BY <2>1, <2>6 DEF Deferred
    <3> QED
      BY <2>2, <2>3, <2>6, <3>1, SemPostType DEF KTypeOK
  <2>7. CASE UNCHANGED <<tstate, susp, suspendCtr, pendOn, pendList, rcv, msgQ, semCtr>>
    BY <2>2, <2>3, <2>7 DEF KTypeOK
  <2> QED
    BY <2>3, <2>4, <2>5, <2>6, <2>7 DEF OS_IntQRePost
<1> QED
  BY <1>1, <1>2, <1>3, <1>4 DEF TickTask, Interrupt

\* Every variable has its type and no queue, semaphore counter or interrupt
\* queue exceeds its size, whatever tasks and interrupts call.
THEOREM KTypeCorrect == KSpec => []KTypeOK
<1>1. KInit => KTypeOK
  <2> SUFFICES ASSUME KInit PROVE KTypeOK
    OBVIOUS
  <2>1. /\ NestMod \in Nat /\ NestMod > 1 /\ IntQSize \in Nat
        /\ \A q \in Queue : QSize[q] \in Nat
    BY KernelAssumption
  <2>2. /\ <<>> \in Seq(Task) /\ <<>> \in Seq(Msg) /\ <<>> \in Seq(Deferred)
        /\ Len(<<>>) = 0
    BY EmptySeq
  <2>3. /\ tstate \in [Task -> BaseState] /\ susp \in [Task -> BOOLEAN]
        /\ pendOn \in [Task -> Obj \cup {None}] /\ rcv \in [Task -> Msg \cup {None}]
        /\ err \in [Task -> PendErr]
        /\ locked \in BOOLEAN /\ holder \in Task \cup {None}
    BY DEF KInit, BaseState, PendErr
  <2>4. suspendCtr \in [Task -> 0..(NestMod - 1)] /\ semCtr \in [Sem -> 0..SemMax]
    BY <2>1 DEF KInit
  <2>5. /\ pendList \in [Obj -> Seq(Task)]
        /\ msgQ \in [Queue -> Seq(Msg)]
        /\ \A q \in Queue : Len(msgQ[q]) <= QSize[q]
        /\ intQ \in Seq(Deferred) /\ Len(intQ) <= IntQSize
    BY <2>1, <2>2 DEF KInit
  <2> QED
    BY <2>3, <2>4, <2>5 DEF KTypeOK
<1>2. KTypeOK /\ [KNext]_kvars => KTypeOK'
  <2> SUFFICES ASSUME KTypeOK, [KNext]_kvars PROVE KTypeOK'
    OBVIOUS
  <2>1. CASE UNCHANGED kvars
    BY <2>1 DEF KTypeOK, kvars
  <2> QED
    BY <2>1, TaskTypeStep, SystemTypeStep DEF KNext
<1> QED
  BY <1>1, <1>2, PTL DEF KSpec

-----------------------------------------------------------------------------
(* The task that keeps the processor                                       *)

\* A task that runs is ready, and is the holder if the scheduler is locked.
LEMMA RunningIsReady ==
  ASSUME HolderRuns, NEW t \in Task, CanRun(t)
  PROVE  Ready(t) /\ (locked => holder = t)
  BY KernelAssumption DEF HolderRuns, CanRun, Highest

\* Waking tasks takes the processor from nobody.
LEMMA PostKeepsReady ==
  ASSUME NEW W, NEW m, OS_Post(W, m), NEW t \in Task, Ready(t), UNCHANGED susp
  PROVE  Ready(t)'
  BY DEF OS_Post, Ready

\* No step blocks or suspends the task that holds the scheduler lock.
LEMMA HolderStep ==
  ASSUME KTypeOK, HolderRuns, [KNext]_kvars
  PROVE  HolderRuns'
<1>1. ASSUME NEW t \in Task, TaskStep(t)
      PROVE  HolderRuns'
  <2>1. ASSUME CanRun(t) PROVE Ready(t) /\ (locked => holder = t)
    BY <2>1, RunningIsReady
  <2>2. t # None
    BY KernelAssumption
  <2>3. CASE Lock(t) \/ Unlock(t)
    BY <2>1, <2>2, <2>3 DEF Lock, Unlock, HolderRuns, Ready
  <2>4. ASSUME KeepCpu(t), CanRun(t), UNCHANGED <<tstate, susp, locked>>
        PROVE  HolderRuns'
    BY <2>1, <2>2, <2>4 DEF KeepCpu, HolderRuns, Ready
  <2>5. CASE OSTimeDly(t) \/ \E o \in Obj, timed \in BOOLEAN : Block(t, o, timed)
    BY <2>5 DEF OSTimeDly, Block, HolderRuns
  <2>6. ASSUME CanRun(t), UNCHANGED <<susp, locked>>,
               \/ KeepCpu(t) /\ UNCHANGED tstate
               \/ OSSched /\ \E W, m : OS_Post(W, m)
        PROVE  HolderRuns'
    <3>1. CASE KeepCpu(t) /\ UNCHANGED tstate
      BY <2>4, <2>6, <3>1
    <3>2. CASE OSSched /\ \E W, m : OS_Post(W, m)
      <4>1. Ready(t)'
        BY <2>1, <2>6, <3>2, PostKeepsReady
      <4> QED
        BY <2>1, <2>2, <2>6, <3>2, <4>1 DEF OSSched, HolderRuns, Ready
    <3> QED
      BY <2>6, <3>1, <3>2
  <2>7. CASE \E q \in Queue, m \in Msg, all \in BOOLEAN : OSQPost(t, q, m, all)
    BY <2>6, <2>7 DEF OSQPost, OS_QPost
  <2>12. ASSUME NEW u \in Task, OSTaskCreate(t, u)
         PROVE  HolderRuns'
    <3>1. Ready(t)'
      BY <2>1, <2>12 DEF OSTaskCreate, Ready, KTypeOK
    <3> QED
      BY <2>1, <2>2, <2>12, <3>1 DEF OSTaskCreate, OSSched, HolderRuns
  <2>8. CASE \E s \in Sem : OSSemPost(t, s)
    BY <2>6, <2>8 DEF OSSemPost, OS_SemPost
  <2>9. CASE \/ Compute(t) \/ \E q \in Queue : OSQPendGet(t, q)
             \/ \E s \in Sem : OSSemPendGet(t, s)
    BY <2>4, <2>9 DEF Compute, OSQPendGet, OSSemPendGet
  <2>10. CASE PendLocked(t)
    BY <2>10 DEF PendLocked, HolderRuns, Ready
  <2>11. ASSUME NEW u \in Task, OSTaskSuspend(t, u) \/ OSTaskResume(t, u)
         PROVE  HolderRuns'
    <3>1. CanRun(t) /\ UNCHANGED <<tstate, locked>>
      BY <2>11 DEF OSTaskSuspend, OSTaskResume
    <3>2. CASE UNCHANGED <<susp, holder>>
      BY <3>1, <3>2 DEF HolderRuns, Ready
    <3>3. CASE OSSched /\ (u = t => ~locked) /\ (OS_TaskSuspend(u) \/ OS_TaskResume(u))
      <4>1. u # t => susp'[t] = susp[t]
        BY <3>3 DEF OS_TaskSuspend, OS_TaskResume, KTypeOK
      <4> QED
        BY <2>1, <2>2, <3>1, <3>3, <4>1 DEF OSSched, HolderRuns, Ready
    <3> QED
      BY <2>11, <3>2, <3>3 DEF OSTaskSuspend, OSTaskResume
  <2> QED
    BY <1>1, <2>3, <2>5, <2>7, <2>8, <2>9, <2>10, <2>11, <2>12
    DEF TaskStep, OSQPend, OSSemPend, Obj
<1>2. CASE TickTask \/ OS_IntQTask
  BY <1>2 DEF TickTask, DelayExpires, PendTimesOut, OS_IntQTask, HolderRuns
<1>3. CASE Interrupt \/ UNCHANGED kvars
  BY <1>3 DEF Interrupt, Isr, kvars, HolderRuns, Ready
<1> QED
  BY <1>1, <1>2, <1>3 DEF KNext

\* The task that holds the scheduler lock is never blocked or suspended, by
\* itself or by another task: OSTaskSuspend refuses it, OS_Pend is not reached,
\* interrupts are deferred.  Otherwise nothing would ever run again.
THEOREM HolderCorrect == KSpec => []HolderRuns
<1>1. KInit => HolderRuns
  BY DEF KInit, HolderRuns
<1>2. KTypeOK /\ HolderRuns /\ [KNext]_kvars => HolderRuns'
  BY HolderStep
<1> QED
  BY <1>1, <1>2, KTypeCorrect, PTL DEF KSpec

-----------------------------------------------------------------------------
(* The pend lists                                                          *)

\* A woken set of waiters of one object leaves exactly that object's list.
LEMMA PostExact ==
  ASSUME KTypeOK, PendListExact, NEW o \in Obj, NEW m, pendList[o] # <<>>,
         NEW all \in BOOLEAN,
         OS_Post(IF all THEN Range(pendList[o]) ELSE {Head(pendList[o])}, m),
         pendList' = [pendList EXCEPT ![o] = IF all THEN <<>> ELSE Tail(@)]
  PROVE  PendListExact'
<1> DEFINE W == IF all THEN Range(pendList[o]) ELSE {Head(pendList[o])}
           new == IF all THEN <<>> ELSE Tail(pendList[o])
<1>1. pendList[o] \in Seq(Task) /\ IsInjective(pendList[o])
  BY DEF KTypeOK, PendListExact
<1>2. Range(new) = Range(pendList[o]) \ W /\ IsInjective(new)
  <2>1. CASE all
    BY <2>1 DEF Range, IsInjective
  <2>2. CASE ~all
    BY <1>1, <2>2, TailRange
  <2> QED
    BY <2>1, <2>2
<1>3. W \subseteq Range(pendList[o])
  <2>1. Head(pendList[o]) \in Range(pendList[o])
    BY <1>1, HeadTailProperties, LenProperties, EmptySeq DEF Range
  <2> QED
    BY <2>1
<1>4. \A t \in W : t \in Task => pendOn[t] = o
  BY <1>3 DEF PendListExact
<1>5. pendList' = [pendList EXCEPT ![o] = new] /\ pendList \in [Obj -> Seq(Task)]
  BY DEF KTypeOK
<1>6. /\ tstate' = [t \in Task |-> IF t \in W THEN "RDY" ELSE tstate[t]]
      /\ pendOn' = [t \in Task |-> IF t \in W THEN None ELSE pendOn[t]]
  BY DEF OS_Post
<1>7. None \notin Obj
  BY KernelAssumption
<1> HIDE DEF W, new
<1>8. \A t \in Task : pendOn'[t] # None <=> tstate'[t] \in {"PEND", "PEND_TIMEOUT"}
  BY <1>6 DEF PendListExact
<1>9. ASSUME NEW p \in Obj, NEW t \in Task
      PROVE  t \in Range(pendList'[p]) <=> pendOn'[t] = p
  <2>1. t \in Range(pendList[p]) <=> pendOn[t] = p
    BY DEF PendListExact
  <2>2. CASE p = o
    BY <1>2, <1>5, <1>6, <1>7, <2>1, <2>2
  <2>3. CASE p # o
    BY <1>4, <1>5, <1>6, <1>7, <2>1, <2>3
  <2> QED
    BY <2>2, <2>3
<1>10. \A p \in Obj : IsInjective(pendList'[p])
  BY <1>2, <1>5 DEF PendListExact
<1> QED
  BY <1>8, <1>9, <1>10 DEF PendListExact

\* A post to a queue, and one to a semaphore.
LEMMA PostsExact ==
  ASSUME KTypeOK, PendListExact,
         \/ \E q \in Queue, m \in Msg, all \in BOOLEAN : OS_QPost(q, m, all)
         \/ \E s \in Sem : OS_SemPost(s)
  PROVE  PendListExact'
<1>1. ASSUME UNCHANGED <<tstate, pendOn, pendList>>
      PROVE  PendListExact'
  BY <1>1 DEF PendListExact
<1>2. ASSUME NEW q \in Queue, NEW m \in Msg, NEW all \in BOOLEAN, OS_QPost(q, m, all)
      PROVE  PendListExact'
  <2>1. CASE pendList[q] = <<>>
    BY <1>1, <1>2, <2>1 DEF OS_QPost
  <2>2. CASE pendList[q] # <<>>
    BY <1>2, <2>2, PostExact DEF OS_QPost, Obj
  <2> QED
    BY <2>1, <2>2
<1>3. ASSUME NEW s \in Sem, OS_SemPost(s)
      PROVE  PendListExact'
  <2>1. CASE pendList[s] = <<>>
    BY <1>1, <1>3, <2>1 DEF OS_SemPost
  <2>2. CASE pendList[s] # <<>>
    <3>1. /\ OS_Post(IF FALSE THEN Range(pendList[s]) ELSE {Head(pendList[s])}, None)
          /\ pendList' = [pendList EXCEPT ![s] = IF FALSE THEN <<>> ELSE Tail(@)]
      BY <1>3, <2>2 DEF OS_SemPost
    <3> QED
      BY <2>2, <3>1, PostExact DEF Obj
  <2> QED
    BY <2>1, <2>2
<1> QED
  BY <1>2, <1>3

\* A task that blocks was on no list and enters one.
LEMMA BlockExact ==
  ASSUME KTypeOK, HolderRuns, PendListExact,
         NEW t \in Task, NEW o \in Obj, NEW timed \in BOOLEAN, Block(t, o, timed)
  PROVE  PendListExact'
<1>1. tstate[t] = "RDY"
  BY RunningIsReady DEF Block, Ready
<1>2. pendOn[t] = None /\ None \notin Obj
  BY <1>1, KernelAssumption DEF PendListExact
<1>3. \A p \in Obj : t \notin Range(pendList[p])
  BY <1>2 DEF PendListExact
<1>4. PICK k \in 1..(Len(pendList[o]) + 1) :
        pendList' = [pendList EXCEPT ![o] = InsertAt(pendList[o], k, t)]
  BY DEF Block, OS_Pend
<1> DEFINE new == InsertAt(pendList[o], k, t)
<1>5. pendList[o] \in Seq(Task) /\ IsInjective(pendList[o])
  BY DEF KTypeOK, PendListExact
<1>6. Range(new) = Range(pendList[o]) \cup {t} /\ IsInjective(new)
  BY <1>3, <1>5, InsertAtRange
<1>7. /\ pendList' = [pendList EXCEPT ![o] = new] /\ pendList \in [Obj -> Seq(Task)]
      /\ pendOn' = [pendOn EXCEPT ![t] = o] /\ pendOn \in [Task -> Obj \cup {None}]
      /\ tstate' = [tstate EXCEPT ![t] = IF timed THEN "PEND_TIMEOUT" ELSE "PEND"]
      /\ tstate \in [Task -> BaseState]
  BY <1>4 DEF KTypeOK, Block, OS_Pend
<1> HIDE DEF new
<1>8. \A u \in Task : pendOn'[u] # None <=> tstate'[u] \in {"PEND", "PEND_TIMEOUT"}
  BY <1>2, <1>7 DEF PendListExact
<1>9. ASSUME NEW p \in Obj, NEW u \in Task
      PROVE  u \in Range(pendList'[p]) <=> pendOn'[u] = p
  <2>1. u \in Range(pendList[p]) <=> pendOn[u] = p
    BY DEF PendListExact
  <2> QED
    BY <1>3, <1>6, <1>7, <2>1
<1>10. \A p \in Obj : IsInjective(pendList'[p])
  BY <1>6, <1>7 DEF PendListExact
<1> QED
  BY <1>8, <1>9, <1>10 DEF PendListExact

\* A task whose pend times out leaves the list of the object it waited for.
LEMMA TimeoutExact ==
  ASSUME KTypeOK, PendListExact, NEW t \in Task, PendTimesOut(t)
  PROVE  PendListExact'
<1> DEFINE o == pendOn[t]
<1>1. o \in Obj /\ None \notin Obj
  BY KernelAssumption DEF PendTimesOut, PendListExact, KTypeOK
<1>2. PICK i \in DOMAIN pendList[o] :
        pendList[o][i] = t /\ pendList' = [pendList EXCEPT ![o] = RemoveAt(@, i)]
  BY DEF PendTimesOut
<1> DEFINE new == RemoveAt(pendList[o], i)
<1>3. /\ pendList[o] \in Seq(Task) /\ IsInjective(pendList[o])
      /\ i \in 1..Len(pendList[o])
  BY <1>1, LenProperties DEF KTypeOK, PendListExact
<1>4. Range(new) = Range(pendList[o]) \ {t} /\ IsInjective(new)
  BY <1>2, <1>3, RemoveAtRange
<1>5. /\ pendList' = [pendList EXCEPT ![o] = new] /\ pendList \in [Obj -> Seq(Task)]
      /\ pendOn' = [pendOn EXCEPT ![t] = None] /\ pendOn \in [Task -> Obj \cup {None}]
      /\ tstate' = [tstate EXCEPT ![t] = "RDY"] /\ tstate \in [Task -> BaseState]
  BY <1>2 DEF KTypeOK, PendTimesOut
<1> HIDE DEF new
<1>6. \A u \in Task : pendOn'[u] # None <=> tstate'[u] \in {"PEND", "PEND_TIMEOUT"}
  BY <1>5 DEF PendListExact
<1>7. ASSUME NEW p \in Obj, NEW u \in Task
      PROVE  u \in Range(pendList'[p]) <=> pendOn'[u] = p
  <2>1. u \in Range(pendList[p]) <=> pendOn[u] = p
    BY DEF PendListExact
  <2> QED
    BY <1>1, <1>4, <1>5, <2>1
<1>8. \A p \in Obj : IsInjective(pendList'[p])
  BY <1>4, <1>5 DEF PendListExact
<1> QED
  BY <1>6, <1>7, <1>8 DEF PendListExact

\* Every step keeps the pend lists and the TCBs in step.
LEMMA PendListStep ==
  ASSUME KTypeOK, HolderRuns, PendListExact, [KNext]_kvars
  PROVE  PendListExact'
<1>1. ASSUME UNCHANGED <<tstate, pendOn, pendList>>
      PROVE  PendListExact'
  BY <1>1 DEF PendListExact
<1>2. ASSUME NEW t \in Task, TaskStep(t)
      PROVE  PendListExact'
  <2>1. CASE OSTimeDly(t)
    <3>1. tstate[t] = "RDY"
      BY <2>1, RunningIsReady DEF OSTimeDly, Ready
    <3>2. tstate' = [tstate EXCEPT ![t] = "DLY"] /\ UNCHANGED <<pendOn, pendList>>
      BY <2>1 DEF OSTimeDly
    <3> QED
      BY <3>1, <3>2 DEF PendListExact, KTypeOK
  <2>6. ASSUME NEW u \in Task, OSTaskCreate(t, u)
        PROVE  PendListExact'
    BY <2>6 DEF OSTaskCreate, Created, PendListExact, KTypeOK
  <2>2. CASE \E q \in Queue, m \in Msg, all \in BOOLEAN : OSQPost(t, q, m, all)
    BY <2>2, PostsExact DEF OSQPost
  <2>3. CASE \E s \in Sem : OSSemPost(t, s)
    BY <2>3, PostsExact DEF OSSemPost
  <2>4. CASE \E o \in Obj, timed \in BOOLEAN : Block(t, o, timed)
    BY <2>4, BlockExact
  <2>5. CASE \/ Lock(t) \/ Unlock(t) \/ Compute(t) \/ PendLocked(t)
             \/ \E q \in Queue : OSQPendGet(t, q)
             \/ \E s \in Sem : OSSemPendGet(t, s)
             \/ \E u \in Task : OSTaskSuspend(t, u) \/ OSTaskResume(t, u)
    BY <1>1, <2>5
    DEF Lock, Unlock, Compute, PendLocked, OSQPendGet, OSSemPendGet, OSTaskSuspend,
        OSTaskResume
  <2> QED
    BY <1>2, <2>1, <2>2, <2>3, <2>4, <2>5, <2>6 DEF TaskStep, OSQPend, OSSemPend, Obj
<1>3. CASE TickTask
  <2>1. ASSUME NEW t \in Task, DelayExpires(t)
        PROVE  PendListExact'
    BY <2>1 DEF DelayExpires, PendListExact, KTypeOK
  <2> QED
    BY <1>3, <2>1, TimeoutExact DEF TickTask
<1>4. CASE OS_IntQTask
  <2> DEFINE e == Head(intQ)
  <2>1. e \in Deferred
    BY <1>4, HeadTailProperties DEF OS_IntQTask, KTypeOK
  <2>2. OS_IntQRePost(e)
    BY <1>4 DEF OS_IntQTask
  <2> HIDE DEF e
  <2>3. CASE e.type \in {"Q", "Q_ALL"} /\ OS_QPost(e.obj, e.msg, e.type = "Q_ALL")
    <3>1. e.obj \in Queue /\ e.msg \in Msg /\ (e.type = "Q_ALL") \in BOOLEAN
      BY <2>1, <2>3 DEF Deferred
    <3> QED
      BY <2>3, <3>1, PostsExact
  <2>4. CASE e.type = "SEM" /\ OS_SemPost(e.obj)
    <3>1. e.obj \in Sem
      BY <2>1, <2>4 DEF Deferred
    <3> QED
      BY <2>4, <3>1, PostsExact
  <2> QED
    BY <1>1, <2>2, <2>3, <2>4 DEF OS_IntQRePost
<1>5. CASE Interrupt \/ UNCHANGED kvars
  BY <1>1, <1>5 DEF Interrupt, Isr, kvars
<1> QED
  BY <1>2, <1>3, <1>4, <1>5 DEF KNext

\* A task is on the pend list of an object exactly when its TCB says that it
\* pends on it, and once: posts, pends and timeouts, from tasks and deferred
\* from interrupts, keep the two in step.
THEOREM PendListCorrect == KSpec => []PendListExact
<1>1. KInit => PendListExact
  <2>1. KInit => \A t \in Task : tstate[t] \in {"NONE", "RDY"} /\ pendOn[t] = None
    BY DEF KInit
  <2>2. KInit => \A o \in Obj : pendList[o] = <<>> /\ o # None
    BY KernelAssumption DEF KInit
  <2> QED
    BY <2>1, <2>2 DEF PendListExact, Range, IsInjective
<1>2. KTypeOK /\ HolderRuns /\ PendListExact /\ [KNext]_kvars => PendListExact'
  BY PendListStep
<1> QED
  BY <1>1, <1>2, KTypeCorrect, HolderCorrect, PTL DEF KSpec

-----------------------------------------------------------------------------
(* No lost wake-up                                                         *)

\* A post finds no waiter or leaves nothing behind.
LEMMA PostsWake ==
  ASSUME KTypeOK, NoLostWakeup,
         \/ /\ \E q \in Queue, m \in Msg, all \in BOOLEAN : OS_QPost(q, m, all)
            /\ UNCHANGED semCtr
         \/ /\ \E s \in Sem : OS_SemPost(s)
            /\ UNCHANGED msgQ
  PROVE  NoLostWakeup'
<1>1. CASE /\ \E q \in Queue, m \in Msg, all \in BOOLEAN : OS_QPost(q, m, all)
           /\ UNCHANGED semCtr
  <2>1. PICK q \in Queue, m \in Msg, all \in BOOLEAN : OS_QPost(q, m, all)
    BY <1>1
  <2>2. q \in Obj /\ q \notin Sem
    BY KernelAssumption DEF Obj
  <2>3. CASE pendList[q] = <<>>
    <3>1. /\ UNCHANGED <<pendList, semCtr>>
          /\ \A r \in Queue : r # q => msgQ'[r] = msgQ[r]
      BY <1>1, <2>1, <2>3 DEF OS_QPost, KTypeOK
    <3> QED
      BY <2>3, <3>1 DEF NoLostWakeup
  <2>4. CASE pendList[q] # <<>>
    <3>1. /\ UNCHANGED <<msgQ, semCtr>>
          /\ \A o \in Obj : o # q => pendList'[o] = pendList[o]
      BY <1>1, <2>1, <2>4 DEF OS_QPost, KTypeOK
    <3> QED
      BY <2>2, <2>4, <3>1 DEF NoLostWakeup, Obj
  <2> QED
    BY <2>3, <2>4
<1>2. CASE /\ \E s \in Sem : OS_SemPost(s)
           /\ UNCHANGED msgQ
  <2>1. PICK s \in Sem : OS_SemPost(s)
    BY <1>2
  <2>2. s \in Obj /\ s \notin Queue
    BY KernelAssumption DEF Obj
  <2>3. CASE pendList[s] = <<>>
    <3>1. /\ UNCHANGED <<pendList, msgQ>>
          /\ \A r \in Sem : r # s => semCtr'[r] = semCtr[r]
      BY <1>2, <2>1, <2>3 DEF OS_SemPost, KTypeOK
    <3> QED
      BY <2>3, <3>1 DEF NoLostWakeup
  <2>4. CASE pendList[s] # <<>>
    <3>1. /\ UNCHANGED <<msgQ, semCtr>>
          /\ \A o \in Obj : o # s => pendList'[o] = pendList[o]
      BY <1>2, <2>1, <2>4 DEF OS_SemPost, KTypeOK
    <3> QED
      BY <2>2, <2>4, <3>1 DEF NoLostWakeup, Obj
  <2> QED
    BY <2>3, <2>4
<1> QED
  BY <1>1, <1>2

\* Every step keeps messages and waiters apart.
LEMMA WakeupStep ==
  ASSUME KTypeOK, NoLostWakeup, [KNext]_kvars
  PROVE  NoLostWakeup'
<1>1. ASSUME UNCHANGED <<pendList, msgQ, semCtr>>
      PROVE  NoLostWakeup'
  BY <1>1 DEF NoLostWakeup
<1>2. ASSUME NEW t \in Task, TaskStep(t)
      PROVE  NoLostWakeup'
  <2>1. CASE \E q \in Queue, m \in Msg, all \in BOOLEAN : OSQPost(t, q, m, all)
    BY <2>1, PostsWake DEF OSQPost
  <2>2. CASE \E s \in Sem : OSSemPost(t, s)
    BY <2>2, PostsWake DEF OSSemPost
  <2>3. ASSUME NEW o \in Obj, NEW timed \in BOOLEAN, Block(t, o, timed),
               o \in Queue => msgQ[o] = <<>>, o \in Sem => semCtr[o] = 0
        PROVE  NoLostWakeup'
    <3>1. /\ UNCHANGED <<msgQ, semCtr>>
          /\ \A p \in Obj : p # o => pendList'[p] = pendList[p]
      BY <2>3 DEF Block, OS_Pend, KTypeOK
    <3> QED
      BY <2>3, <3>1 DEF NoLostWakeup, Obj
  <2>4. ASSUME NEW q \in Queue, OSQPendGet(t, q)
        PROVE  NoLostWakeup'
    <3>1. /\ UNCHANGED <<pendList, semCtr>> /\ msgQ[q] # <<>>
          /\ \A r \in Queue : r # q => msgQ'[r] = msgQ[r]
      BY <2>4 DEF OSQPendGet, KTypeOK
    <3> QED
      BY <3>1 DEF NoLostWakeup
  <2>5. ASSUME NEW s \in Sem, OSSemPendGet(t, s)
        PROVE  NoLostWakeup'
    <3>1. /\ UNCHANGED <<pendList, msgQ>> /\ semCtr[s] > 0
          /\ \A r \in Sem : r # s => semCtr'[r] = semCtr[r]
      BY <2>5 DEF OSSemPendGet, KTypeOK
    <3> QED
      BY <3>1 DEF NoLostWakeup
  <2>6. CASE \/ Lock(t) \/ Unlock(t) \/ Compute(t) \/ PendLocked(t) \/ OSTimeDly(t)
             \/ \E u \in Task : \/ OSTaskCreate(t, u) \/ OSTaskSuspend(t, u)
                                \/ OSTaskResume(t, u)
    BY <1>1, <2>6
    DEF Lock, Unlock, Compute, PendLocked, OSTimeDly, OSTaskCreate, OSTaskSuspend,
        OSTaskResume
  <2>7. ASSUME NEW q \in Queue, NEW timed \in BOOLEAN, OSQPend(t, q, timed)
        PROVE  NoLostWakeup'
    <3>1. q \in Obj /\ q \notin Sem
      BY KernelAssumption DEF Obj
    <3> QED
      BY <2>3, <2>4, <2>6, <2>7, <3>1 DEF OSQPend
  <2>8. ASSUME NEW s \in Sem, NEW timed \in BOOLEAN, OSSemPend(t, s, timed)
        PROVE  NoLostWakeup'
    <3>1. s \in Obj /\ s \notin Queue
      BY KernelAssumption DEF Obj
    <3> QED
      BY <2>3, <2>5, <2>6, <2>8, <3>1 DEF OSSemPend
  <2> QED
    BY <1>2, <2>1, <2>2, <2>6, <2>7, <2>8 DEF TaskStep
<1>3. ASSUME NEW t \in Task, PendTimesOut(t)
      PROVE  NoLostWakeup'
  <2>1. /\ UNCHANGED <<msgQ, semCtr>>
        /\ \A p \in Obj : p # pendOn[t] => pendList'[p] = pendList[p]
        /\ pendList[pendOn[t]] # <<>>
    BY <1>3 DEF PendTimesOut, KTypeOK
  <2> QED
    BY <2>1 DEF NoLostWakeup, Obj
<1>4. CASE OS_IntQTask
  <2> DEFINE e == Head(intQ)
  <2>1. e \in Deferred
    BY <1>4, HeadTailProperties DEF OS_IntQTask, KTypeOK
  <2>2. OS_IntQRePost(e)
    BY <1>4 DEF OS_IntQTask
  <2> HIDE DEF e
  <2>3. CASE /\ e.type \in {"Q", "Q_ALL"} /\ OS_QPost(e.obj, e.msg, e.type = "Q_ALL")
             /\ UNCHANGED <<susp, suspendCtr, semCtr>>
    <3>1. e.obj \in Queue /\ e.msg \in Msg /\ (e.type = "Q_ALL") \in BOOLEAN
      BY <2>1, <2>3 DEF Deferred
    <3> QED
      BY <2>3, <3>1, PostsWake
  <2>4. CASE /\ e.type = "SEM" /\ OS_SemPost(e.obj)
             /\ UNCHANGED <<susp, suspendCtr, msgQ>>
    <3>1. e.obj \in Sem
      BY <2>1, <2>4 DEF Deferred
    <3> QED
      BY <2>4, <3>1, PostsWake
  <2> QED
    BY <1>1, <2>2, <2>3, <2>4 DEF OS_IntQRePost
<1>5. CASE Interrupt \/ UNCHANGED kvars \/ \E t \in Task : DelayExpires(t)
  BY <1>1, <1>5 DEF Interrupt, Isr, kvars, DelayExpires
<1> QED
  BY <1>2, <1>3, <1>4, <1>5 DEF KNext, TickTask

\* No task waits for a queue that holds a message or for a semaphore that was
\* signalled, whichever tasks and interrupts posted and pended in what order.
THEOREM WakeupCorrect == KSpec => []NoLostWakeup
<1>1. KInit => NoLostWakeup
  BY DEF KInit, NoLostWakeup, Obj
<1>2. KTypeOK /\ NoLostWakeup /\ [KNext]_kvars => NoLostWakeup'
  BY WakeupStep
<1> QED
  BY <1>1, <1>2, KTypeCorrect, PTL DEF KSpec

-----------------------------------------------------------------------------
(* The order of the pend lists                                             *)

Sorted(s) == \A i, j \in DOMAIN s : i < j => Prio[s[i]] <= Prio[s[j]]

\* OS_PendListInsertPrio keeps the order.
LEMMA InsertSorted ==
  ASSUME NEW s \in Seq(Task), NEW t \in Task, NEW new, Sorted(s),
         InsertedByPrio(s, t, new)
  PROVE  Sorted(new)
<1>1. PICK k \in 1..(Len(s) + 1) :
        /\ \A i \in 1..(k - 1) : Prio[s[i]] <= Prio[t]
        /\ k <= Len(s) => Prio[t] < Prio[s[k]]
        /\ new = InsertAt(s, k, t)
  BY DEF InsertedByPrio
<1>2. /\ Len(s) \in Nat /\ DOMAIN s = 1..Len(s)
      /\ new \in Seq(Task) /\ DOMAIN new = 1..(Len(s) + 1)
      /\ \A i \in 1..(Len(s) + 1) :
           new[i] = IF i < k THEN s[i] ELSE IF i = k THEN t ELSE s[i - 1]
  <2> DEFINE ins == InsertAt(s, k, t)
  <2>1. /\ ins \in Seq(Task) /\ Len(ins) = Len(s) + 1
        /\ \A i \in 1..(Len(s) + 1) :
             ins[i] = IF i < k THEN s[i] ELSE IF i = k THEN t ELSE s[i - 1]
    BY InsertAtProperties
  <2>2. new = ins
    BY <1>1
  <2> HIDE DEF ins
  <2> QED
    BY <2>1, <2>2, LenProperties
<1>3. /\ \A i \in 1..Len(s) : Prio[s[i]] \in Nat
      /\ Prio[t] \in Nat
  BY KernelAssumption, ElementOfSeq
<1>4. \A i, j \in 1..Len(s) : i < j => Prio[s[i]] <= Prio[s[j]]
  BY <1>2 DEF Sorted
<1>5. \A i \in k..Len(s) : Prio[t] <= Prio[s[i]]
  <2> SUFFICES ASSUME NEW i \in k..Len(s) PROVE Prio[t] <= Prio[s[i]]
    OBVIOUS
  <2>1. k \in 1..Len(s) /\ i \in 1..Len(s) /\ (k < i \/ k = i)
    BY <1>2
  <2>2. Prio[t] < Prio[s[k]] /\ Prio[s[k]] <= Prio[s[i]]
    BY <1>1, <1>2, <1>3, <1>4, <2>1
  <2> QED
    BY <1>3, <2>1, <2>2
<1> SUFFICES ASSUME NEW i \in DOMAIN new, NEW j \in DOMAIN new, i < j
             PROVE  Prio[new[i]] <= Prio[new[j]]
  BY DEF Sorted
<1>6. CASE j < k
  <2>1. new[i] = s[i] /\ new[j] = s[j] /\ i \in 1..Len(s) /\ j \in 1..Len(s)
    BY <1>2, <1>6
  <2> QED
    BY <1>4, <2>1
<1>7. CASE j = k
  <2>1. new[i] = s[i] /\ new[j] = t /\ i \in 1..(k - 1)
    BY <1>2, <1>7
  <2> QED
    BY <1>1, <2>1
<1>8. CASE j > k /\ i = k
  <2>1. new[i] = t /\ new[j] = s[j - 1] /\ j - 1 \in k..Len(s)
    BY <1>2, <1>8
  <2> QED
    BY <1>5, <2>1
<1>9. CASE j > k /\ i < k
  <2>1. /\ new[i] = s[i] /\ new[j] = s[j - 1]
        /\ i \in 1..Len(s) /\ j - 1 \in 1..Len(s) /\ i < j - 1
    BY <1>2, <1>9
  <2> QED
    BY <1>4, <2>1
<1>10. CASE i > k
  <2>1. /\ new[i] = s[i - 1] /\ new[j] = s[j - 1]
        /\ i - 1 \in 1..Len(s) /\ j - 1 \in 1..Len(s) /\ i - 1 < j - 1
    BY <1>2, <1>10
  <2> QED
    BY <1>4, <2>1
<1> QED
  BY <1>2, <1>6, <1>7, <1>8, <1>9, <1>10

\* An entry may leave a list at any place.
LEMMA RemoveSorted ==
  ASSUME NEW s \in Seq(Task), Sorted(s), NEW k \in 1..Len(s)
  PROVE  Sorted(RemoveAt(s, k))
<1> DEFINE new == RemoveAt(s, k)
<1>1. /\ Len(s) \in Nat /\ DOMAIN s = 1..Len(s)
      /\ new \in Seq(Task) /\ DOMAIN new = 1..(Len(s) - 1)
      /\ \A i \in 1..(Len(s) - 1) : new[i] = IF i < k THEN s[i] ELSE s[i + 1]
  BY RemoveAtProperties, LenProperties
<1> HIDE DEF new
<1>2. \A i, j \in 1..Len(s) : i < j => Prio[s[i]] <= Prio[s[j]]
  BY <1>1 DEF Sorted
<1>3. Sorted(new)
  <2> SUFFICES ASSUME NEW i \in DOMAIN new, NEW j \in DOMAIN new, i < j
               PROVE  Prio[new[i]] <= Prio[new[j]]
    BY DEF Sorted
  <2>1. CASE j < k
    BY <1>1, <1>2, <2>1
  <2>2. CASE i < k /\ j >= k
    BY <1>1, <1>2, <2>2
  <2>3. CASE i >= k
    BY <1>1, <1>2, <2>3
  <2> QED
    BY <1>1, <2>1, <2>2, <2>3
<1> QED
  BY <1>3 DEF new

\* A post takes the head or everything.
LEMMA TailSorted ==
  ASSUME NEW s \in Seq(Task), s # <<>>, Sorted(s)
  PROVE  Sorted(Tail(s))
<1> DEFINE new == Tail(s)
<1>1. /\ Len(s) \in Nat /\ DOMAIN s = 1..Len(s)
      /\ DOMAIN new = 1..(Len(s) - 1)
      /\ \A i \in 1..(Len(s) - 1) : new[i] = s[i + 1]
  BY HeadTailProperties, LenProperties
<1> HIDE DEF new
<1>2. Sorted(new)
  BY <1>1 DEF Sorted
<1> QED
  BY <1>2 DEF new

\* A step replaces at most one list, by a sorted one.
LEMMA OneListSorted ==
  ASSUME KTypeOK, PendListSorted, NEW o \in Obj, NEW new, Sorted(new),
         pendList' = [pendList EXCEPT ![o] = new]
  PROVE  PendListSorted'
<1>1. \A p \in Obj : pendList'[p] = IF p = o THEN new ELSE pendList[p]
  BY DEF KTypeOK
<1> QED
  BY <1>1 DEF PendListSorted, Sorted

\* A post removes the head of one list or empties it.
LEMMA PostsSorted ==
  ASSUME KTypeOK, PendListSorted,
         \/ \E q \in Queue, m \in Msg, all \in BOOLEAN : OS_QPost(q, m, all)
         \/ \E s \in Sem : OS_SemPost(s)
  PROVE  PendListSorted'
<1>1. CASE UNCHANGED pendList
  BY <1>1 DEF PendListSorted
<1>2. ASSUME NEW o \in Obj, NEW all \in BOOLEAN, pendList[o] # <<>>,
             pendList' = [pendList EXCEPT ![o] = IF all THEN <<>> ELSE Tail(@)]
      PROVE  PendListSorted'
  <2>1. pendList[o] \in Seq(Task) /\ Sorted(pendList[o])
    BY DEF KTypeOK, PendListSorted, Sorted
  <2>2. Sorted(<<>>) /\ Sorted(Tail(pendList[o]))
    BY <1>2, <2>1, TailSorted DEF Sorted
  <2> QED
    BY <1>2, <2>2, OneListSorted
<1>3. ASSUME NEW q \in Queue, NEW m \in Msg, NEW all \in BOOLEAN, OS_QPost(q, m, all)
      PROVE  PendListSorted'
  BY <1>1, <1>2, <1>3 DEF OS_QPost, Obj
<1>4. ASSUME NEW s \in Sem, OS_SemPost(s)
      PROVE  PendListSorted'
  <2>1. CASE pendList[s] # <<>>
    <3>1. pendList' = [pendList EXCEPT ![s] = IF FALSE THEN <<>> ELSE Tail(@)]
      BY <1>4, <2>1 DEF OS_SemPost
    <3> QED
      BY <1>2, <2>1, <3>1 DEF Obj
  <2> QED
    BY <1>1, <1>4, <2>1 DEF OS_SemPost
<1> QED
  BY <1>3, <1>4

\* Every step keeps the lists sorted.
LEMMA SortedStep ==
  ASSUME KTypeOK, PendListSorted, [KNext]_kvars
  PROVE  PendListSorted'
<1>1. CASE UNCHANGED pendList
  BY <1>1 DEF PendListSorted
<1>2. ASSUME NEW t \in Task, NEW o \in Obj, NEW timed \in BOOLEAN, Block(t, o, timed)
      PROVE  PendListSorted'
  <2>1. PICK list : /\ InsertedByPrio(pendList[o], t, list)
                    /\ pendList' = [pendList EXCEPT ![o] = list]
    BY <1>2 DEF Block, OS_Pend
  <2>2. pendList[o] \in Seq(Task) /\ Sorted(pendList[o])
    BY DEF KTypeOK, PendListSorted, Sorted
  <2> QED
    BY <2>1, <2>2, InsertSorted, OneListSorted
<1>3. ASSUME NEW t \in Task, TaskStep(t)
      PROVE  PendListSorted'
  <2>1. CASE \/ \E q \in Queue, m \in Msg, all \in BOOLEAN : OSQPost(t, q, m, all)
             \/ \E s \in Sem : OSSemPost(t, s)
    BY <2>1, PostsSorted DEF OSQPost, OSSemPost
  <2>2. CASE \/ Lock(t) \/ Unlock(t) \/ Compute(t) \/ PendLocked(t) \/ OSTimeDly(t)
             \/ \E q \in Queue : OSQPendGet(t, q)
             \/ \E s \in Sem : OSSemPendGet(t, s)
             \/ \E u \in Task : \/ OSTaskCreate(t, u) \/ OSTaskSuspend(t, u)
                                \/ OSTaskResume(t, u)
    BY <1>1, <2>2
    DEF Lock, Unlock, Compute, PendLocked, OSTimeDly, OSQPendGet, OSSemPendGet,
        OSTaskCreate, OSTaskSuspend, OSTaskResume
  <2> QED
    BY <1>2, <1>3, <2>1, <2>2 DEF TaskStep, OSQPend, OSSemPend, Obj
<1>4. ASSUME NEW t \in Task, PendTimesOut(t)
      PROVE  PendListSorted'
  <2> DEFINE o == pendOn[t]
  <2>1. PICK i \in DOMAIN pendList[o] : pendList' = [pendList EXCEPT ![o] = RemoveAt(@, i)]
    BY <1>4 DEF PendTimesOut
  <2>2. CASE o \in Obj
    <3>1. /\ pendList[o] \in Seq(Task) /\ Sorted(pendList[o])
          /\ i \in 1..Len(pendList[o])
      BY <2>2, LenProperties DEF KTypeOK, PendListSorted, Sorted
    <3> QED
      BY <2>1, <2>2, <3>1, RemoveSorted, OneListSorted
  <2>3. CASE o \notin Obj
    BY <1>1, <2>1, <2>3 DEF KTypeOK
  <2> QED
    BY <2>2, <2>3
<1>5. CASE OS_IntQTask
  <2> DEFINE e == Head(intQ)
  <2>1. e \in Deferred
    BY <1>5, HeadTailProperties DEF OS_IntQTask, KTypeOK
  <2>2. OS_IntQRePost(e)
    BY <1>5 DEF OS_IntQTask
  <2> HIDE DEF e
  <2>3. CASE e.type \in {"Q", "Q_ALL"} /\ OS_QPost(e.obj, e.msg, e.type = "Q_ALL")
    <3>1. e.obj \in Queue /\ e.msg \in Msg /\ (e.type = "Q_ALL") \in BOOLEAN
      BY <2>1, <2>3 DEF Deferred
    <3> QED
      BY <2>3, <3>1, PostsSorted
  <2>4. CASE e.type = "SEM" /\ OS_SemPost(e.obj)
    <3>1. e.obj \in Sem
      BY <2>1, <2>4 DEF Deferred
    <3> QED
      BY <2>4, <3>1, PostsSorted
  <2> QED
    BY <1>1, <2>2, <2>3, <2>4 DEF OS_IntQRePost
<1>6. CASE Interrupt \/ UNCHANGED kvars \/ \E t \in Task : DelayExpires(t)
  BY <1>1, <1>6 DEF Interrupt, Isr, kvars, DelayExpires
<1> QED
  BY <1>3, <1>4, <1>5, <1>6 DEF KNext, TickTask

\* The head of every pend list is its most urgent waiter: the task that the
\* next post wakes.
THEOREM SortedCorrect == KSpec => []PendListSorted
<1>1. KInit => PendListSorted
  BY DEF KInit, PendListSorted
<1>2. KTypeOK /\ PendListSorted /\ [KNext]_kvars => PendListSorted'
  BY SortedStep
<1> QED
  BY <1>1, <1>2, KTypeCorrect, PTL DEF KSpec

=============================================================================
