------------------------------- MODULE Mutex -------------------------------
(***************************************************************************)
(* One mutex of uC/OS-III (os_mutex.c) and the tasks that may pend on it:  *)
(* nesting, priority inheritance and hand-over to the first waiter.        *)
(*                                                                         *)
(* A lower number is a higher priority.  Only the most urgent ready tasks  *)
(* run.  A task that waits for anything but the mutex (a delay, a          *)
(* semaphore, a mailbox) is in state WAIT.  Every caller in the program    *)
(* pends without a timeout, so a waiter leaves the list only by a post.    *)
(***************************************************************************)
EXTENDS Integers, SequencesExt

CONSTANTS
  Task,
  None,      \* no task
  BasePrio,  \* the priority each task was created with
  MaxNest    \* bound: nested acquisitions (OS_NESTING_CTR is 8 bits wide)

ASSUME MutexAssumption ==
  /\ None \notin Task
  /\ BasePrio \in [Task -> Nat]
  /\ MaxNest \in Nat \ {0}

VARIABLES
  tstate,    \* TaskState of each task
  prio,      \* Prio of each task
  owner,     \* OwnerTCBPtr
  nest,      \* OwnerNestingCtr
  origPrio,  \* OwnerOriginalPrio
  waiters    \* PendList

mvars == <<tstate, prio, owner, nest, origPrio, waiters>>

States == {"RDY", "PEND", "WAIT"}

\* OSMutexCreate, every task ready at its own priority.
MInit ==
  /\ tstate = [t \in Task |-> "RDY"]
  /\ prio = BasePrio
  /\ owner = None /\ nest = 0 /\ origPrio = 0 /\ waiters = <<>>

Runs(t) == /\ tstate[t] = "RDY"
           /\ \A u \in Task : tstate[u] = "RDY" => prio[t] <= prio[u]

\* A step that calls no service; one that waits; one that makes u ready.
Step(t)  == Runs(t) /\ UNCHANGED mvars
Sleep(t) == /\ Runs(t) /\ tstate' = [tstate EXCEPT ![t] = "WAIT"]
            /\ UNCHANGED <<prio, owner, nest, origPrio, waiters>>
MakeReady(u) == /\ tstate' = [tstate EXCEPT ![u] = "RDY"]
                /\ UNCHANGED <<prio, owner, nest, origPrio, waiters>>
Wake(u)  == tstate[u] = "WAIT" /\ MakeReady(u)

-----------------------------------------------------------------------------
(* OSMutexPend                                                             *)

Take(t) ==
  /\ nest = 0
  /\ owner' = t /\ nest' = 1 /\ origPrio' = prio[t]
  /\ UNCHANGED <<tstate, prio, waiters>>

TakeAgain(t) ==
  /\ nest > 0 /\ owner = t /\ nest < MaxNest
  /\ nest' = nest + 1
  /\ UNCHANGED <<tstate, prio, owner, origPrio, waiters>>

\* The owner inherits the priority of a more urgent caller.
Raised(t) == IF prio[owner] > prio[t] THEN [prio EXCEPT ![owner] = prio[t]] ELSE prio

\* Mutant: waiters are served in the order they came.
EnqueuedLast(ws, t, new) == new = Append(ws, t)

\* OS_PendListInsertPrio: behind every waiter that is as urgent.
Enqueued(ws, t, new) ==
  \E k \in 1 .. Len(ws) + 1 :
    /\ \A i \in 1 .. k - 1 : prio[ws[i]] <= prio[t]
    /\ k <= Len(ws) => prio[t] < prio[ws[k]]
    /\ new = InsertAt(ws, k, t)

Block(t) ==
  /\ nest > 0 /\ owner # t
  /\ prio' = Raised(t)
  /\ \E new \in {InsertAt(waiters, k, t) : k \in 1 .. Len(waiters) + 1} :
       Enqueued(waiters, t, new) /\ waiters' = new
  /\ tstate' = [tstate EXCEPT ![t] = "PEND"]
  /\ UNCHANGED <<owner, nest, origPrio>>

OSMutexPend(t) == Runs(t) /\ (Take(t) \/ TakeAgain(t) \/ Block(t))

(* OSMutexPost                                                             *)

Unnest ==
  /\ nest > 1 /\ nest' = nest - 1
  /\ UNCHANGED <<tstate, prio, owner, origPrio, waiters>>

Free ==
  /\ nest = 1 /\ waiters = <<>>
  /\ owner' = None /\ nest' = 0
  /\ UNCHANGED <<tstate, prio, origPrio, waiters>>

\* Mutant: the owner keeps the inherited priority.
HandOverRaised(t) ==
  /\ nest = 1 /\ waiters # <<>>
  /\ owner' = Head(waiters) /\ origPrio' = prio[Head(waiters)]
  /\ waiters' = Tail(waiters)
  /\ tstate' = [tstate EXCEPT ![Head(waiters)] = "RDY"]
  /\ UNCHANGED <<nest, prio>>

HandOver(t) ==
  /\ nest = 1 /\ waiters # <<>>
  /\ prio' = [prio EXCEPT ![t] = origPrio]
  /\ owner' = Head(waiters) /\ origPrio' = prio[Head(waiters)]
  /\ waiters' = Tail(waiters)
  /\ tstate' = [tstate EXCEPT ![Head(waiters)] = "RDY"]
  /\ UNCHANGED nest

OSMutexPost(t) ==
  /\ Runs(t)
  /\ IF owner # t THEN UNCHANGED mvars ELSE Unnest \/ Free \/ HandOver(t)

-----------------------------------------------------------------------------
\* What the users of the mutex may do to it.
MNext == \E t \in Task : OSMutexPend(t) \/ OSMutexPost(t) \/ Sleep(t) \/ Wake(t)

MSpec == MInit /\ [][MNext]_mvars

-----------------------------------------------------------------------------
(* Properties                                                              *)

\* The types of the variables; the nesting counter is 0 exactly while the mutex
\* is free, which is what OSMutexPend tests (os_mutex.c:392).
MTypeOK ==
  /\ tstate \in [Task -> States]
  /\ prio \in [Task -> Nat]
  /\ owner \in Task \cup {None} /\ nest \in 0 .. MaxNest /\ (nest = 0) = (owner = None)
  /\ origPrio \in Nat /\ waiters \in Seq(Task)

\* The owner runs at its own priority or at that of its most urgent waiter,
\* whichever is more urgent, and every other task at its own: the inherited
\* priority (os_mutex.c:429-448) is given back when the mutex is (722-728).
OwnerInherits ==
  \A t \in Task :
    IF t # owner THEN prio[t] = BasePrio[t]
    ELSE /\ prio[t] <= BasePrio[t]
         /\ \A i \in DOMAIN waiters : prio[t] <= prio[waiters[i]]
         /\ prio[t] = BasePrio[t] \/ \E i \in DOMAIN waiters : prio[t] = prio[waiters[i]]

\* The mutex goes to the most urgent waiter (os_mutex.c:730): the pend list is
\* in priority order, and holds exactly the tasks that wait for the mutex.
WaitersSorted ==
  /\ \A i, j \in DOMAIN waiters : i < j => prio[waiters[i]] <= prio[waiters[j]] /\ waiters[i] # waiters[j]
  /\ {waiters[i] : i \in DOMAIN waiters} = {t \in Task : tstate[t] = "PEND"}
  /\ owner = None => waiters = <<>>
=============================================================================
