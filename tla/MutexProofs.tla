---------------------------- MODULE MutexProofs ----------------------------
(***************************************************************************)
(* Theorems about module Mutex for any number of tasks and any priorities. *)
(* The priorities, the owner and the pend list depend on each other: the   *)
(* three invariants are proved together, with the facts about the owner    *)
(* that they need.                                                         *)
(***************************************************************************)
EXTENDS Mutex, ListFacts

-----------------------------------------------------------------------------
(* The inductive invariant                                                 *)

\* The task that owns the mutex does not wait for it, and the mutex remembers
\* the owner's own priority.
OwnerKnown ==
  owner # None => tstate[owner] # "PEND" /\ origPrio = BasePrio[owner]

\* The waiters are the tasks in state PEND, each once.
ListExact ==
  /\ IsInjective(waiters)
  /\ Range(waiters) = {t \in Task : tstate[t] = "PEND"}
  /\ owner = None => waiters = <<>>

\* The order of the list, by priorities that no step changes while a task waits.
SortedByBase(s) == \A i, j \in DOMAIN s : i < j => BasePrio[s[i]] <= BasePrio[s[j]]

\* The owner's priority is the least of its own and those of the waiters, every
\* other task has its own.
Inherits ==
  \A t \in Task :
    IF t # owner THEN prio[t] = BasePrio[t]
    ELSE /\ prio[t] <= BasePrio[t]
         /\ \A u \in Range(waiters) : prio[t] <= BasePrio[u]
         /\ prio[t] = BasePrio[t] \/ \E u \in Range(waiters) : prio[t] = BasePrio[u]

MInv == MTypeOK /\ OwnerKnown /\ ListExact /\ SortedByBase(waiters) /\ Inherits

-----------------------------------------------------------------------------
(* The list                                                                *)

\* A task that comes into the list adds itself and keeps the order.
LEMMA EnqueuedProperties ==
  ASSUME NEW s \in Seq(Task), NEW t \in Task, NEW new,
         prio \in [Task -> Nat], IsInjective(s), t \notin Range(s), SortedByBase(s),
         \A u \in Range(s) \cup {t} : prio[u] = BasePrio[u],
         Enqueued(s, t, new)
  PROVE  /\ new \in Seq(Task) /\ IsInjective(new)
         /\ Range(new) = Range(s) \cup {t} /\ SortedByBase(new)
<1>1. PICK k \in 1 .. Len(s) + 1 :
        /\ \A i \in 1 .. k - 1 : prio[s[i]] <= prio[t]
        /\ k <= Len(s) => prio[t] < prio[s[k]]
        /\ new = InsertAt(s, k, t)
  BY DEF Enqueued
<1> DEFINE ins == InsertAt(s, k, t)
<1>2. /\ Len(s) \in Nat /\ DOMAIN s = 1..Len(s)
      /\ ins \in Seq(Task) /\ DOMAIN ins = 1..(Len(s) + 1)
      /\ \A i \in 1..(Len(s) + 1) :
           ins[i] = IF i < k THEN s[i] ELSE IF i = k THEN t ELSE s[i - 1]
  BY InsertAtProperties, LenProperties
<1>3. Range(ins) = Range(s) \cup {t} /\ IsInjective(ins)
  BY InsertAtRange
<1>4. new = ins
  BY <1>1
<1> HIDE DEF ins
<1> DEFINE B(i) == BasePrio[s[i]]
           b    == BasePrio[t]
<1>5. /\ \A i \in 1..Len(s) : s[i] \in Range(s) /\ B(i) \in Nat /\ prio[s[i]] = B(i)
      /\ b \in Nat /\ prio[t] = b
  <2>1. \A i \in 1..Len(s) : s[i] \in Range(s) /\ s[i] \in Task
    BY <1>2, ElementOfSeq DEF Range
  <2> QED
    BY <2>1, MutexAssumption
<1>6. \A i, j \in 1..Len(s) : i < j => B(i) <= B(j)
  BY <1>2 DEF SortedByBase
<1> HIDE DEF B, b
<1>7. /\ \A i \in 1 .. k - 1 : i \in 1..Len(s) /\ B(i) <= b
      /\ k <= Len(s) => b < B(k)
  BY <1>1, <1>2, <1>5
<1>8. \A i \in k..Len(s) : b <= B(i)
  <2> SUFFICES ASSUME NEW i \in k..Len(s) PROVE b <= B(i)
    OBVIOUS
  <2>1. k \in 1..Len(s) /\ i \in 1..Len(s) /\ (k < i \/ k = i)
    BY <1>2
  <2>2. b < B(k) /\ B(k) <= B(i)
    BY <1>2, <1>5, <1>6, <1>7, <2>1
  <2> QED
    BY <1>5, <2>1, <2>2
<1> DEFINE V(i) == IF i < k THEN B(i) ELSE IF i = k THEN b ELSE B(i - 1)
<1>9. \A i \in 1..(Len(s) + 1) : BasePrio[ins[i]] = V(i)
  BY <1>2 DEF B, b
<1>10. ASSUME NEW i \in 1..(Len(s) + 1), NEW j \in 1..(Len(s) + 1), i < j
       PROVE  V(i) <= V(j)
  <2>1. CASE j < k
    BY <1>2, <1>6, <1>10, <2>1
  <2>2. CASE j = k
    BY <1>2, <1>7, <1>10, <2>2
  <2>3. CASE j > k /\ i = k
    <3>1. V(i) = b /\ V(j) = B(j - 1) /\ j - 1 \in k..Len(s)
      BY <1>2, <2>3
    <3> QED
      BY <1>8, <3>1
  <2>4. CASE j > k /\ i < k
    <3>1. i \in 1..Len(s) /\ j - 1 \in 1..Len(s) /\ i < j - 1
      BY <1>2, <2>4
    <3>2. V(i) = B(i) /\ V(j) = B(j - 1)
      BY <1>2, <2>4
    <3> QED
      BY <1>6, <3>1, <3>2
  <2>5. CASE i > k
    <3>0. i \in Nat /\ j \in Nat /\ k \in Nat \ {0} /\ Len(s) \in Nat /\ k < i /\ k < j /\ i < j
          /\ j <= Len(s) + 1
      BY <1>2, <1>10, <2>5
    <3>1. i - 1 \in 1..Len(s) /\ j - 1 \in 1..Len(s) /\ i - 1 < j - 1
      BY <3>0
    <3>2. V(i) = B(i - 1) /\ V(j) = B(j - 1)
      BY <3>0
    <3> QED
      BY <1>6, <3>1, <3>2
  <2> QED
    BY <1>2, <1>10, <2>1, <2>2, <2>3, <2>4, <2>5
<1> HIDE DEF V
<1>11. SortedByBase(ins)
  BY <1>2, <1>9, <1>10 DEF SortedByBase
<1> QED
  BY <1>2, <1>3, <1>4, <1>11

\* The head leaves the list: it was the most urgent, and the others remain.
LEMMA HeadProperties ==
  ASSUME NEW s \in Seq(Task), s # <<>>, IsInjective(s), SortedByBase(s)
  PROVE  /\ Head(s) \in Task /\ Head(s) \in Range(s)
         /\ Tail(s) \in Seq(Task) /\ IsInjective(Tail(s))
         /\ Range(Tail(s)) = Range(s) \ {Head(s)} /\ SortedByBase(Tail(s))
         /\ \A u \in Range(s) : BasePrio[Head(s)] <= BasePrio[u]
<1> DEFINE r == Tail(s)
<1>1. /\ Len(s) \in Nat \ {0} /\ DOMAIN s = 1..Len(s)
      /\ r \in Seq(Task) /\ DOMAIN r = 1..(Len(s) - 1)
      /\ \A i \in 1..(Len(s) - 1) : r[i] = s[i + 1]
      /\ Head(s) = s[1]
  BY HeadTailProperties, LenProperties, EmptySeq
<1>2. IsInjective(r) /\ Range(r) = Range(s) \ {Head(s)}
  BY TailRange
<1> HIDE DEF r
<1>3. \A i, j \in 1..Len(s) : i < j => BasePrio[s[i]] <= BasePrio[s[j]]
  BY <1>1 DEF SortedByBase
<1>4. \A i \in 1..Len(s) : s[i] \in Task /\ BasePrio[s[i]] \in Nat
  BY <1>1, ElementOfSeq, MutexAssumption
<1>5. SortedByBase(r)
  BY <1>1, <1>3 DEF SortedByBase
<1>6. ASSUME NEW u \in Range(s) PROVE BasePrio[s[1]] <= BasePrio[u]
  <2>1. PICK i \in 1..Len(s) : u = s[i]
    BY <1>1 DEF Range
  <2>2. CASE i = 1
    BY <1>1, <1>4, <2>1, <2>2
  <2>3. CASE 1 < i
    BY <1>1, <1>3, <2>1, <2>3
  <2> QED
    BY <1>1, <2>2, <2>3
<1>7. Head(s) \in Task /\ Head(s) \in Range(s)
  BY <1>1, <1>4 DEF Range
<1> QED
  BY <1>1, <1>2, <1>5, <1>6, <1>7 DEF r

-----------------------------------------------------------------------------
(* The steps                                                               *)

\* At the start nobody owns the mutex and nobody waits.
LEMMA InitInv == MInit => MInv
<1> SUFFICES ASSUME MInit PROVE MInv
  OBVIOUS
<1>1. MTypeOK
  BY MutexAssumption DEF MInit, MTypeOK, States
<1>2. IsInjective(waiters) /\ Range(waiters) = {} /\ DOMAIN waiters = {}
  BY DEF MInit, IsInjective, Range
<1>3. {t \in Task : tstate[t] = "PEND"} = {}
  BY DEF MInit
<1>4. OwnerKnown /\ ListExact /\ SortedByBase(waiters)
  BY <1>2, <1>3 DEF MInit, OwnerKnown, ListExact, SortedByBase
<1>5. Inherits
  BY MutexAssumption DEF MInit, Inherits
<1> QED
  BY <1>1, <1>4, <1>5 DEF MInv

\* Tasks that go to sleep or wake up concern neither list nor owner.
LEMMA SleepersStep ==
  ASSUME MInv, tstate' \in [Task -> States],
         \A u \in Task : tstate'[u] = "PEND" <=> tstate[u] = "PEND",
         UNCHANGED <<prio, owner, nest, origPrio, waiters>>
  PROVE  MInv'
<1>1. MTypeOK'
  BY DEF MInv, MTypeOK
<1>2. OwnerKnown' /\ ListExact'
  BY MutexAssumption DEF MInv, MTypeOK, OwnerKnown, ListExact
<1>3. SortedByBase(waiters)' /\ Inherits'
  BY DEF MInv, SortedByBase, Inherits
<1> QED
  BY <1>1, <1>2, <1>3 DEF MInv

LEMMA SleepStep ==
  ASSUME MInv, NEW t \in Task, NEW st \in States \ {"PEND"}, tstate[t] # "PEND",
         tstate' = [tstate EXCEPT ![t] = st],
         UNCHANGED <<prio, owner, nest, origPrio, waiters>>
  PROVE  MInv'
<1>1. /\ tstate' \in [Task -> States]
      /\ \A u \in Task : tstate'[u] = "PEND" <=> tstate[u] = "PEND"
  BY DEF MInv, MTypeOK
<1> QED
  BY <1>1, SleepersStep

\* A free mutex is taken: nobody waits for it, and the taker has its own priority.
LEMMA TakeStep ==
  ASSUME MInv, NEW t \in Task, Runs(t), Take(t)
  PROVE  MInv'
<1>1. owner = None /\ waiters = <<>> /\ prio[t] = BasePrio[t] /\ tstate[t] = "RDY"
  BY MutexAssumption DEF MInv, MTypeOK, ListExact, Inherits, Take, Runs
<1>2. MTypeOK'
  BY MutexAssumption DEF MInv, MTypeOK, Take
<1>3. OwnerKnown' /\ ListExact'
  BY <1>1, MutexAssumption DEF MInv, OwnerKnown, ListExact, Take
<1>4. SortedByBase(waiters)'
  BY DEF MInv, SortedByBase, Take
<1>5. Inherits'
  <2>1. Range(waiters) = {}
    BY <1>1 DEF Range
  <2>2. prio' = prio /\ owner' = t /\ waiters' = waiters
    BY DEF Take
  <2>3. \A u \in Task : prio[u] = BasePrio[u] /\ BasePrio[u] \in Nat
    BY <1>1, MutexAssumption DEF MInv, Inherits
  <2> QED
    BY <2>1, <2>2, <2>3 DEF Inherits
<1> QED
  BY <1>2, <1>3, <1>4, <1>5 DEF MInv

\* Nesting changes the counter alone, and not to 0.
LEMMA NestStep ==
  ASSUME MInv, nest > 0, nest' \in 1 .. MaxNest,
         UNCHANGED <<tstate, prio, owner, origPrio, waiters>>
  PROVE  MInv'
<1>1. MTypeOK'
  BY DEF MInv, MTypeOK
<1> QED
  BY <1>1 DEF MInv, OwnerKnown, ListExact, SortedByBase, Inherits

\* The caller enters the list and lends the owner its priority.
LEMMA BlockStep ==
  ASSUME MInv, NEW t \in Task, Runs(t), Block(t)
  PROVE  MInv'
<1>1. /\ tstate \in [Task -> States] /\ prio \in [Task -> Nat] /\ waiters \in Seq(Task)
      /\ owner \in Task /\ owner # t /\ owner # None /\ tstate[t] = "RDY"
      /\ tstate[owner] # "PEND"
  BY MutexAssumption DEF MInv, MTypeOK, OwnerKnown, Block, Runs
<1>2. /\ IsInjective(waiters) /\ SortedByBase(waiters)
      /\ Range(waiters) = {u \in Task : tstate[u] = "PEND"}
  BY DEF MInv, ListExact
<1>3. t \notin Range(waiters) /\ \A u \in Range(waiters) \cup {t} : u # owner /\ u \in Task
  BY <1>1, <1>2
<1>4. \A u \in Range(waiters) \cup {t} : prio[u] = BasePrio[u]
  BY <1>3 DEF MInv, Inherits
<1>5. /\ Enqueued(waiters, t, waiters')
      /\ UNCHANGED <<owner, nest, origPrio>>
      /\ tstate' = [tstate EXCEPT ![t] = "PEND"]
      /\ prio' = Raised(t)
  BY DEF Block
<1>6. /\ waiters' \in Seq(Task) /\ IsInjective(waiters') /\ SortedByBase(waiters')
      /\ Range(waiters') = Range(waiters) \cup {t}
  BY <1>1, <1>2, <1>3, <1>4, <1>5, EnqueuedProperties
<1>7. /\ tstate' \in [Task -> States]
      /\ \A u \in Task : tstate'[u] = "PEND" <=> tstate[u] = "PEND" \/ u = t
  BY <1>1, <1>5 DEF States
<1>8. /\ prio' \in [Task -> Nat]
      /\ \A u \in Task : u # owner => prio'[u] = prio[u]
      /\ prio'[owner] = IF prio[owner] > prio[t] THEN prio[t] ELSE prio[owner]
  BY <1>1, <1>5 DEF Raised
<1>9. MTypeOK'
  BY <1>5, <1>6, <1>7, <1>8 DEF MInv, MTypeOK
<1>10. OwnerKnown'
  BY <1>1, <1>5, <1>7 DEF MInv, OwnerKnown
<1>11. ListExact'
  BY <1>1, <1>2, <1>5, <1>6, <1>7 DEF ListExact
<1>12. ASSUME NEW u \in Task, u # owner PROVE prio'[u] = BasePrio[u]
  BY <1>8, <1>12 DEF MInv, Inherits
<1>13. /\ prio'[owner] <= BasePrio[owner]
       /\ \A u \in Range(waiters') : prio'[owner] <= BasePrio[u]
       /\ prio'[owner] = BasePrio[owner]
          \/ \E u \in Range(waiters') : prio'[owner] = BasePrio[u]
  <2>1. /\ prio[owner] \in Nat /\ prio[t] \in Nat /\ prio[t] = BasePrio[t]
        /\ \A u \in Task : BasePrio[u] \in Nat
    BY <1>1, <1>4, MutexAssumption
  <2>2. /\ prio[owner] <= BasePrio[owner]
        /\ \A u \in Range(waiters) : prio[owner] <= BasePrio[u]
        /\ prio[owner] = BasePrio[owner] \/ \E u \in Range(waiters) : prio[owner] = BasePrio[u]
    BY <1>1 DEF MInv, Inherits
  <2>3. CASE prio[owner] > prio[t]
    <3>1. prio'[owner] = BasePrio[t]
      BY <1>8, <2>1, <2>3
    <3>2. \A u \in Range(waiters) : BasePrio[t] <= BasePrio[u]
      BY <1>3, <2>1, <2>2, <2>3
    <3>3. BasePrio[t] <= BasePrio[owner] /\ BasePrio[t] <= BasePrio[t]
      BY <1>1, <2>1, <2>2, <2>3
    <3> QED
      BY <1>6, <3>1, <3>2, <3>3
  <2>4. CASE ~(prio[owner] > prio[t])
    <3>1. prio'[owner] = prio[owner] /\ prio[owner] <= BasePrio[t]
      BY <1>8, <2>1, <2>4
    <3> QED
      BY <1>6, <2>2, <3>1
  <2> QED
    BY <2>3, <2>4
<1>14. Inherits'
  BY <1>5, <1>12, <1>13 DEF Inherits
<1> QED
  BY <1>6, <1>9, <1>10, <1>11, <1>14 DEF MInv, SortedByBase

\* Nobody waits, so the owner has inherited nothing and frees the mutex.
LEMMA FreeStep ==
  ASSUME MInv, NEW t \in Task, Runs(t), owner = t, Free
  PROVE  MInv'
<1>1. MTypeOK'
  BY MutexAssumption DEF MInv, MTypeOK, Free
<1>2. OwnerKnown' /\ ListExact' /\ SortedByBase(waiters)'
  BY DEF MInv, OwnerKnown, ListExact, SortedByBase, Free
<1>3. Inherits'
  <2>1. Range(waiters) = {}
    BY DEF Free, Range
  <2>2. \A u \in Task : prio[u] = BasePrio[u]
    BY <2>1 DEF MInv, Inherits
  <2>3. prio' = prio /\ owner' = None
    BY DEF Free
  <2> QED
    BY <2>2, <2>3, MutexAssumption DEF Inherits
<1> QED
  BY <1>1, <1>2, <1>3 DEF MInv

\* The owner takes its own priority back and the most urgent waiter owns the mutex.
LEMMA HandOverStep ==
  ASSUME MInv, NEW t \in Task, Runs(t), owner = t, HandOver(t)
  PROVE  MInv'
<1> DEFINE h == Head(waiters)
<1>1. /\ tstate \in [Task -> States] /\ prio \in [Task -> Nat] /\ waiters \in Seq(Task)
      /\ t # None /\ tstate[t] = "RDY" /\ origPrio = BasePrio[t] /\ nest = 1
  BY MutexAssumption DEF MInv, MTypeOK, OwnerKnown, HandOver, Runs
<1>2. /\ IsInjective(waiters) /\ SortedByBase(waiters) /\ waiters # <<>>
      /\ Range(waiters) = {u \in Task : tstate[u] = "PEND"}
  BY DEF MInv, ListExact, HandOver
<1>3. /\ h \in Task /\ h \in Range(waiters)
      /\ Tail(waiters) \in Seq(Task) /\ IsInjective(Tail(waiters))
      /\ Range(Tail(waiters)) = Range(waiters) \ {h} /\ SortedByBase(Tail(waiters))
      /\ \A u \in Range(waiters) : BasePrio[h] <= BasePrio[u]
  BY <1>1, <1>2, HeadProperties
<1>4. h # t /\ h # None /\ tstate[h] = "PEND"
  BY <1>1, <1>2, <1>3, MutexAssumption
<1>5. /\ prio' = [prio EXCEPT ![t] = origPrio] /\ owner' = h /\ origPrio' = prio[h]
      /\ waiters' = Tail(waiters) /\ tstate' = [tstate EXCEPT ![h] = "RDY"] /\ nest' = nest
  BY DEF HandOver
<1> HIDE DEF h
<1>6. \A u \in Task : prio'[u] = BasePrio[u]
  BY <1>1, <1>5 DEF MInv, Inherits
<1>7. /\ tstate' \in [Task -> States]
      /\ \A u \in Task : tstate'[u] = "PEND" <=> tstate[u] = "PEND" /\ u # h
      /\ tstate'[h] = "RDY"
  BY <1>1, <1>3, <1>5 DEF States
<1>8. origPrio' = BasePrio[h]
  BY <1>3, <1>4, <1>5 DEF MInv, Inherits
<1>9. MTypeOK'
  <2>1. prio' \in [Task -> Nat] /\ origPrio' \in Nat
    BY <1>1, <1>3, <1>5, <1>8, MutexAssumption
  <2> QED
    BY <1>1, <1>3, <1>4, <1>5, <1>7, <2>1 DEF MInv, MTypeOK
<1>10. OwnerKnown'
  BY <1>5, <1>7, <1>8 DEF OwnerKnown
<1>11. ListExact'
  BY <1>2, <1>3, <1>4, <1>5, <1>7 DEF ListExact
<1>12. SortedByBase(waiters)'
  BY <1>3, <1>5 DEF SortedByBase
<1>13. Inherits'
  <2>1. \A u \in Task : BasePrio[u] \in Nat
    BY MutexAssumption
  <2>2. \A u \in Range(waiters') : BasePrio[h] <= BasePrio[u]
    BY <1>3, <1>5
  <2> QED
    BY <1>3, <1>5, <1>6, <2>1, <2>2 DEF Inherits
<1> QED
  BY <1>9, <1>10, <1>11, <1>12, <1>13 DEF MInv

-----------------------------------------------------------------------------
(* The theorems                                                            *)

\* Every step keeps the invariant.
LEMMA PendStep ==
  ASSUME MInv, NEW t \in Task, OSMutexPend(t)
  PROVE  MInv'
<1>1. CASE Take(t)
  BY <1>1, TakeStep DEF OSMutexPend
<1>2. CASE TakeAgain(t)
  <2>1. nest > 0 /\ nest' \in 1 .. MaxNest
    BY <1>2, MutexAssumption DEF TakeAgain, MInv, MTypeOK
  <2>2. UNCHANGED <<tstate, prio, owner, origPrio, waiters>>
    BY <1>2 DEF TakeAgain
  <2> QED
    BY <2>1, <2>2, NestStep
<1>3. CASE Block(t)
  BY <1>3, BlockStep DEF OSMutexPend
<1> QED
  BY <1>1, <1>2, <1>3 DEF OSMutexPend

LEMMA StutterStep == ASSUME MInv, UNCHANGED mvars PROVE MInv'
  BY DEF mvars, MInv, MTypeOK, OwnerKnown, ListExact, SortedByBase, Inherits

LEMMA PostStep ==
  ASSUME MInv, NEW t \in Task, OSMutexPost(t)
  PROVE  MInv'
<1>1. CASE owner # t
  BY <1>1, StutterStep DEF OSMutexPost
<1>2. CASE owner = t /\ Unnest
  <2>1. nest > 0 /\ nest' \in 1 .. MaxNest
    BY <1>2, MutexAssumption DEF Unnest, MInv, MTypeOK
  <2>2. UNCHANGED <<tstate, prio, owner, origPrio, waiters>>
    BY <1>2 DEF Unnest
  <2> QED
    BY <2>1, <2>2, NestStep
<1>3. CASE owner = t /\ Free
  BY <1>3, FreeStep DEF OSMutexPost
<1>4. CASE owner = t /\ HandOver(t)
  BY <1>4, HandOverStep DEF OSMutexPost
<1> QED
  BY <1>1, <1>2, <1>3, <1>4 DEF OSMutexPost

LEMMA NextInv == MInv /\ [MNext]_mvars => MInv'
<1> SUFFICES ASSUME MInv, [MNext]_mvars PROVE MInv'
  OBVIOUS
<1>1. ASSUME NEW t \in Task, Sleep(t) PROVE MInv'
  BY <1>1, SleepStep DEF Sleep, Runs, States
<1>2. ASSUME NEW t \in Task, Wake(t) PROVE MInv'
  BY <1>2, SleepStep DEF Wake, MakeReady, States
<1> QED
  BY <1>1, <1>2, PendStep, PostStep, StutterStep DEF MNext

\* The inductive invariant holds in every state of every execution.
THEOREM InvCorrect == MSpec => []MInv
  BY InitInv, NextInv, PTL DEF MSpec

\* OSMutexPend and OSMutexPost keep the types of the variables, and the nesting
\* counter is 0 exactly while the mutex is free (os_mutex.c:392, 703-719).
THEOREM MTypeCorrect == MSpec => []MTypeOK
<1>1. MInv => MTypeOK
  BY DEF MInv
<1> QED
  BY <1>1, InvCorrect, PTL

\* A waiter has the priority it was created with.
LEMMA WaiterPrio ==
  ASSUME MInv, NEW i \in DOMAIN waiters
  PROVE  waiters[i] \in Range(waiters) /\ prio[waiters[i]] = BasePrio[waiters[i]]
<1>1. waiters[i] \in Range(waiters)
  BY DEF Range
<1>2. waiters[i] \in Task /\ tstate[waiters[i]] = "PEND"
  BY <1>1 DEF MInv, ListExact
<1>3. waiters[i] # owner
  BY <1>2, MutexAssumption DEF MInv, OwnerKnown
<1> QED
  BY <1>1, <1>2, <1>3 DEF MInv, Inherits

\* What the invariant says of the priorities in the order of the list.
LEMMA InvInherits == ASSUME MInv PROVE OwnerInherits
<1> SUFFICES ASSUME NEW t \in Task, t = owner
             PROVE  /\ prio[t] <= BasePrio[t]
                    /\ \A i \in DOMAIN waiters : prio[t] <= prio[waiters[i]]
                    /\ \/ prio[t] = BasePrio[t]
                       \/ \E i \in DOMAIN waiters : prio[t] = prio[waiters[i]]
  BY DEF OwnerInherits, MInv, Inherits
<1>1. /\ prio[t] <= BasePrio[t]
      /\ \A u \in Range(waiters) : prio[t] <= BasePrio[u]
      /\ prio[t] = BasePrio[t] \/ \E u \in Range(waiters) : prio[t] = BasePrio[u]
  BY DEF MInv, Inherits
<1>2. \A u \in Range(waiters) : \E i \in DOMAIN waiters : u = waiters[i]
  BY DEF Range
<1> QED
  BY <1>1, <1>2, WaiterPrio

LEMMA InvSorted == ASSUME MInv PROVE WaitersSorted
<1>1. {waiters[i] : i \in DOMAIN waiters} = Range(waiters)
  BY DEF Range
<1>2. ASSUME NEW i \in DOMAIN waiters, NEW j \in DOMAIN waiters, i < j
      PROVE  prio[waiters[i]] <= prio[waiters[j]] /\ waiters[i] # waiters[j]
  <2>1. BasePrio[waiters[i]] <= BasePrio[waiters[j]]
    BY <1>2 DEF MInv, SortedByBase
  <2>2. i \in Nat /\ j \in Nat
    BY LenProperties DEF MInv, MTypeOK
  <2>3. waiters[i] # waiters[j]
    BY <1>2, <2>2 DEF MInv, ListExact, IsInjective
  <2> QED
    BY <2>1, <2>3, WaiterPrio
<1> QED
  BY <1>1, <1>2 DEF WaitersSorted, MInv, ListExact

\* Priority inheritance is exact: nobody but the owner runs at another task's
\* priority, and the owner at that of its most urgent waiter (os_mutex.c:429-448),
\* until it gives the mutex away (os_mutex.c:722-728).
THEOREM OwnerInheritsCorrect == MSpec => []OwnerInherits
  BY InvInherits, InvCorrect, PTL

\* The pend list holds exactly the waiting tasks, each once, the most urgent
\* first: OSMutexPost hands over to its head (os_mutex.c:730-731).
THEOREM WaitersSortedCorrect == MSpec => []WaitersSorted
  BY InvSorted, InvCorrect, PTL
=============================================================================
