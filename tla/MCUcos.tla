------------------------------- MODULE MCUcos -------------------------------
(***************************************************************************)
(* A kernel with three tasks, two of them of equal priority, one queue and *)
(* one semaphore, in which every task may make every call at any time and  *)
(* the interrupt handlers post what those of the program post: the key     *)
(* handler (suspend and OVER, or RECO and resume), the Ethernet handler (a *)
(* semaphore) and the tick.                                                *)
(***************************************************************************)
EXTENDS Ucos

CONSTANTS t1, t2, t3, q1, s1, m1

MCPrio  == (t1 :> 1) @@ (t2 :> 2) @@ (t3 :> 2)
MCQSize == q1 :> 1
MCIsrPosts ==
  LET post == [type |-> "Q", obj |-> q1, msg |-> m1] IN
  {<<[type |-> "SUSPEND", obj |-> t3, msg |-> None], post>>,
   <<post, [type |-> "RESUME", obj |-> t3, msg |-> None]>>,
   <<[type |-> "SEM", obj |-> s1, msg |-> None]>>,
   <<[type |-> "TICK", obj |-> None, msg |-> None]>>}
=============================================================================
