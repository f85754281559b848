------------------------------- MODULE Alarms -------------------------------
(***************************************************************************)
(* What timers.c promises the periodic handlers of the stack: each has a   *)
(* time left, of its own; time passes for all of them alike, and a handler *)
(* is called when no other has less time left, and waits its period again. *)
(***************************************************************************)
EXTENDS Integers

CONSTANTS Handler, Period

VARIABLE left

AInit == left = Period

IsFirst(h) == \A g \in Handler : left[h] <= left[g]

Pass == \E h \in Handler :
          /\ IsFirst(h) /\ left'[h] \in 0 .. left[h]
          /\ left' = [g \in Handler |-> left[g] - left[h] + left'[h]]

Call == \E h \in Handler :
          IsFirst(h) /\ left' = [g \in Handler |-> IF g = h THEN Period[h] ELSE left[g] - left[h]]

ASpec == AInit /\ [][Pass \/ Call]_left
=============================================================================
