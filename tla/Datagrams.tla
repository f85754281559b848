----------------------------- MODULE Datagrams -----------------------------
(***************************************************************************)
(* What the network promises the monitor of the orders sent to it, and the *)
(* relay the phone of what the monitor sends: messages on the way may be   *)
(* lost, those that arrive are whole, in the order of their sending and    *)
(* not twice.                                                              *)
(***************************************************************************)
EXTENDS Integers, Sequences

CONSTANT Message

VARIABLES
  way,       \* the messages on the way, in the order of their sending
  received

dvars == <<way, received>>

DInit == way = <<>> /\ received = <<>>

Send == \E m \in Message : way' = Append(way, m) /\ UNCHANGED received

\* Any messages on the way are lost, the others keep their order.
Lose ==
  /\ \E i \in [DOMAIN way' -> DOMAIN way] :
       /\ \A m, n \in DOMAIN way' : m < n => i[m] < i[n]
       /\ \A n \in DOMAIN way' : way'[n] = way[i[n]]
  /\ UNCHANGED received

Receive == /\ way # <<>> /\ received' = Append(received, Head(way)) /\ way' = Tail(way)

DNext == Send \/ Lose \/ Receive

DSpec == DInit /\ [][DNext]_dvars
=============================================================================
