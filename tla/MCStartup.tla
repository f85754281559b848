----------------------------- MODULE MCStartup -----------------------------
(* An instance of Startup for TLC.                                         *)
EXTENDS Startup

\* A lease of half an hour, one of two minutes (T1 fires at the first call of
\* dhcp_coarse_tmr), one of a minute (T1 = T2 after rounding: T2 fires).
MCLeases == {[t1 |-> 15, t2 |-> 30], [t1 |-> 1, t2 |-> 2], [t1 |-> 1, t2 |-> 1]}
=============================================================================
