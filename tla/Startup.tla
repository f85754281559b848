------------------------------ MODULE Startup ------------------------------
(***************************************************************************)
(* How the monitor gets its address and starts: the DHCP client of lwIP    *)
(* (dhcp.c) in tcpip_thread, lwip_dhcp_task (lwip_comm.c), which polls it  *)
(* and falls back to a static address, start_task (main.c) and             *)
(* dhcp_start_task (task.c), which creates the monitor's tasks.            *)
(*                                                                         *)
(* The handlers of the client are operators on the record client, each     *)
(* with every call it makes.  A tick is one call of dhcp_fine_tmr, every   *)
(* 500 ms; lwip_dhcp_task polls every 250 ms, so it has read the address   *)
(* at least once between two ticks, and start_task, which measures the     *)
(* idle CPU for 12 ticks of 10 ms, is done before the first.  The network  *)
(* loses, repeats, delays and reorders: a server may answer any message    *)
(* ever sent, at any time.  The state REBOOTING is left out, it is entered *)
(* by netif_set_link_up, which the program never calls.                    *)
(***************************************************************************)
EXTENDS Integers, FiniteSets

CONSTANTS
  Addr,         \* the addresses servers give
  Static,       \* the address of lwip_comm_default_ip_set
  NoAddr,       \* IP_ADDR_ANY
  Leases,       \* [t1, t2]: renewal and rebinding times, in calls of dhcp_coarse_tmr
  ServersAgree, \* a server acknowledges the address it was asked for
  MaxTries,     \* LWIP_MAX_DHCP_TRIES
  MaxRefusals,  \* bound: refusals (DHCP_NAK, ARP replies) that arrive
  MaxCoarse     \* bound: calls of dhcp_coarse_tmr, one minute apart

\* u16_t
Word16 == {n \in Nat : n < 65536}

ASSUME StartupAssumption ==
  /\ NoAddr \notin Addr /\ Static \notin Addr \cup {NoAddr}
  /\ Leases \subseteq [t1 : Word16, t2 : Word16] /\ ServersAgree \in BOOLEAN
  \* a number below that of a u8_t, with room for the tries between two polls
  /\ MaxTries \in Nat /\ 2 <= MaxTries /\ MaxTries < 250 /\ MaxRefusals \in Nat /\ MaxCoarse \in Nat

VARIABLES
  client,    \* struct dhcp, the address and the flag of the netif, what was sent
  pcb,       \* dhcp->pcb is registered: replies reach dhcp_recv
  dpc, ip,   \* lwip_dhcp_task: where it is, its copy of the address
  polled,    \* it has read the address since the last tick
  ticked,    \* there was a tick since the last call of dhcp_coarse_tmr
  created,   \* start_task has created the queues and dhcp_start_task
  status,    \* lwipdev.dhcpstatus
  devIp,     \* lwipdev.ip
  shown,     \* the address shown when the monitor's tasks were created
  refusals, coarse  \* how much of each bound is used

dhcpTask == <<dpc, ip, polled>>
svars == <<client, pcb, dhcpTask, ticked, created, status, devIp, shown, refusals, coarse>>

Zero == [t1 |-> 0, t2 |-> 0]

\* netif_add and netif_set_up are done; netif->dhcp is NULL, as good as off.
SInit ==
  /\ client = [state |-> "OFF", tries |-> 0, timeout |-> 0, xid |-> 0,
               offered |-> NoAddr, lease |-> Zero, timer |-> Zero,
               ip |-> NoAddr, up |-> TRUE, sent |-> {}]
  /\ pcb = FALSE /\ dpc = "start" /\ ip = NoAddr /\ polled = FALSE /\ ticked = TRUE
  /\ created = FALSE /\ status = 0 /\ devIp = Static /\ shown = NoAddr
  /\ refusals = 0 /\ coarse = 0

-----------------------------------------------------------------------------
(* The handlers of the client                                              *)

\* Mutant: the tries are counted anew at every call.
SetStateAlways(c, s) == [c EXCEPT !.state = s, !.tries = 0, !.timeout = 0]

\* dhcp_set_state
SetState(c, s) ==
  IF s = c.state THEN c ELSE [c EXCEPT !.state = s, !.tries = 0, !.timeout = 0]

\* dhcp_create_msg, udp_sendto_if: a retransmission keeps its identifier.
Sent(c, type, addr) ==
  LET x == IF c.tries = 0 THEN c.xid + 1 ELSE c.xid
  IN  [c EXCEPT !.xid = x, !.sent = @ \cup {[type |-> type, xid |-> x, addr |-> addr]}]

\* dhcp->tries++ and the timeout, in calls of dhcp_fine_tmr, from the milliseconds
\* for each number of tries.
Await(c, msecs) ==
  [c EXCEPT !.tries = @ + 1, !.timeout = (msecs[c.tries + 1] + 499) \div 500]

Doubling == [n \in Nat \ {0} |-> IF n < 6 THEN <<2, 4, 8, 16, 32>>[n] * 1000 ELSE 60000]
Renewal  == [n \in Nat \ {0} |-> IF n < 10 THEN n * 2000 ELSE 20000]
Second   == [n \in Nat \ {0} |-> IF n < 10 THEN n * 1000 ELSE 10000]

\* netif_set_down, netif_set_ipaddr with IP_ADDR_ANY
Down(c) == [c EXCEPT !.up = FALSE, !.ip = NoAddr]

Discover(c) ==
  Await(Sent(SetState([c EXCEPT !.offered = NoAddr], "SELECTING"), "DISCOVER", NoAddr), Doubling)

Select(c) == Await(Sent(SetState(c, "REQUESTING"), "REQUEST", c.offered), Doubling)
Renew(c)  == Await(Sent(SetState(c, "RENEWING"), "REQUEST", c.ip), Renewal)
Rebind(c) == Await(Sent(SetState(c, "REBINDING"), "REQUEST", c.ip), Second)

Release(c) ==
  Down(Await(Sent([SetState(c, "OFF") EXCEPT !.offered = NoAddr, !.lease = Zero],
                 "RELEASE", NoAddr), Second))

\* dhcp_check: an ARP request for the offered address.
Check(c) == Await(SetState(c, "CHECKING"), [n \in Nat \ {0} |-> 500])

Decline(c) ==
  Await(Sent(SetState(c, "BACKING_OFF"), "DECLINE", c.offered), [n \in Nat \ {0} |-> 10000])

Bind(c) ==
  LET t1 == IF c.lease.t1 = 0 THEN 1 ELSE c.lease.t1
      t2 == IF c.lease.t2 = 0 THEN 1 ELSE c.lease.t2
  IN  SetState([c EXCEPT !.timer = [t1 |-> IF t1 >= t2 THEN 0 ELSE t1, t2 |-> t2],
                         !.ip = c.offered, !.up = TRUE], "BOUND")

\* dhcp_timeout
TimedOut(c) ==
  CASE c.state \in {"BACKING_OFF", "SELECTING"} -> Discover(c)
    [] c.state = "REQUESTING" -> IF c.tries <= 5 THEN Select(c) ELSE Discover(Release(c))
    [] c.state = "CHECKING"   -> IF c.tries <= 1 THEN Check(c) ELSE Bind(c)
    [] c.state = "RENEWING"   -> Renew(c)
    [] c.state = "REBINDING"  -> IF c.tries <= 8 THEN Rebind(c) ELSE Discover(Release(c))
    [] OTHER -> c

\* dhcp_fine_tmr
FineTmr(c) ==
  LET d == [c EXCEPT !.timeout = @ - 1]
  IN  IF c.timeout > 1 THEN d ELSE IF c.timeout = 1 THEN TimedOut(d) ELSE c

Leased == {"REQUESTING", "BOUND", "RENEWING"}

\* Mutant: the counters are signed.
DecSigned(n) == n - 1

Dec16(n) == (n - 1) % 65536

\* dhcp_coarse_tmr, dhcp_t1_timeout, dhcp_t2_timeout: the counters are 16 bits wide.
CoarseTmr(c) ==
  LET d == [c EXCEPT !.timer.t2 = Dec16(@)]
      e == [d EXCEPT !.timer.t1 = Dec16(@)]
  IN  IF c.timer.t2 = 1 THEN IF c.state \in Leased THEN Rebind(d) ELSE d
      ELSE IF c.timer.t1 = 1 /\ c.state \in Leased THEN Renew(e) ELSE e

\* dhcp_handle_ack
HandleAck(c, addr, l) == [c EXCEPT !.lease = l, !.offered = addr]

\* dhcp_handle_nak
HandleNak(c) == Discover(SetState(Down(c), "BACKING_OFF"))

-----------------------------------------------------------------------------
(* tcpip_thread                                                            *)

Others == UNCHANGED <<pcb, dpc, ip, created, status, devIp, shown>>

\* Mutant: a reply to an earlier message is taken as well.
MatchesAny(m) == m \in client.sent

\* dhcp_recv compares the transaction identifier of the reply.
Matches(m) == m \in client.sent /\ m.xid = client.xid

Tick ==
  /\ created /\ dpc # "start" /\ polled
  /\ client' = FineTmr(client)
  /\ polled' = (dpc = "done") /\ ticked' = TRUE
  /\ UNCHANGED <<refusals, coarse>> /\ Others

CoarseTick ==
  /\ created /\ dpc # "start" /\ coarse < MaxCoarse /\ coarse' = coarse + 1
  /\ ticked /\ ticked' = FALSE
  /\ client' = CoarseTmr(client)
  /\ UNCHANGED <<polled, refusals>> /\ Others

RecvOffer(m, addr) ==
  /\ pcb /\ Matches(m) /\ m.type = "DISCOVER" /\ client.state = "SELECTING"
  /\ client' = Select([client EXCEPT !.timeout = 0, !.offered = addr])
  /\ UNCHANGED <<polled, ticked, refusals, coarse>> /\ Others

\* The addresses an acknowledgement of m may carry: dhcp_handle_ack takes the one
\* it finds there without comparing it with the one asked for.
Acked(m) == IF ServersAgree THEN {m.addr} ELSE Addr

\* Mutant: the address is not probed.
RecvAckUnchecked(m, addr, l) ==
  /\ pcb /\ Matches(m) /\ m.type = "REQUEST" /\ client.state = "REQUESTING"
  /\ client' = Bind(HandleAck(client, addr, l))
  /\ UNCHANGED <<polled, ticked, refusals, coarse>> /\ Others

RecvAck(m, addr, l) ==
  /\ pcb /\ Matches(m) /\ m.type = "REQUEST" /\ client.state = "REQUESTING"
  /\ client' = Check(HandleAck(client, addr, l))
  /\ UNCHANGED <<polled, ticked, refusals, coarse>> /\ Others

RecvAckRenews(m) ==
  /\ pcb /\ Matches(m) /\ m.type = "REQUEST" /\ client.state \in {"RENEWING", "REBINDING"}
  /\ client' = Bind(client)
  /\ UNCHANGED <<polled, ticked, refusals, coarse>> /\ Others

RecvNak(m) ==
  /\ pcb /\ Matches(m) /\ m.type = "REQUEST"
  /\ client.state \in {"REQUESTING", "RENEWING", "REBINDING"}
  /\ refusals < MaxRefusals /\ refusals' = refusals + 1
  /\ client' = HandleNak(client)
  /\ UNCHANGED <<polled, ticked, coarse>> /\ Others

\* dhcp_arp_reply: another host has the address.
ArpReply ==
  /\ client.state = "CHECKING"
  /\ refusals < MaxRefusals /\ refusals' = refusals + 1
  /\ client' = Decline(client)
  /\ UNCHANGED <<polled, ticked, coarse>> /\ Others

-----------------------------------------------------------------------------
(* lwip_dhcp_task                                                          *)

DhcpGoto(from, to) == dpc = from /\ dpc' = to

\* dhcp_start: it ends before the first tick and before a reply is read.
DhcpStart ==
  /\ DhcpGoto("start", "read")
  /\ pcb' = TRUE /\ client' = Discover(client) /\ status' = 0
  /\ UNCHANGED <<ip, polled, ticked, created, devIp, shown, refusals, coarse>>

DhcpRead ==
  /\ DhcpGoto("read", "test") /\ ip' = client.ip /\ polled' = TRUE
  /\ UNCHANGED <<client, pcb, ticked, created, status, devIp, shown, refusals, coarse>>

DhcpLeased ==
  /\ ip # NoAddr /\ DhcpGoto("test", "copy") /\ status' = 2
  /\ UNCHANGED <<client, pcb, ip, polled, ticked, created, devIp, shown, refusals, coarse>>

DhcpCopy ==
  /\ DhcpGoto("copy", "remove") /\ devIp' = ip
  /\ UNCHANGED <<client, pcb, ip, polled, ticked, created, status, shown, refusals, coarse>>

DhcpGivesUp ==
  /\ ip = NoAddr /\ client.tries > MaxTries /\ DhcpGoto("test", "static") /\ status' = 255
  /\ UNCHANGED <<client, pcb, ip, polled, ticked, created, devIp, shown, refusals, coarse>>

DhcpStatic ==
  /\ DhcpGoto("static", "remove") /\ client' = [client EXCEPT !.ip = devIp]
  /\ UNCHANGED <<pcb, ip, polled, ticked, created, status, devIp, shown, refusals, coarse>>

DhcpDelay ==
  /\ ip = NoAddr /\ client.tries <= MaxTries /\ DhcpGoto("test", "delay")
  /\ UNCHANGED <<client, pcb, ip, polled, ticked, created, status, devIp, shown, refusals, coarse>>

DhcpDelayEnds ==
  /\ DhcpGoto("delay", "read")
  /\ UNCHANGED <<client, pcb, ip, polled, ticked, created, status, devIp, shown, refusals, coarse>>

\* dhcp_stop: udp_remove, then the state; OSTaskDel.
DhcpRemove ==
  /\ DhcpGoto("remove", "off") /\ pcb' = FALSE
  /\ UNCHANGED <<client, ip, polled, ticked, created, status, devIp, shown, refusals, coarse>>

DhcpOff ==
  /\ DhcpGoto("off", "done") /\ client' = SetState(client, "OFF") /\ polled' = TRUE
  /\ UNCHANGED <<pcb, ip, ticked, created, status, devIp, shown, refusals, coarse>>

-----------------------------------------------------------------------------
(* start_task and dhcp_start_task                                          *)

StartTask ==
  /\ ~created /\ created' = TRUE
  /\ UNCHANGED <<client, pcb, dhcpTask, ticked, status, devIp, shown, refusals, coarse>>

\* Mutant: dhcp_start_task is as urgent as lwip_dhcp_task.
ShowsAnytime == TRUE

\* dhcp_start_task (priority 5) runs when lwip_dhcp_task (4) waits or is deleted.
Shows == dpc \in {"delay", "done"}

DhcpStartTask ==
  /\ created /\ Shows /\ status # 0 /\ shown = NoAddr
  /\ shown' = devIp
  /\ UNCHANGED <<client, pcb, dhcpTask, ticked, created, status, devIp, refusals, coarse>>

Tcpip ==
  \/ Tick \/ CoarseTick \/ ArpReply
  \/ \E m \in client.sent :
       \/ \E a \in Addr : RecvOffer(m, a)
       \/ \E a \in Acked(m), l \in Leases : RecvAck(m, a, l)
       \/ RecvAckRenews(m) \/ RecvNak(m)

DhcpTask ==
  \/ DhcpStart \/ DhcpRead \/ DhcpLeased \/ DhcpCopy \/ DhcpGivesUp \/ DhcpStatic
  \/ DhcpDelay \/ DhcpDelayEnds \/ DhcpRemove \/ DhcpOff

SNext == Tcpip \/ DhcpTask \/ StartTask \/ DhcpStartTask

\* Timers and tasks go on; no reply need ever arrive.
SFairness == WF_svars(Tick) /\ WF_svars(DhcpTask) /\ WF_svars(StartTask) /\ WF_svars(DhcpStartTask)

SSpec == SInit /\ [][SNext]_svars /\ SFairness

-----------------------------------------------------------------------------
(* Properties                                                              *)

DhcpStates == {"OFF", "SELECTING", "REQUESTING", "CHECKING", "BACKING_OFF", "BOUND",
           "RENEWING", "REBINDING"}

\* The types of the variables; a timeout fits the 16 bits of request_timeout.
STypeOK ==
  /\ client.state \in DhcpStates /\ client.tries \in Nat /\ client.tries < 256 /\ client.timeout \in Word16
  /\ client.offered \in Addr \cup {NoAddr} /\ client.ip \in Addr \cup {NoAddr, Static}
  /\ client.timer \in [t1 : Word16, t2 : Word16] /\ client.lease \in Leases \cup {Zero}
  /\ client.up \in BOOLEAN /\ client.xid \in Nat
  /\ \A m \in client.sent : m.xid \in 1..client.xid
  /\ {pcb, polled, ticked, created} \subseteq BOOLEAN /\ ip \in Addr \cup {NoAddr}
  /\ dpc \in {"start", "read", "test", "copy", "static", "delay", "remove", "off", "done"}
  /\ status \in {0, 2, 255} /\ devIp \in Addr \cup {Static}
  /\ shown \in Addr \cup {NoAddr, Static}

\* Every lease renewed is one the client has (dhcp.c:1016, 1071).  dhcp_handle_nak
\* leaves the timers of the lease it gives up running: T1 or T2 may come while a new
\* address is being requested, and then the client "renews" the address 0.0.0.0.
RenewsLeases == \A m \in client.sent : m.type = "REQUEST" => m.addr \in Addr

\* A lease is the one asked for last, if servers acknowledge what they are asked
\* for: no late or repeated reply to an earlier request makes the monitor use
\* another address (dhcp.c:1571-1576).
BoundAsRequested ==
  ServersAgree /\ RenewsLeases /\ client.state \in {"CHECKING", "BOUND", "RENEWING", "REBINDING"} =>
    [type |-> "REQUEST", xid |-> client.xid, addr |-> client.offered] \in client.sent

\* The monitor has no address, and so receives no order, before start_task has
\* created the queue for orders: udp_thread posts to it without a look
\* (udp_u.c:80), and start_task sleeps 120 ms first (os_stat.c:214-235).
AddressAfterQueues == client.ip # NoAddr => created

\* The static address never replaces a lease, though the test and the assignment
\* of lwip_dhcp_task (lwip_comm.c:258-262) are apart and tcpip_thread may run
\* between them: the probe of an address takes longer.
LeaseNotOverwritten ==
  [][RenewsLeases /\ client'.ip = Static => client.ip \in {NoAddr, Static}]_svars

\* What is shown is the address in use, although dhcpstatus, which
\* dhcp_start_task watches, is set before the address is copied
\* (lwip_comm.c:239-245).
ShownIsFinal == shown # NoAddr => shown = devIp /\ (status = 2 => devIp = ip)

\* However many messages are lost, and if refusals end, the monitor's tasks are
\* created (task.c:142-147): tries is reset at each change of state, the back-offs are
\* finite and LWIP_MAX_DHCP_TRIES ends the wait.
StartupEnds == <>(shown # NoAddr)

\* Once lwip_dhcp_task has ended, the monitor has an address and its interface
\* is up: "the static IP address is used" (lwip_comm.c:261).
AddressUsable == dpc = "done" => client.ip # NoAddr /\ client.up
=============================================================================
