--------------------------- MODULE StartupProofs ---------------------------
(***************************************************************************)
(* Theorems about module Startup for any leases, addresses and bounds: no  *)
(* order is received before its queue exists, the address shown is the one *)
(* in use, a lease is the one asked for, and the static address replaces   *)
(* none.                                                                   *)
(***************************************************************************)
EXTENDS Startup, TLAPS

-----------------------------------------------------------------------------
(* The client: its fields and their types                                  *)

Fields == {"state", "tries", "timeout", "xid", "offered", "lease", "timer", "ip", "up", "sent"}

\* The states of a client that has a lease.
Leasing == {"BOUND", "RENEWING", "REBINDING"}

\* What the client sends.
DhcpMsg == [type : {"DISCOVER", "REQUEST", "RELEASE", "DECLINE"}, xid : Nat \ {0},
            addr : Addr \cup {NoAddr, Static}]

\* The timers of a lease.
Times == [t1 : Word16, t2 : Word16]

\* The types of the fields.
Client(c) ==
  /\ DOMAIN c = Fields
  /\ c.state \in DhcpStates /\ c.tries \in Nat /\ c.timeout \in Nat /\ c.timeout <= 120 /\ c.xid \in Nat
  /\ c.offered \in Addr \cup {NoAddr} /\ c.ip \in Addr \cup {NoAddr, Static}
  /\ c.lease \in Leases \cup {Zero} /\ c.timer \in Times
  /\ c.up \in BOOLEAN /\ c.sent \in SUBSET DhcpMsg

\* c is a client whose messages bear identifiers it has used.
Sound(c) ==
  /\ Client(c) /\ \A m \in c.sent : m.xid <= c.xid
  /\ c.tries # 0 => c.xid # 0

\* A lease, or none, has timers of 16 bits.
LEMMA LeaseTimes == Leases \cup {Zero} \subseteq Times
<1>1. Zero \in Times
  BY DEF Times, Zero, Word16
<1> QED
  BY <1>1, StartupAssumption DEF Times

\* The number of tries after one in state s.
Tries(c, s) == IF c.state = s THEN c.tries + 1 ELSE 1

\* d has the addresses of c.
Keeps(c, d) == d.ip = c.ip /\ d.offered = c.offered

\* dhcp_set_state
LEMMA SetStateEffect ==
  ASSUME NEW c, Sound(c), NEW s \in DhcpStates
  PROVE  /\ Sound(SetState(c, s)) /\ SetState(c, s).state = s
         /\ SetState(c, s).tries = Tries(c, s) - 1
         /\ SetState(c, s).xid = c.xid /\ SetState(c, s).sent = c.sent /\ Keeps(c, SetState(c, s))
  BY DEF SetState, Sound, Client, Fields, Tries, Keeps

\* d is c after a message of that type with that address.
Posts(c, d, type, a) ==
  /\ Sound(d) /\ d.xid # 0 /\ d.state = c.state /\ d.tries = c.tries /\ Keeps(c, d)
  /\ d.sent = c.sent \cup {[type |-> type, xid |-> d.xid, addr |-> a]}
  /\ d.xid = IF c.tries = 0 THEN c.xid + 1 ELSE c.xid

\* dhcp_create_msg: a new identifier for a first try, the same for the others.
LEMMA SentEffect ==
  ASSUME NEW c, Sound(c), NEW type \in {"DISCOVER", "REQUEST", "RELEASE", "DECLINE"},
         NEW a \in Addr \cup {NoAddr, Static}
  PROVE  Posts(c, Sent(c, type, a), type, a)
<1> DEFINE x == IF c.tries = 0 THEN c.xid + 1 ELSE c.xid
           m == [type |-> type, xid |-> x, addr |-> a]
           d == [c EXCEPT !.xid = x, !.sent = @ \cup {m}]
<1>1. Client(c) /\ x \in Nat \ {0} /\ c.xid <= x /\ c.xid \in Nat /\ m \in DhcpMsg
  BY DEF Sound, Client, Fields, DhcpMsg
<1>2. \A k \in c.sent : k.xid <= x
  <2>1. ASSUME NEW k \in c.sent PROVE k.xid \in Nat /\ k.xid <= c.xid
    BY DEF Sound, Client, DhcpMsg
  <2> QED
    BY <1>1, <2>1
<1>3. Sent(c, type, a) = d /\ m.xid = x
  BY DEF Sent
<1> HIDE DEF x, m
<1>4. /\ Client(d) /\ d.xid = x /\ d.state = c.state /\ d.tries = c.tries /\ Keeps(c, d)
      /\ d.sent = c.sent \cup {m}
  BY <1>1 DEF Client, Fields, Keeps
<1> HIDE DEF d
<1>5. Sound(d)
  BY <1>1, <1>2, <1>3, <1>4 DEF Sound
<1> QED
  BY <1>1, <1>3, <1>4, <1>5 DEF m, x, Posts

\* Milliseconds for each number of tries.
Millis == [Nat \ {0} -> {t \in Nat : t <= 60000}]

\* d is c one try later.
Awaits(c, d) ==
  /\ Sound(d) /\ d.xid = c.xid /\ d.state = c.state /\ d.tries = c.tries + 1
  /\ Keeps(c, d) /\ d.sent = c.sent

\* A timeout is at most 120 calls of dhcp_fine_tmr, a minute.
LEMMA AwaitEffect ==
  ASSUME NEW c, Sound(c), c.xid # 0, NEW f \in Millis
  PROVE  Awaits(c, Await(c, f))
<1> DEFINE n == c.tries + 1
           t == (f[n] + 499) \div 500
           d == [c EXCEPT !.tries = @ + 1, !.timeout = t]
<1>1. Client(c) /\ n \in Nat \ {0}
  BY DEF Sound, Client, Fields
<1>2. Await(c, f) = d
  BY DEF Await
<1> HIDE DEF n
<1>3. f[n] \in Nat /\ f[n] <= 60000
  BY <1>1 DEF Millis
<1>4. t \in Nat /\ t <= 120
  <2> DEFINE k == f[n]
  <2>1. k \in Nat /\ k <= 60000
    BY <1>3
  <2> HIDE DEF k
  <2>2. (k + 499) \div 500 \in Nat /\ (k + 499) \div 500 <= 120
    BY <2>1
  <2> QED
    BY <2>2 DEF k
<1> HIDE DEF t
<1>5. /\ Client(d) /\ d.xid = c.xid /\ d.state = c.state /\ d.tries = n /\ Keeps(c, d)
      /\ d.sent = c.sent
  BY <1>1, <1>4 DEF Client, Fields, Keeps, n
<1> QED
  BY <1>2, <1>5 DEF Sound, Awaits, n

\* A message in state s.
Try(c, s, type, a, f) == Await(Sent(SetState(c, s), type, a), f)

\* d is c after such a message.
Tried(c, d, s, type, a) ==
  /\ Sound(d) /\ d.xid # 0 /\ d.state = s /\ d.tries = Tries(c, s) /\ Keeps(c, d)
  /\ d.sent = c.sent \cup {[type |-> type, xid |-> d.xid, addr |-> a]}
  /\ d.xid = IF c.state # s \/ c.tries = 0 THEN c.xid + 1 ELSE c.xid

\* A message in state s is sent, awaited and counted.
LEMMA TryEffect ==
  ASSUME NEW c, Sound(c), NEW s \in DhcpStates, NEW f \in Millis,
         NEW type \in {"DISCOVER", "REQUEST", "RELEASE", "DECLINE"},
         NEW a \in Addr \cup {NoAddr, Static}
  PROVE  Tried(c, Try(c, s, type, a, f), s, type, a)
<1> DEFINE b == SetState(c, s)
           d == Sent(b, type, a)
<1>1. /\ Sound(b) /\ b.state = s /\ b.tries = Tries(c, s) - 1
      /\ b.xid = c.xid /\ b.sent = c.sent /\ Keeps(c, b)
  BY SetStateEffect
<1>2. Try(c, s, type, a, f) = Await(d, f)
  BY DEF Try
<1> HIDE DEF b
<1>3. Posts(b, d, type, a)
  BY <1>1, SentEffect
<1> HIDE DEF d
<1>4. Awaits(d, Await(d, f))
  BY <1>3, AwaitEffect DEF Posts
<1>5. c.tries \in Nat
  BY DEF Sound, Client, Fields
<1> QED
  BY <1>1, <1>2, <1>3, <1>4, <1>5 DEF Tried, Keeps, Tries, Posts, Awaits

-----------------------------------------------------------------------------
(* What each handler makes of a client that keeps to its invariant         *)

\* Every REQUEST of c asks for an address of a server.
Renews(c) == \A m \in c.sent : m.type = "REQUEST" => m.addr \in Addr

\* c asked last for the address it was offered.
Requested(c) == [type |-> "REQUEST", xid |-> c.xid, addr |-> c.offered] \in c.sent

\* The address offered is one of a server, and the one asked for last if servers
\* acknowledge no other.
Answered(c) == c.offered \in Addr /\ (ServersAgree => Requested(c))

\* The requests an answer is taken to: they are for the address it was offered.
AskedFor(c) == \A m \in c.sent : m.type = "REQUEST" /\ m.xid = c.xid => m.addr = c.offered

\* What the client keeps to, between two calls.
ClientInv(c) ==
  /\ Sound(c)
  /\ c.state # "OFF" => c.xid # 0
  /\ c.tries = 0 <=> c.state \in {"OFF", "BOUND"}
  /\ c.state = "CHECKING" => c.tries <= 2
  /\ c.state = "REQUESTING" => AskedFor(c)
  /\ Renews(c) =>
       /\ c.state \in {"REQUESTING", "CHECKING"} \cup Leasing => Answered(c)
       /\ c.state \in Leasing => c.ip = c.offered
       /\ c.state \notin {"OFF"} \cup Leasing => c.ip \notin Addr

\* c became d, in state s after n tries.
Goes(c, d, s, n) ==
  /\ ClientInv(d) /\ d.state = s /\ d.tries = n /\ c.sent \subseteq d.sent
  /\ d.ip = Static => c.ip = Static

\* A change before it that keeps address and messages is part of it.
LEMMA GoesTwice ==
  ASSUME NEW b, NEW c, NEW d, NEW s, NEW n, Goes(c, d, s, n),
         b.sent \subseteq c.sent, c.ip = Static => b.ip = Static
  PROVE  Goes(b, d, s, n)
  BY DEF Goes

\* A client that asks for no other address never did.
LEMMA RenewsBefore ==
  ASSUME NEW c, NEW d, c.sent \subseteq d.sent, Renews(d)
  PROVE  Renews(c)
  BY DEF Renews

\* After a message the client keeps to the invariant if the address is right.
LEMMA NewState ==
  ASSUME NEW c, NEW d, NEW s \in DhcpStates \ {"OFF", "BOUND", "CHECKING"}, NEW type, NEW a,
         Sound(c), Tried(c, d, s, type, a),
         s = "REQUESTING" => AskedFor(d),
         Renews(d) /\ s \in {"REQUESTING"} \cup Leasing => Requested(d),
         Renews(d) /\ s \in Leasing => d.ip = d.offered,
         Renews(d) /\ s \notin Leasing => d.ip \notin Addr
  PROVE  Goes(c, d, s, Tries(c, s))
<1>1. /\ Sound(d) /\ d.xid # 0 /\ d.state = s /\ d.tries = Tries(c, s) /\ c.sent \subseteq d.sent
      /\ d.ip = c.ip
  BY DEF Tried, Keeps
<1>2. Tries(c, s) # 0
  BY DEF Tries, Sound, Client
<1>3. ClientInv(d)
  <2>1. Renews(d) /\ Requested(d) => d.offered \in Addr
    BY DEF Renews, Requested
  <2> QED
    BY <1>1, <1>2, <2>1 DEF ClientInv, Answered, DhcpStates, Leasing
<1> QED
  BY <1>1, <1>3 DEF Goes

\* The timeouts of the source are at most a minute.
LEMMA Intervals == /\ Doubling \in Millis /\ Renewal \in Millis /\ Second \in Millis
                   /\ [n \in Nat \ {0} |-> 500] \in Millis /\ [n \in Nat \ {0} |-> 10000] \in Millis
<1>1. ASSUME NEW n \in Nat \ {0}, n < 6
      PROVE  <<2, 4, 8, 16, 32>>[n] * 1000 \in Nat /\ <<2, 4, 8, 16, 32>>[n] * 1000 <= 60000
  <2>1. n = 1 \/ n = 2 \/ n = 3 \/ n = 4 \/ n = 5
    BY <1>1
  <2> QED
    BY <2>1
<1>2. Doubling \in Millis
  <2> DEFINE f(n) == IF n < 6 THEN <<2, 4, 8, 16, 32>>[n] * 1000 ELSE 60000
  <2>1. \A n \in Nat \ {0} : f(n) \in Nat /\ f(n) <= 60000
    BY <1>1
  <2>2. Doubling = [n \in Nat \ {0} |-> f(n)]
    BY DEF Doubling
  <2> HIDE DEF f
  <2> QED
    BY <2>1, <2>2 DEF Millis
<1>3. Renewal \in Millis
  BY DEF Renewal, Millis
<1>4. Second \in Millis
  BY DEF Second, Millis
<1> QED
  BY <1>2, <1>3, <1>4 DEF Millis

\* dhcp_discover
LEMMA DiscoverStep ==
  ASSUME NEW c, Sound(c), Renews(c) => c.ip \notin Addr
  PROVE  Goes(c, Discover(c), "SELECTING", Tries(c, "SELECTING"))
<1> DEFINE b == [c EXCEPT !.offered = NoAddr]
           d == Try(b, "SELECTING", "DISCOVER", NoAddr, Doubling)
<1>1. Discover(c) = d
  BY DEF Discover, Try
<1>2. Sound(b) /\ b.ip = c.ip /\ b.sent = c.sent /\ b.tries = c.tries /\ b.state = c.state
  BY DEF Sound, Client, Fields
<1> HIDE DEF b
<1>3. Tried(b, d, "SELECTING", "DISCOVER", NoAddr)
  BY <1>2, Intervals, TryEffect DEF DhcpStates
<1> HIDE DEF d
<1>4. b.sent \subseteq d.sent /\ d.ip = b.ip
  BY <1>3 DEF Tried, Keeps
<1>5. Goes(b, d, "SELECTING", Tries(b, "SELECTING"))
  BY <1>2, <1>3, <1>4, NewState, RenewsBefore DEF Leasing, DhcpStates
<1> QED
  BY <1>1, <1>2, <1>5 DEF Goes, Tries

\* dhcp_select: the request is for the address offered.
LEMMA SelectStep ==
  ASSUME NEW c, Sound(c), Renews(c) => c.ip \notin Addr, c.state = "REQUESTING" => AskedFor(c)
  PROVE  Goes(c, Select(c), "REQUESTING", Tries(c, "REQUESTING"))
<1> DEFINE d == Try(c, "REQUESTING", "REQUEST", c.offered, Doubling)
<1>1. Select(c) = d
  BY DEF Select, Try
<1>2. c.offered \in Addr \cup {NoAddr, Static}
  BY DEF Sound, Client
<1>3. Tried(c, d, "REQUESTING", "REQUEST", c.offered)
  BY <1>2, Intervals, TryEffect DEF DhcpStates
<1> HIDE DEF d
<1>4. c.sent \subseteq d.sent /\ d.ip = c.ip /\ Requested(d)
  BY <1>3 DEF Tried, Keeps, Requested
<1>5. AskedFor(d)
  <2>1. ASSUME NEW m \in c.sent, m.type = "REQUEST", m.xid = d.xid
        PROVE  m.addr = c.offered
    <3>1. m.xid <= c.xid /\ c.xid \in Nat /\ m.xid \in Nat
      BY DEF Sound, Client, DhcpMsg
    <3>2. c.state = "REQUESTING" /\ d.xid = c.xid
      BY <1>3, <2>1, <3>1 DEF Tried
    <3> QED
      BY <2>1, <3>2 DEF AskedFor
  <2> QED
    BY <1>3, <2>1 DEF Tried, Keeps, AskedFor
<1> QED
  BY <1>1, <1>3, <1>4, <1>5, NewState, RenewsBefore DEF Leasing, DhcpStates

\* A renewal asks for the address in use: it is that of a lease, or none at all.
LEMMA RenewalStep ==
  ASSUME NEW c, ClientInv(c), c.state # "OFF", NEW s \in {"RENEWING", "REBINDING"},
         NEW f \in Millis
  PROVE  /\ Goes(c, Try(c, s, "REQUEST", c.ip, f), s, Tries(c, s))
         /\ Renews(Try(c, s, "REQUEST", c.ip, f)) => c.ip \in Addr
<1> DEFINE d == Try(c, s, "REQUEST", c.ip, f)
<1>1. Sound(c) /\ c.ip \in Addr \cup {NoAddr, Static}
  BY DEF ClientInv, Sound, Client
<1>2. Tried(c, d, s, "REQUEST", c.ip)
  BY <1>1, TryEffect DEF DhcpStates
<1> HIDE DEF d
<1>3. c.sent \subseteq d.sent /\ Keeps(c, d)
  BY <1>2 DEF Tried
<1>4. ASSUME Renews(d)
      PROVE  Requested(d) /\ d.ip = d.offered /\ c.ip \in Addr
  <2> DEFINE m == [type |-> "REQUEST", xid |-> d.xid, addr |-> c.ip]
  <2>1. m \in d.sent /\ m.type = "REQUEST" /\ m.addr = c.ip
    BY <1>2 DEF Tried
  <2>2. c.ip \in Addr
    BY <1>4, <2>1 DEF Renews
  <2>3. c.ip = c.offered
    BY <1>3, <1>4, <2>2, RenewsBefore DEF ClientInv
  <2> QED
    BY <1>3, <2>1, <2>2, <2>3 DEF Keeps, Requested
<1>5. s \in Leasing /\ s \in DhcpStates \ {"OFF", "BOUND", "CHECKING"}
  BY DEF Leasing, DhcpStates
<1>6. /\ Renews(d) /\ s \in {"REQUESTING"} \cup Leasing => Requested(d)
      /\ Renews(d) /\ s \in Leasing => d.ip = d.offered
      /\ Renews(d) /\ s \notin Leasing => d.ip \notin Addr
  BY <1>4, <1>5
<1> QED
  BY <1>1, <1>2, <1>4, <1>5, <1>6, NewState DEF d

\* dhcp_renew
LEMMA RenewStep ==
  ASSUME NEW c, ClientInv(c), c.state # "OFF"
  PROVE  /\ Goes(c, Renew(c), "RENEWING", Tries(c, "RENEWING"))
         /\ Renews(Renew(c)) => c.ip \in Addr
  BY RenewalStep, Intervals DEF Renew, Try

\* dhcp_rebind
LEMMA RebindStep ==
  ASSUME NEW c, ClientInv(c), c.state # "OFF"
  PROVE  /\ Goes(c, Rebind(c), "REBINDING", Tries(c, "REBINDING"))
         /\ Renews(Rebind(c)) => c.ip \in Addr
  BY RenewalStep, Intervals DEF Rebind, Try

\* dhcp_decline
LEMMA DeclineStep ==
  ASSUME NEW c, Sound(c), Renews(c) => c.ip \notin Addr
  PROVE  Goes(c, Decline(c), "BACKING_OFF", Tries(c, "BACKING_OFF"))
<1> DEFINE f == [n \in Nat \ {0} |-> 10000]
           d == Try(c, "BACKING_OFF", "DECLINE", c.offered, f)
<1>1. Decline(c) = d
  BY DEF Decline, Try
<1>2. c.offered \in Addr \cup {NoAddr, Static}
  BY DEF Sound, Client
<1>3. Tried(c, d, "BACKING_OFF", "DECLINE", c.offered)
  BY <1>2, Intervals, TryEffect DEF DhcpStates
<1> HIDE DEF d
<1>4. c.sent \subseteq d.sent /\ d.ip = c.ip
  BY <1>3 DEF Tried, Keeps
<1> QED
  BY <1>1, <1>3, <1>4, NewState, RenewsBefore DEF Leasing, DhcpStates

\* dhcp_check
LEMMA CheckStep ==
  ASSUME NEW c, Sound(c), c.xid # 0, c.state # "CHECKING" \/ c.tries <= 1,
         Renews(c) => Answered(c) /\ c.ip \notin Addr
  PROVE  Goes(c, Check(c), "CHECKING", Tries(c, "CHECKING"))
<1> DEFINE f == [n \in Nat \ {0} |-> 500]
           b == SetState(c, "CHECKING")
           d == Await(b, f)
<1>1. Check(c) = d
  BY DEF Check
<1>2. /\ Sound(b) /\ b.state = "CHECKING" /\ b.tries = Tries(c, "CHECKING") - 1
      /\ b.xid = c.xid /\ b.sent = c.sent /\ Keeps(c, b)
  BY SetStateEffect DEF DhcpStates
<1> HIDE DEF b
<1>3. Awaits(b, d)
  BY <1>2, Intervals, AwaitEffect
<1> HIDE DEF d
<1>4. c.tries \in Nat
  BY DEF Sound, Client
<1>5. /\ Sound(d) /\ d.state = "CHECKING" /\ d.tries = Tries(c, "CHECKING")
      /\ d.xid = c.xid /\ d.sent = c.sent /\ Keeps(c, d)
  BY <1>2, <1>3, <1>4 DEF Awaits, Keeps, Tries
<1>6. d.tries # 0 /\ d.tries <= 2
  BY <1>4, <1>5 DEF Tries
<1>7. Renews(d) => Answered(d) /\ d.ip \notin Addr
  BY <1>5 DEF Renews, Answered, Requested, Keeps
<1>8. ClientInv(d)
  BY <1>5, <1>6, <1>7 DEF ClientInv, Leasing
<1> QED
  BY <1>1, <1>5, <1>8 DEF Goes, Keeps

\* dhcp_bind
LEMMA BindStep ==
  ASSUME NEW c, ClientInv(c), c.state \in {"CHECKING", "RENEWING", "REBINDING"}
  PROVE  Goes(c, Bind(c), "BOUND", 0)
<1> DEFINE t1 == IF c.lease.t1 = 0 THEN 1 ELSE c.lease.t1
           t2 == IF c.lease.t2 = 0 THEN 1 ELSE c.lease.t2
           t == [t1 |-> IF t1 >= t2 THEN 0 ELSE t1, t2 |-> t2]
           b == [c EXCEPT !.timer = t, !.ip = c.offered, !.up = TRUE]
           d == SetState(b, "BOUND")
<1>1. Bind(c) = d
  BY DEF Bind
<1>2. Client(c) /\ Sound(c)
  BY DEF ClientInv, Sound
<1>3. t \in Times
  <2>1. c.lease \in Times
    BY <1>2, LeaseTimes DEF Client
  <2>2. t1 \in Word16 /\ t2 \in Word16 /\ 0 \in Word16
    BY <2>1 DEF Times, Word16
  <2> HIDE DEF t1, t2
  <2> QED
    BY <2>2 DEF Times
<1> HIDE DEF t
<1>4. /\ Sound(b) /\ b.state = c.state /\ b.xid = c.xid /\ b.offered = c.offered
      /\ b.ip = c.offered /\ b.sent = c.sent
  BY <1>2, <1>3 DEF Sound, Client, Fields
<1> HIDE DEF b
<1>5. /\ Sound(d) /\ d.state = "BOUND" /\ d.tries = 0
      /\ d.xid = c.xid /\ d.sent = c.sent /\ d.offered = c.offered /\ d.ip = c.offered
  BY <1>4, SetStateEffect DEF Keeps, DhcpStates, Tries
<1> HIDE DEF d
<1>6. ClientInv(d)
  BY <1>5 DEF ClientInv, Leasing, Renews, Answered, Requested
<1>7. d.ip # Static
  BY <1>2, <1>5, StartupAssumption DEF Client
<1> QED
  BY <1>1, <1>5, <1>6, <1>7 DEF Goes

\* netif_set_down
LEMMA DownKeeps ==
  ASSUME NEW c, Sound(c)
  PROVE  /\ Sound(Down(c)) /\ Down(c).ip = NoAddr /\ Down(c).state = c.state
         /\ Down(c).sent = c.sent /\ Down(c).xid = c.xid
  BY DEF Down, Sound, Client, Fields

\* dhcp_handle_nak
LEMMA NakStep ==
  ASSUME NEW c, Sound(c)
  PROVE  Goes(c, HandleNak(c), "SELECTING", 1)
<1> DEFINE b == Down(c)
           d == SetState(b, "BACKING_OFF")
<1>1. Sound(b) /\ b.ip = NoAddr /\ b.sent = c.sent
  BY DownKeeps
<1>2. HandleNak(c) = Discover(d)
  BY DEF HandleNak
<1> HIDE DEF b
<1>3. Sound(d) /\ d.ip = NoAddr /\ d.sent = c.sent /\ d.state = "BACKING_OFF"
  BY <1>1, SetStateEffect DEF Keeps, DhcpStates
<1> HIDE DEF d
<1>4. Goes(d, Discover(d), "SELECTING", Tries(d, "SELECTING"))
  BY <1>3, DiscoverStep, StartupAssumption
<1> QED
  BY <1>2, <1>3, <1>4, StartupAssumption DEF Goes, Tries

\* dhcp_release and dhcp_discover
LEMMA ReleaseStep ==
  ASSUME NEW c, Sound(c)
  PROVE  Goes(c, Discover(Release(c)), "SELECTING", 1)
<1> DEFINE a == SetState(c, "OFF")
           b == [a EXCEPT !.offered = NoAddr, !.lease = Zero]
           e == Sent(b, "RELEASE", NoAddr)
           g == Await(e, Second)
           d == Down(g)
<1>1. Release(c) = d
  BY DEF Release
<1>2. Sound(a) /\ a.sent = c.sent /\ a.state = "OFF"
  BY SetStateEffect DEF DhcpStates
<1> HIDE DEF a
<1>3. Sound(b) /\ b.sent = c.sent /\ b.state = "OFF"
  BY <1>2 DEF Sound, Client, Fields
<1> HIDE DEF b
<1>4. Posts(b, e, "RELEASE", NoAddr)
  BY <1>3, SentEffect
<1> HIDE DEF e
<1>5. Awaits(e, g)
  BY <1>4, Intervals, AwaitEffect DEF Posts
<1> HIDE DEF g
<1>6. Sound(g) /\ c.sent \subseteq g.sent /\ g.state = "OFF"
  BY <1>3, <1>4, <1>5 DEF Posts, Awaits
<1>7. Sound(d) /\ d.ip = NoAddr /\ c.sent \subseteq d.sent /\ d.state = "OFF"
  BY <1>6, DownKeeps
<1> HIDE DEF d
<1>8. Goes(d, Discover(d), "SELECTING", Tries(d, "SELECTING"))
  BY <1>7, DiscoverStep, StartupAssumption
<1> QED
  BY <1>1, <1>7, <1>8, StartupAssumption DEF Goes, Tries

-----------------------------------------------------------------------------
(* The timers                                                              *)

\* c became d by a timer: neither is off unless both are.
ByTimer(c, d) ==
  /\ ClientInv(d) /\ c.sent \subseteq d.sent /\ (d.ip = Static => c.ip = Static)
  /\ c.state = "OFF" <=> d.state = "OFF"
  /\ d.tries <= c.tries + 1

\* A timeout binds an address only when it was probed twice.
ByTimeout(c, d) ==
  /\ ByTimer(c, d)
  /\ d.state \in Leasing =>
       c.state \in Leasing \/ (c.state = "CHECKING" /\ c.tries = 2 /\ d.tries = 0)
  /\ d.state = "CHECKING" => c.state = "CHECKING"

\* dhcp_timeout
LEMMA TimedOutStep ==
  ASSUME NEW c, ClientInv(c)
  PROVE  ByTimeout(c, TimedOut(c))
<1> DEFINE d == TimedOut(c)
<1>1. /\ Sound(c) /\ c.tries \in Nat /\ c.state \in DhcpStates
      /\ c.state # "OFF" => c.xid # 0
      /\ c.tries = 0 <=> c.state \in {"OFF", "BOUND"}
      /\ c.state = "CHECKING" => c.tries <= 2
      /\ c.state = "REQUESTING" => AskedFor(c)
      /\ c.state \notin {"OFF"} \cup Leasing => (Renews(c) => c.ip \notin Addr)
      /\ c.state \in {"REQUESTING", "CHECKING"} => (Renews(c) => Answered(c))
  BY DEF ClientInv, Sound, Client
<1>2. ASSUME NEW s, Goes(c, d, s, 1) \/ Goes(c, d, s, c.tries + 1), c.state # "OFF",
             s \in {"SELECTING", "REQUESTING"} \/ s = c.state
      PROVE  ByTimeout(c, d)
  BY <1>1, <1>2 DEF Goes, ByTimer, Leasing, ByTimeout
<1>3. CASE c.state \in {"BACKING_OFF", "SELECTING"}
  <2>1. d = Discover(c)
    BY <1>3 DEF TimedOut
  <2>2. Goes(c, d, "SELECTING", Tries(c, "SELECTING"))
    BY <1>1, <1>3, <2>1, DiscoverStep DEF Leasing
  <2> QED
    BY <1>2, <1>3, <2>2 DEF Tries
<1>4. CASE c.state = "REQUESTING" /\ c.tries <= 5
  <2>1. d = Select(c)
    BY <1>4 DEF TimedOut
  <2>2. Goes(c, d, "REQUESTING", Tries(c, "REQUESTING"))
    BY <1>1, <1>4, <2>1, SelectStep DEF Leasing
  <2> QED
    BY <1>2, <1>4, <2>2 DEF Tries
<1>5. CASE \/ c.state = "REQUESTING" /\ ~(c.tries <= 5)
           \/ c.state = "REBINDING" /\ ~(c.tries <= 8)
  <2>1. d = Discover(Release(c))
    BY <1>5 DEF TimedOut
  <2>2. Goes(c, d, "SELECTING", 1)
    BY <1>1, <2>1, ReleaseStep
  <2> QED
    BY <1>2, <1>5, <2>2
<1>6. CASE c.state = "CHECKING" /\ c.tries <= 1
  <2>1. d = Check(c)
    BY <1>6 DEF TimedOut
  <2>2. Goes(c, d, "CHECKING", Tries(c, "CHECKING"))
    BY <1>1, <1>6, <2>1, CheckStep DEF Leasing
  <2> QED
    BY <1>2, <1>6, <2>2 DEF Tries
<1>7. CASE c.state = "CHECKING" /\ ~(c.tries <= 1)
  <2>1. d = Bind(c)
    BY <1>7 DEF TimedOut
  <2>2. Goes(c, d, "BOUND", 0) /\ c.tries = 2
    BY <1>1, <1>7, <2>1, BindStep
  <2> QED
    BY <1>1, <1>7, <2>2 DEF Goes, ByTimer, ByTimeout
<1>8. CASE c.state = "RENEWING"
  <2>1. d = Renew(c)
    BY <1>8 DEF TimedOut
  <2>2. Goes(c, d, "RENEWING", Tries(c, "RENEWING"))
    BY <1>8, <2>1, RenewStep
  <2> QED
    BY <1>2, <1>8, <2>2 DEF Tries
<1>9. CASE c.state = "REBINDING" /\ c.tries <= 8
  <2>1. d = Rebind(c)
    BY <1>9 DEF TimedOut
  <2>2. Goes(c, d, "REBINDING", Tries(c, "REBINDING"))
    BY <1>9, <2>1, RebindStep
  <2> QED
    BY <1>2, <1>9, <2>2 DEF Tries
<1>10. CASE c.state \in {"OFF", "BOUND"}
  <2>1. d = c
    BY <1>10 DEF TimedOut
  <2> QED
    BY <1>1, <1>10, <2>1 DEF ByTimer, Leasing, ByTimeout
<1>11. c.state \in {"BACKING_OFF", "SELECTING", "REQUESTING", "CHECKING", "RENEWING", "REBINDING",
                    "OFF", "BOUND"}
  BY <1>1 DEF DhcpStates
<1> QED
  BY <1>3, <1>4, <1>5, <1>6, <1>7, <1>8, <1>9, <1>10, <1>11

\* d is c but for its timeout and its timers.
Same(c, d) ==
  /\ d.state = c.state /\ d.tries = c.tries /\ d.xid = c.xid /\ d.offered = c.offered
  /\ d.lease = c.lease /\ d.ip = c.ip /\ d.up = c.up /\ d.sent = c.sent

\* Timers and timeouts are no concern of the invariant.
LEMMA CountsDown ==
  ASSUME NEW c, ClientInv(c), NEW d, DOMAIN d = Fields,
         Same(c, d),
         d.timeout \in Nat /\ d.timeout <= 120, d.timer \in Times
  PROVE  /\ ClientInv(d) /\ d.state = c.state /\ d.tries = c.tries /\ d.ip = c.ip
         /\ d.sent = c.sent
<1>1. Sound(d)
  BY DEF ClientInv, Sound, Client, Same
<1>2. (Renews(d) <=> Renews(c)) /\ (Answered(d) <=> Answered(c)) /\ (AskedFor(d) <=> AskedFor(c))
  BY DEF Renews, Answered, Requested, AskedFor, Same
<1> QED
  BY <1>1, <1>2 DEF ClientInv, Same

\* dhcp_fine_tmr
LEMMA FineStep ==
  ASSUME NEW c, ClientInv(c)
  PROVE  ByTimeout(c, FineTmr(c))
<1> DEFINE d == [c EXCEPT !.timeout = @ - 1]
<1>1. Client(c) /\ c.tries \in Nat
  BY DEF ClientInv, Sound, Client
<1>2. ByTimeout(c, c)
  BY <1>1 DEF ByTimer, ByTimeout
<1>3. FineTmr(c) = IF c.timeout > 1 THEN d ELSE IF c.timeout = 1 THEN TimedOut(d) ELSE c
  BY DEF FineTmr
<1>4. ASSUME c.timeout >= 1
      PROVE  /\ ClientInv(d) /\ d.state = c.state /\ d.tries = c.tries /\ d.ip = c.ip
             /\ d.sent = c.sent
  <2>1. /\ DOMAIN d = Fields /\ Same(c, d)
        /\ d.timeout \in Nat /\ d.timeout <= 120 /\ d.timer \in Times
    BY <1>1, <1>4 DEF Client, Fields, Same
  <2> HIDE DEF d
  <2> QED
    BY <2>1, CountsDown
<1> HIDE DEF d
<1>5. CASE c.timeout > 1
  BY <1>1, <1>3, <1>4, <1>5 DEF ByTimer, ByTimeout, Client
<1>6. CASE c.timeout = 1
  <2>1. FineTmr(c) = TimedOut(d)
    BY <1>3, <1>6
  <2> QED
    BY <1>4, <1>6, <2>1, TimedOutStep DEF ByTimer, ByTimeout
<1>7. CASE ~(c.timeout >= 1)
  BY <1>1, <1>2, <1>3, <1>7 DEF Client
<1> QED
  BY <1>1, <1>5, <1>6, <1>7 DEF Client

\* dhcp_coarse_tmr changes the state for one of a renewal only, of the lease in use
\* if every renewal is.
LEMMA CoarseStep ==
  ASSUME NEW c, ClientInv(c)
  PROVE  LET d == CoarseTmr(c)
         IN  /\ ByTimer(c, d)
             /\ \/ d.state = c.state /\ d.tries = c.tries
                \/ d.state \in {"RENEWING", "REBINDING"}
             /\ Renews(d) /\ d.state \in Leasing => c.state \in Leasing
<1> DEFINE d == [c EXCEPT !.timer.t2 = Dec16(@)]
           e == [d EXCEPT !.timer.t1 = Dec16(@)]
           g == CoarseTmr(c)
<1>1. Client(c) /\ c.timer \in Times /\ c.tries \in Nat
  BY DEF ClientInv, Sound, Client
<1>2. \A n \in Word16 : Dec16(n) \in Word16
  BY DEF Word16, Dec16
<1>3. /\ ClientInv(d) /\ d.state = c.state /\ d.tries = c.tries /\ d.ip = c.ip
      /\ d.sent = c.sent
  <2>1. [c.timer EXCEPT !.t2 = Dec16(@)] \in Times
    BY <1>1, <1>2 DEF Times
  <2>2. /\ DOMAIN d = Fields /\ Same(c, d)
        /\ d.timeout \in Nat /\ d.timeout <= 120 /\ d.timer = [c.timer EXCEPT !.t2 = Dec16(@)]
    BY <1>1 DEF Client, Fields, Same
  <2> HIDE DEF d
  <2> QED
    BY <2>1, <2>2, CountsDown
<1>4. /\ ClientInv(e) /\ e.state = c.state /\ e.tries = c.tries /\ e.ip = c.ip
      /\ e.sent = c.sent
  <2>1. Client(d)
    BY <1>3 DEF ClientInv, Sound
  <2> HIDE DEF d
  <2>2. [d.timer EXCEPT !.t1 = Dec16(@)] \in Times
    BY <2>1, <1>2 DEF Times, Client
  <2>3. /\ DOMAIN e = Fields /\ Same(d, e)
        /\ e.timeout \in Nat /\ e.timeout <= 120 /\ e.timer = [d.timer EXCEPT !.t1 = Dec16(@)]
    BY <2>1 DEF Client, Fields, Same
  <2> HIDE DEF e
  <2> QED
    BY <1>3, <2>2, <2>3, CountsDown
<1>5. g = IF c.timer.t2 = 1 THEN IF c.state \in Leased THEN Rebind(d) ELSE d
          ELSE IF c.timer.t1 = 1 /\ c.state \in Leased THEN Renew(e) ELSE e
  BY DEF CoarseTmr
<1> HIDE DEF d, e, g
<1>6. ASSUME NEW b, NEW s \in {"RENEWING", "REBINDING"}, Goes(b, g, s, Tries(b, s)),
             Renews(g) => b.ip \in Addr, c.state \in Leased,
             b.state = c.state /\ b.tries = c.tries /\ b.ip = c.ip /\ b.sent = c.sent
      PROVE  /\ ByTimer(c, g) /\ g.state \in {"RENEWING", "REBINDING"}
             /\ Renews(g) => c.state \in Leasing
  <2>1. /\ ClientInv(g) /\ c.sent \subseteq g.sent /\ (g.ip = Static => c.ip = Static)
        /\ g.state = s /\ g.tries = Tries(b, s)
    BY <1>6 DEF Goes
  <2>2. g.tries <= c.tries + 1
    BY <1>1, <1>6, <2>1 DEF Tries
  <2>3. ByTimer(c, g)
    BY <1>6, <2>1, <2>2 DEF ByTimer, Leased
  <2>4. ASSUME Renews(g) PROVE c.state \in Leasing
    BY <1>6, <2>1, <2>4, RenewsBefore DEF ClientInv, Leased
  <2> QED
    BY <2>1, <2>3, <2>4
<1>7. CASE c.timer.t2 = 1 /\ c.state \in Leased
  <2>1. g = Rebind(d)
    BY <1>5, <1>7
  <2>2. Goes(d, g, "REBINDING", Tries(d, "REBINDING")) /\ (Renews(g) => d.ip \in Addr)
    BY <1>3, <1>7, <2>1, RebindStep DEF Leased
  <2> QED
    BY <1>3, <1>6, <1>7, <2>2 DEF g
<1>8. CASE c.timer.t2 # 1 /\ c.timer.t1 = 1 /\ c.state \in Leased
  <2>1. g = Renew(e)
    BY <1>5, <1>8
  <2>2. Goes(e, g, "RENEWING", Tries(e, "RENEWING")) /\ (Renews(g) => e.ip \in Addr)
    BY <1>4, <1>8, <2>1, RenewStep DEF Leased
  <2> QED
    BY <1>4, <1>6, <1>8, <2>2 DEF g
<1>9. CASE g = d \/ g = e
  BY <1>1, <1>3, <1>4, <1>9 DEF ByTimer, g
<1> QED
  BY <1>5, <1>7, <1>8, <1>9

-----------------------------------------------------------------------------
(* The lease and lwip_dhcp_task                                            *)

\* Where lwip_dhcp_task is.
Places == {"start", "read", "test", "copy", "static", "delay", "remove", "off", "done"}

\* How often the client may try before lwip_dhcp_task reads its address again: a tick,
\* and a call of dhcp_coarse_tmr before it and after it.
TriesLeft(p, t) == IF p THEN IF t THEN 3 ELSE 2 ELSE IF t THEN 1 ELSE 0

\* The types of the task's variables.
TaskTyped ==
  /\ pcb \in BOOLEAN /\ polled \in BOOLEAN /\ ticked \in BOOLEAN /\ created \in BOOLEAN
  /\ ip \in Addr \cup {NoAddr} /\ dpc \in Places /\ status \in {0, 2, 255}
  /\ devIp \in Addr \cup {Static} /\ shown \in Addr \cup {NoAddr, Static}

\* lwip_dhcp_task ends the wait.
TriesBounded ==
  client.tries + TriesLeft(polled, ticked) <=
    IF dpc \in {"delay", "read"} THEN MaxTries + 3 ELSE MaxTries + 6

\* Which address is where.
Addresses ==
  /\ client.state = "OFF" <=> dpc \in {"start", "done"}
  /\ dpc = "start" => client.ip = NoAddr
  /\ client.ip = Static => dpc \in {"remove", "off", "done"}
  /\ dpc \in {"start", "read", "test", "copy", "static", "delay"} => devIp = Static
  /\ dpc = "copy" => ip # NoAddr

\* Between the test and the assignment the client is not bound: it would have been
\* bound at the last tick, and has not tried often enough since.
InTime ==
  /\ dpc = "test" /\ ip = NoAddr /\ client.state \in Leasing =>
       ~polled /\ client.tries + (IF ticked THEN 1 ELSE 0) <= 1
  /\ dpc = "static" => client.state \notin Leasing
  /\ dpc = "static" /\ client.state = "CHECKING" => client.tries = 1 \/ ~polled

\* The inductive invariant.
StartupInv ==
  ClientInv(client) /\ TaskTyped /\ TriesBounded /\ Addresses /\ (Renews(client) => InTime)

\* It holds at the beginning.
LEMMA StartupInvInit == SInit => StartupInv
<1> SUFFICES ASSUME SInit PROVE StartupInv
  OBVIOUS
<1>1. /\ DOMAIN client = Fields /\ client.state = "OFF" /\ client.tries = 0 /\ client.timeout = 0
      /\ client.xid = 0 /\ client.offered = NoAddr /\ client.lease = Zero /\ client.timer = Zero
      /\ client.ip = NoAddr /\ client.up = TRUE /\ client.sent = {}
  BY DEF SInit, Fields
<1>2. Zero \in Times
  BY LeaseTimes
<1>3. Sound(client)
  <2>1. /\ client.state \in DhcpStates /\ client.sent \in SUBSET DhcpMsg /\ client.up \in BOOLEAN
        /\ client.offered \in Addr \cup {NoAddr} /\ client.ip \in Addr \cup {NoAddr, Static}
    BY <1>1 DEF DhcpStates
  <2>2. client.lease \in Leases \cup {Zero} /\ client.timer \in Times
    BY <1>1, <1>2
  <2>3. /\ client.tries \in Nat /\ client.timeout \in Nat /\ client.timeout <= 120
        /\ client.xid \in Nat
    BY <1>1
  <2>4. Client(client)
    BY <1>1, <2>1, <2>2, <2>3 DEF Client
  <2> QED
    BY <1>1, <2>4 DEF Sound
<1>4. ClientInv(client)
  BY <1>1, <1>3 DEF ClientInv, Leasing
<1>5. dpc = "start" /\ devIp = Static /\ ip = NoAddr /\ ticked = TRUE /\ polled = FALSE
  BY DEF SInit
<1>6. TaskTyped
  BY DEF SInit, TaskTyped, Places
<1>7. TriesBounded
  BY <1>1, <1>5, StartupAssumption DEF TriesBounded, TriesLeft
<1>8. Addresses /\ InTime
  BY <1>1, <1>5, StartupAssumption DEF Addresses, InTime
<1> QED
  BY <1>4, <1>6, <1>7, <1>8 DEF StartupInv

\* A step of tcpip_thread, of which lwip_dhcp_task notes no more than this.
TcpipChanges ==
  /\ Others /\ dpc # "start" /\ polled' \in BOOLEAN /\ ticked' \in BOOLEAN
  /\ ClientInv(client') /\ client.sent \subseteq client'.sent
  /\ client'.ip = Static => client.ip = Static
  /\ client.state = "OFF" <=> client'.state = "OFF"
  /\ \/ client'.tries + TriesLeft(polled', ticked') <= client.tries + TriesLeft(polled, ticked)
     \/ client'.tries <= 1
  /\ Renews(client') /\ client'.state \in Leasing /\ dpc # "done" =>
       \/ client.state \in Leasing /\ polled
       \/ client.state \in Leasing /\ ~polled' /\ client'.tries = 0
       \/ /\ client.state \in Leasing /\ ~polled'
          /\ client'.tries <= client.tries + 1 /\ ticked /\ ~ticked'
       \/ client.state = "CHECKING" /\ client.tries = 2 /\ polled /\ client'.tries = 0 /\ ~polled'
  /\ client'.state = "CHECKING" /\ dpc # "done" =>
       \/ client'.tries = 1 \/ ~polled'
       \/ client.state = "CHECKING" /\ client'.tries = client.tries /\ polled' = polled

\* Such a step keeps the invariant.
LEMMA TcpipKeeps == StartupInv /\ TcpipChanges => StartupInv'
<1> SUFFICES ASSUME StartupInv, TcpipChanges PROVE StartupInv'
  OBVIOUS
<1> USE DEF StartupInv, TcpipChanges, Others
<1>1. ClientInv(client)'
  OBVIOUS
<1>2. TaskTyped'
  BY DEF TaskTyped
<1>3. TriesBounded'
  <2>1. client.tries \in Nat /\ client'.tries \in Nat
    BY DEF ClientInv, Sound, Client
  <2>2. TriesLeft(polled', ticked') \in Nat /\ TriesLeft(polled', ticked') <= 3
    BY DEF TriesLeft
  <2>3. TriesLeft(polled, ticked) \in Nat
    BY DEF TriesLeft
  <2> HIDE DEF TriesLeft
  <2>4. dpc' = dpc /\ MaxTries \in Nat /\ 2 <= MaxTries
    BY StartupAssumption
  <2> QED
    BY <2>1, <2>2, <2>3, <2>4 DEF TriesBounded
<1>4. Addresses'
  BY DEF Addresses
<1>5. ASSUME Renews(client') PROVE InTime'
  <2>1. InTime
    BY <1>5, RenewsBefore
  <2>2. client.tries \in Nat /\ client'.tries \in Nat
    BY DEF ClientInv, Sound, Client
  <2> QED
    BY <1>5, <2>1, <2>2 DEF InTime
<1> QED
  BY <1>1, <1>2, <1>3, <1>4, <1>5

\* A message changes the client, which tries something for the first time or is bound.
LEMMA MessageChanges ==
  ASSUME StartupInv, Others, UNCHANGED <<polled, ticked>>,
         NEW s \in DhcpStates \ {"OFF"}, NEW n \in {0, 1}, Goes(client, client', s, n),
         client.state # "OFF", s \in Leasing => client.state \in Leasing /\ n = 0,
         s = "CHECKING" => n = 1
  PROVE  TcpipChanges
<1>1. /\ ClientInv(client') /\ client'.state = s /\ client'.tries = n
      /\ client.sent \subseteq client'.sent /\ (client'.ip = Static => client.ip = Static)
  BY DEF Goes
<1>2. polled \in BOOLEAN /\ ticked \in BOOLEAN /\ dpc # "start"
  BY DEF StartupInv, TaskTyped, Addresses
<1> QED
  BY <1>1, <1>2 DEF TcpipChanges

\* dhcp_fine_tmr, of which there is one between two polls.
LEMMA TickChanges == StartupInv /\ Tick => TcpipChanges
<1> SUFFICES ASSUME StartupInv, Tick PROVE TcpipChanges
  OBVIOUS
<1>1. /\ Others /\ client' = FineTmr(client) /\ polled /\ polled' = (dpc = "done")
      /\ ticked' = TRUE /\ dpc # "start"
  BY DEF Tick
<1>2. ClientInv(client) /\ ticked \in BOOLEAN /\ polled \in BOOLEAN
  BY DEF StartupInv, TaskTyped
<1>3. ByTimeout(client, client')
  BY <1>1, <1>2, FineStep
<1>4. client.tries \in Nat /\ client'.tries \in Nat /\ client'.tries <= client.tries + 1
  BY <1>2, <1>3 DEF ByTimeout, ByTimer, ClientInv, Sound, Client
<1>5. \/ client'.tries + TriesLeft(polled', ticked') <= client.tries + TriesLeft(polled, ticked)
      \/ client'.tries <= 1
  <2>1. CASE dpc = "done"
    <3>1. client'.state = "OFF"
      BY <1>3, <2>1 DEF StartupInv, Addresses, ByTimeout, ByTimer
    <3>2. client'.tries = 0
      BY <1>3, <3>1 DEF ByTimeout, ByTimer, ClientInv
    <3> QED
      BY <3>2
  <2>2. CASE dpc # "done"
    <3>1. polled = TRUE /\ polled' = FALSE /\ ticked' = TRUE
      BY <1>1, <2>2
    <3>2. TriesLeft(polled', ticked') = 1
      BY <3>1 DEF TriesLeft
    <3>3. TriesLeft(polled, ticked) \in {2, 3}
      BY <3>1 DEF TriesLeft
    <3> QED
      BY <1>4, <3>2, <3>3
  <2> QED
    BY <2>1, <2>2
<1> QED
  BY <1>1, <1>3, <1>5 DEF TcpipChanges, ByTimeout, ByTimer

\* dhcp_coarse_tmr
LEMMA CoarseChanges == StartupInv /\ CoarseTick => TcpipChanges
<1> SUFFICES ASSUME StartupInv, CoarseTick PROVE TcpipChanges
  OBVIOUS
<1>1. /\ Others /\ client' = CoarseTmr(client) /\ ticked /\ ticked' = FALSE /\ polled' = polled
      /\ dpc # "start"
  BY DEF CoarseTick
<1>2. ClientInv(client) /\ polled \in BOOLEAN
  BY DEF StartupInv, TaskTyped
<1>3. /\ ByTimer(client, client')
      /\ \/ client'.state = client.state /\ client'.tries = client.tries
         \/ client'.state \in {"RENEWING", "REBINDING"}
      /\ Renews(client') /\ client'.state \in Leasing => client.state \in Leasing
  BY <1>1, <1>2, CoarseStep
<1>4. client.tries \in Nat /\ client'.tries \in Nat /\ client'.tries <= client.tries + 1
  BY <1>2, <1>3 DEF ByTimer, ClientInv, Sound, Client
<1>5. client'.tries + TriesLeft(polled', ticked') <= client.tries + TriesLeft(polled, ticked)
  BY <1>1, <1>2, <1>4 DEF TriesLeft
<1> QED
  BY <1>1, <1>2, <1>3, <1>4, <1>5 DEF TcpipChanges, ByTimer

\* Each step of tcpip_thread is such a step.
LEMMA TcpipStep == StartupInv /\ Tcpip => TcpipChanges
<1> SUFFICES ASSUME StartupInv, Tcpip PROVE TcpipChanges
  OBVIOUS
<1>1. ClientInv(client) /\ Sound(client)
  BY DEF StartupInv, ClientInv
<1>2. client.state \notin {"OFF"} \cup Leasing => (Renews(client) => client.ip \notin Addr)
  BY <1>1 DEF ClientInv
<1>3. CASE Tick \/ CoarseTick
  BY <1>3, TickChanges, CoarseChanges
<1>4. CASE ArpReply
  <2>1. /\ Others /\ UNCHANGED <<polled, ticked>> /\ client' = Decline(client)
        /\ client.state = "CHECKING"
    BY <1>4 DEF ArpReply
  <2>2. Goes(client, client', "BACKING_OFF", 1)
    BY <1>1, <1>2, <2>1, DeclineStep DEF Tries, Leasing
  <2> QED
    BY <2>1, <2>2, MessageChanges DEF DhcpStates, Leasing
<1>5. ASSUME NEW m \in client.sent, NEW a \in Addr, RecvOffer(m, a) PROVE TcpipChanges
  <2> DEFINE c == [client EXCEPT !.timeout = 0, !.offered = a]
  <2>1. /\ Others /\ UNCHANGED <<polled, ticked>> /\ client' = Select(c)
        /\ client.state = "SELECTING"
    BY <1>5 DEF RecvOffer
  <2>2. Sound(c) /\ c.ip = client.ip /\ c.sent = client.sent /\ c.state = client.state
    BY <1>1 DEF Sound, Client, Fields
  <2>3. Renews(c) => c.ip \notin Addr
    BY <1>2, <2>1, <2>2 DEF Renews, Leasing
  <2> HIDE DEF c
  <2>4. Goes(c, Select(c), "REQUESTING", 1)
    BY <2>1, <2>2, <2>3, SelectStep DEF Tries
  <2>5. Goes(client, client', "REQUESTING", 1)
    BY <2>1, <2>2, <2>4, GoesTwice
  <2> QED
    BY <2>1, <2>5, MessageChanges DEF DhcpStates, Leasing
<1>6. ASSUME NEW m \in client.sent, NEW a \in Acked(m), NEW l \in Leases, RecvAck(m, a, l)
      PROVE  TcpipChanges
  <2> DEFINE c == HandleAck(client, a, l)
  <2>1. /\ Others /\ UNCHANGED <<polled, ticked>> /\ client' = Check(c)
        /\ client.state = "REQUESTING" /\ Matches(m) /\ m.type = "REQUEST"
    BY <1>6 DEF RecvAck
  <2>2. ServersAgree => a = client.offered
    BY <1>1, <1>6, <2>1 DEF ClientInv, AskedFor, Matches, Acked
  <2>3. Renews(client) => a \in Addr
    BY <1>1, <1>6, <2>1, <2>2 DEF ClientInv, Answered, Acked
  <2>4. a \in Addr \/ a = client.offered
    BY <1>6, <2>2 DEF Acked
  <2>5. /\ Sound(c) /\ c.xid = client.xid /\ c.xid # 0 /\ c.ip = client.ip
        /\ c.sent = client.sent /\ c.state = client.state /\ c.offered = a
    BY <1>1, <2>1, <2>4 DEF HandleAck, ClientInv, Sound, Client, Fields
  <2>6. Renews(c) => Answered(c) /\ c.ip \notin Addr
    BY <1>1, <2>1, <2>2, <2>3, <2>5 DEF ClientInv, Answered, Renews, Requested, Leasing
  <2> HIDE DEF c
  <2>7. Goes(c, Check(c), "CHECKING", 1)
    BY <2>1, <2>5, <2>6, CheckStep DEF Tries
  <2>8. Goes(client, client', "CHECKING", 1)
    BY <2>1, <2>5, <2>7, GoesTwice
  <2> QED
    BY <2>1, <2>8, MessageChanges DEF DhcpStates, Leasing
<1>7. ASSUME NEW m \in client.sent, RecvAckRenews(m) PROVE TcpipChanges
  <2>1. /\ Others /\ UNCHANGED <<polled, ticked>> /\ client' = Bind(client)
        /\ client.state \in {"RENEWING", "REBINDING"}
    BY <1>7 DEF RecvAckRenews
  <2>2. Goes(client, client', "BOUND", 0)
    BY <1>1, <2>1, BindStep
  <2> QED
    BY <2>1, <2>2, MessageChanges DEF DhcpStates, Leasing
<1>8. ASSUME NEW m \in client.sent, RecvNak(m) PROVE TcpipChanges
  <2>1. /\ Others /\ UNCHANGED <<polled, ticked>> /\ client' = HandleNak(client)
        /\ client.state \in {"REQUESTING", "RENEWING", "REBINDING"}
    BY <1>8 DEF RecvNak
  <2>2. Goes(client, client', "SELECTING", 1)
    BY <1>1, <2>1, NakStep
  <2> QED
    BY <2>1, <2>2, MessageChanges DEF DhcpStates, Leasing
<1> QED
  BY <1>3, <1>4, <1>5, <1>6, <1>7, <1>8 DEF Tcpip

\* What the arithmetic needs.
LEMMA ClientTries ==
  ASSUME StartupInv
  PROVE  /\ client.tries \in Nat /\ TriesLeft(polled, ticked) \in Nat /\ TriesLeft(polled, ticked) <= 3
         /\ MaxTries \in Nat /\ 2 <= MaxTries
  BY StartupAssumption DEF StartupInv, ClientInv, Sound, Client, TriesLeft

\* A step of a task that leaves the client alone keeps all but the places.
LEMMA ClientUntouched ==
  ASSUME StartupInv, UNCHANGED client, TaskTyped', TriesBounded', Addresses',
         Renews(client) /\ InTime => InTime'
  PROVE  StartupInv'
  BY DEF StartupInv

\* lwip_dhcp_task has just begun: the client discovers.
LEMMA StartStep == StartupInv /\ DhcpStart => StartupInv'
<1> SUFFICES ASSUME StartupInv, DhcpStart PROVE StartupInv'
  OBVIOUS
<1>1. /\ client' = Discover(client) /\ dpc = "start" /\ dpc' = "read" /\ pcb' = TRUE /\ status' = 0
      /\ UNCHANGED <<ip, polled, ticked, created, devIp, shown>>
  BY DEF DhcpStart, DhcpGoto
<1>2. /\ Sound(client) /\ client.state = "OFF" /\ client.ip # Static
  BY <1>1 DEF StartupInv, ClientInv, Addresses
<1>3. client.ip \notin Addr
  BY <1>1, StartupAssumption DEF StartupInv, Addresses
<1>4. Goes(client, client', "SELECTING", 1)
  BY <1>1, <1>2, <1>3, DiscoverStep DEF Tries
<1>5. ClientInv(client') /\ client'.state = "SELECTING" /\ client'.tries = 1 /\ client'.ip # Static
  BY <1>2, <1>4 DEF Goes
<1>6. TaskTyped' /\ Addresses' /\ InTime'
  BY <1>1, <1>5 DEF StartupInv, TaskTyped, Places, Addresses, InTime
<1>7. TriesBounded'
  <2>1. TriesLeft(polled', ticked') \in Nat /\ TriesLeft(polled', ticked') <= 3
    BY DEF TriesLeft
  <2> QED
    BY <1>1, <1>5, <2>1, ClientTries DEF TriesBounded
<1> QED
  BY <1>5, <1>6, <1>7 DEF StartupInv

\* An address read as none is that of a client without a lease.
LEMMA ReadStep == StartupInv /\ DhcpRead => StartupInv'
<1> SUFFICES ASSUME StartupInv, DhcpRead PROVE StartupInv'
  OBVIOUS
<1>1. /\ dpc = "read" /\ dpc' = "test" /\ ip' = client.ip /\ polled' = TRUE
      /\ UNCHANGED <<client, pcb, ticked, created, status, devIp, shown>>
  BY DEF DhcpRead, DhcpGoto
<1>2. client.ip \in Addr \cup {NoAddr}
  BY <1>1 DEF StartupInv, Addresses, ClientInv, Sound, Client
<1>3. TaskTyped'
  BY <1>1, <1>2 DEF StartupInv, TaskTyped, Places
<1>4. TriesBounded'
  <2>1. client.tries + TriesLeft(polled, ticked) <= MaxTries + 3
    BY <1>1 DEF StartupInv, TriesBounded
  <2>2. TriesLeft(polled', ticked') \in Nat /\ TriesLeft(polled', ticked') <= 3
    BY DEF TriesLeft
  <2>3. client'.tries = client.tries /\ dpc' = "test"
    BY <1>1
  <2>4. client.tries + TriesLeft(polled', ticked') <= MaxTries + 6
    BY <2>1, <2>2, ClientTries
  <2> QED
    BY <2>3, <2>4 DEF TriesBounded
<1>5. Addresses'
  BY <1>1 DEF StartupInv, Addresses
<1>6. ASSUME Renews(client), ip' = NoAddr PROVE client.state \notin Leasing
  <2>1. ASSUME client.state \in Leasing PROVE FALSE
    <3>1. client.offered \in Addr /\ client.ip = client.offered
      BY <1>6, <2>1 DEF StartupInv, ClientInv, Answered
    <3> QED
      BY <1>1, <1>6, <3>1, StartupAssumption
  <2> QED
    BY <2>1
<1>7. Renews(client) => InTime'
  BY <1>1, <1>6 DEF InTime
<1> QED
  BY <1>1, <1>3, <1>4, <1>5, <1>7, ClientUntouched

\* After more than two tries the client neither has a lease nor probes an address.
LEMMA GivesUpStep == StartupInv /\ DhcpGivesUp => StartupInv'
<1> SUFFICES ASSUME StartupInv, DhcpGivesUp PROVE StartupInv'
  OBVIOUS
<1>1. /\ dpc = "test" /\ dpc' = "static" /\ ip = NoAddr /\ client.tries > MaxTries /\ status' = 255
      /\ UNCHANGED <<client, pcb, ip, polled, ticked, created, devIp, shown>>
  BY DEF DhcpGivesUp, DhcpGoto
<1>2. TaskTyped'
  BY <1>1 DEF StartupInv, TaskTyped, Places
<1>3. TriesBounded'
  BY <1>1 DEF StartupInv, TriesBounded
<1>4. Addresses'
  BY <1>1 DEF StartupInv, Addresses
<1>5. ASSUME Renews(client), InTime PROVE InTime'
  <2>1. client.tries > 2
    BY <1>1, ClientTries
  <2>2. client.state # "CHECKING"
    BY <2>1, ClientTries DEF StartupInv, ClientInv
  <2>3. client.state \notin Leasing
    BY <1>1, <1>5, <2>1, ClientTries DEF InTime
  <2> QED
    BY <1>1, <2>2, <2>3 DEF InTime
<1> QED
  BY <1>1, <1>2, <1>3, <1>4, <1>5, ClientUntouched

\* No more tries than LWIP_MAX_DHCP_TRIES before a delay.
LEMMA DelayStep == StartupInv /\ DhcpDelay => StartupInv'
<1> SUFFICES ASSUME StartupInv, DhcpDelay PROVE StartupInv'
  OBVIOUS
<1>1. /\ dpc = "test" /\ dpc' = "delay" /\ client.tries <= MaxTries
      /\ UNCHANGED <<client, pcb, ip, polled, ticked, created, status, devIp, shown>>
  BY DEF DhcpDelay, DhcpGoto
<1>2. TriesBounded'
  BY <1>1, ClientTries DEF TriesBounded
<1>3. TaskTyped' /\ Addresses' /\ InTime'
  BY <1>1 DEF StartupInv, TaskTyped, Places, Addresses, InTime
<1> QED
  BY <1>1, <1>2, <1>3, ClientUntouched

\* The static address is set when there is no lease.
LEMMA StaticStep == StartupInv /\ DhcpStatic => StartupInv'
<1> SUFFICES ASSUME StartupInv, DhcpStatic PROVE StartupInv'
  OBVIOUS
<1>1. /\ dpc = "static" /\ dpc' = "remove" /\ client' = [client EXCEPT !.ip = devIp]
      /\ UNCHANGED <<pcb, ip, polled, ticked, created, status, devIp, shown>>
  BY DEF DhcpStatic, DhcpGoto
<1>2. devIp = Static /\ client.state \in DhcpStates \ {"OFF"}
  BY <1>1 DEF StartupInv, Addresses, ClientInv, Sound, Client
<1>3. /\ Sound(client') /\ client'.state = client.state /\ client'.tries = client.tries
      /\ client'.xid = client.xid /\ client'.offered = client.offered
      /\ client'.sent = client.sent /\ client'.ip = Static
  BY <1>1, <1>2 DEF StartupInv, ClientInv, Sound, Client, Fields
<1>4. Renews(client') => client.state \notin Leasing
  BY <1>1, <1>3 DEF StartupInv, InTime, Renews
<1>5. ClientInv(client')
  BY <1>3, <1>4, StartupAssumption
     DEF StartupInv, ClientInv, Renews, Answered, Requested, AskedFor, Leasing
<1>6. TaskTyped' /\ Addresses' /\ InTime'
  BY <1>1, <1>2, <1>3 DEF StartupInv, TaskTyped, Places, Addresses, InTime
<1>7. TriesBounded'
  BY <1>1, <1>3 DEF StartupInv, TriesBounded
<1> QED
  BY <1>5, <1>6, <1>7 DEF StartupInv

\* dhcp_stop ends the client.
LEMMA OffStep == StartupInv /\ DhcpOff => StartupInv'
<1> SUFFICES ASSUME StartupInv, DhcpOff PROVE StartupInv'
  OBVIOUS
<1>1. /\ dpc = "off" /\ dpc' = "done" /\ client' = SetState(client, "OFF") /\ polled' = TRUE
      /\ UNCHANGED <<pcb, ip, ticked, created, status, devIp, shown>>
  BY DEF DhcpOff, DhcpGoto
<1>2. Sound(client) /\ client.state # "OFF"
  BY <1>1 DEF StartupInv, ClientInv, Addresses
<1>3. /\ Sound(client') /\ client'.state = "OFF" /\ client'.tries = 0
  BY <1>1, <1>2, SetStateEffect DEF DhcpStates, Tries
<1>4. ClientInv(client')
  BY <1>3 DEF ClientInv, Leasing
<1>5. TaskTyped' /\ Addresses' /\ InTime'
  BY <1>1, <1>3 DEF StartupInv, TaskTyped, Places, Addresses, InTime
<1>6. TriesBounded'
  <2>1. TriesLeft(polled', ticked') \in Nat /\ TriesLeft(polled', ticked') <= 3
    BY DEF TriesLeft
  <2>2. client'.tries = 0 /\ dpc' = "done"
    BY <1>1, <1>3
  <2> QED
    BY <2>1, <2>2, ClientTries DEF TriesBounded
<1> QED
  BY <1>4, <1>5, <1>6 DEF StartupInv

\* A lease was read.
LEMMA LeasedStep == StartupInv /\ DhcpLeased => StartupInv'
<1> SUFFICES ASSUME StartupInv, DhcpLeased PROVE StartupInv'
  OBVIOUS
<1>1. /\ dpc = "test" /\ dpc' = "copy" /\ ip # NoAddr /\ status' = 2
      /\ UNCHANGED <<client, pcb, ip, polled, ticked, created, devIp, shown>>
  BY DEF DhcpLeased, DhcpGoto
<1>2. TaskTyped' /\ TriesBounded' /\ Addresses' /\ InTime'
  BY <1>1 DEF StartupInv, TaskTyped, Places, TriesBounded, Addresses, InTime
<1> QED
  BY <1>1, <1>2, ClientUntouched

\* lwipdev.ip is the address read.
LEMMA CopyStep == StartupInv /\ DhcpCopy => StartupInv'
<1> SUFFICES ASSUME StartupInv, DhcpCopy PROVE StartupInv'
  OBVIOUS
<1>1. /\ dpc = "copy" /\ dpc' = "remove" /\ devIp' = ip
      /\ UNCHANGED <<client, pcb, ip, polled, ticked, created, status, shown>>
  BY DEF DhcpCopy, DhcpGoto
<1>2. TaskTyped' /\ TriesBounded' /\ Addresses' /\ InTime'
  BY <1>1 DEF StartupInv, TaskTyped, Places, TriesBounded, Addresses, InTime
<1> QED
  BY <1>1, <1>2, ClientUntouched

\* The next poll.
LEMMA DelayEndsStep == StartupInv /\ DhcpDelayEnds => StartupInv'
<1> SUFFICES ASSUME StartupInv, DhcpDelayEnds PROVE StartupInv'
  OBVIOUS
<1>1. /\ dpc = "delay" /\ dpc' = "read"
      /\ UNCHANGED <<client, pcb, ip, polled, ticked, created, status, devIp, shown>>
  BY DEF DhcpDelayEnds, DhcpGoto
<1>2. TaskTyped' /\ TriesBounded' /\ Addresses' /\ InTime'
  BY <1>1 DEF StartupInv, TaskTyped, Places, TriesBounded, Addresses, InTime
<1> QED
  BY <1>1, <1>2, ClientUntouched

\* udp_remove
LEMMA RemoveStep == StartupInv /\ DhcpRemove => StartupInv'
<1> SUFFICES ASSUME StartupInv, DhcpRemove PROVE StartupInv'
  OBVIOUS
<1>1. /\ dpc = "remove" /\ dpc' = "off" /\ pcb' = FALSE
      /\ UNCHANGED <<client, ip, polled, ticked, created, status, devIp, shown>>
  BY DEF DhcpRemove, DhcpGoto
<1>2. TaskTyped'
  BY <1>1 DEF StartupInv, TaskTyped, Places
<1>3. TriesBounded' /\ Addresses' /\ InTime'
  BY <1>1 DEF StartupInv, TriesBounded, Addresses, InTime
<1> QED
  BY <1>1, <1>2, <1>3, ClientUntouched

\* start_task and dhcp_start_task
LEMMA ApplicationStep == StartupInv /\ (StartTask \/ DhcpStartTask) => StartupInv'
<1> SUFFICES ASSUME StartupInv, StartTask \/ DhcpStartTask PROVE StartupInv'
  OBVIOUS
<1>1. /\ UNCHANGED <<client, pcb, dpc, ip, polled, ticked, status, devIp>>
      /\ created' = TRUE \/ created' = created
      /\ shown' = shown \/ shown' = devIp
  BY DEF StartTask, DhcpStartTask, dhcpTask
<1>2. TaskTyped'
  <2>1. created' \in BOOLEAN /\ pcb' \in BOOLEAN /\ polled' \in BOOLEAN /\ ticked' \in BOOLEAN
    <3>1. created \in BOOLEAN /\ pcb \in BOOLEAN /\ polled \in BOOLEAN /\ ticked \in BOOLEAN
      BY Zenon DEF StartupInv, TaskTyped
    <3>2. pcb' = pcb /\ polled' = polled /\ ticked' = ticked
      BY <1>1
    <3>3. created' \in BOOLEAN
      BY <1>1, <3>1, Zenon
    <3> QED
      BY <3>1, <3>2, <3>3, Zenon
  <2>2. shown' \in Addr \cup {NoAddr, Static}
    BY <1>1 DEF StartupInv, TaskTyped
  <2> QED
    BY <1>1, <2>1, <2>2 DEF StartupInv, TaskTyped
<1>3. TriesBounded' /\ Addresses' /\ (InTime => InTime')
  BY <1>1 DEF StartupInv, TriesBounded, Addresses, InTime
<1> QED
  BY <1>1, <1>2, <1>3, ClientUntouched

\* Every step keeps the invariant.
LEMMA StartupInvStep == StartupInv /\ [SNext]_svars => StartupInv'
<1> SUFFICES ASSUME StartupInv, [SNext]_svars PROVE StartupInv'
  OBVIOUS
<1>1. CASE UNCHANGED svars
  <2>1. UNCHANGED <<client, pcb, dpc, ip, polled, ticked, created, status, devIp, shown>>
    BY <1>1 DEF svars, dhcpTask
  <2>2. TaskTyped' /\ TriesBounded' /\ Addresses' /\ (InTime => InTime')
    BY <2>1 DEF StartupInv, TaskTyped, TriesBounded, Addresses, InTime
  <2> QED
    BY <2>1, <2>2, ClientUntouched
<1>2. CASE Tcpip
  BY <1>2, TcpipStep, TcpipKeeps
<1>3. CASE DhcpTask
  BY <1>3, StartStep, ReadStep, LeasedStep, CopyStep, GivesUpStep, StaticStep, DelayStep,
     DelayEndsStep, RemoveStep, OffStep DEF DhcpTask
<1>4. CASE StartTask \/ DhcpStartTask
  BY <1>4, ApplicationStep
<1> QED
  BY <1>1, <1>2, <1>3, <1>4 DEF SNext

\* The types of the variables: the number of tries fits a u8_t, the timeouts 16 bits.
THEOREM STypeOKCorrect == SSpec => []STypeOK
<1>1. StartupInv => STypeOK
  <2> SUFFICES ASSUME StartupInv PROVE STypeOK
    OBVIOUS
  <2>1. Sound(client) /\ Client(client)
    BY DEF StartupInv, ClientInv, Sound
  <2>2. client.tries < 256
    BY ClientTries, StartupAssumption DEF StartupInv, TriesBounded
  <2>3. client.timeout \in Word16
    BY <2>1 DEF Client, Word16
  <2>4. \A m \in client.sent : m.xid \in 1..client.xid
    <3>1. ASSUME NEW m \in client.sent PROVE m.xid \in 1..client.xid
      <4>1. m.xid \in Nat \ {0} /\ m.xid <= client.xid /\ client.xid \in Nat
        BY <2>1 DEF Sound, Client, DhcpMsg
      <4> QED
        BY <4>1
    <3> QED
      BY <3>1
  <2> QED
    BY <2>1, <2>2, <2>3, <2>4 DEF STypeOK, StartupInv, TaskTyped, Places, Client, Times
<1> QED
  BY <1>1, StartupInvInit, StartupInvStep, PTL DEF SSpec

\* A lease is the one asked for last, however late, often and out of order the
\* replies come (dhcp.c:1571-1576), if servers acknowledge what they are asked for.
THEOREM BoundAsRequestedCorrect == SSpec => []BoundAsRequested
<1>1. StartupInv => BoundAsRequested
  BY DEF StartupInv, ClientInv, BoundAsRequested, RenewsLeases, Renews, Answered, Requested, Leasing
<1> QED
  BY <1>1, StartupInvInit, StartupInvStep, PTL DEF SSpec

\* The static address never replaces a lease, though tcpip_thread may run between
\* the test and the assignment (lwip_comm.c:258-262).
THEOREM LeaseNotOverwrittenCorrect == SSpec => LeaseNotOverwritten
<1>1. StartupInv /\ [SNext]_svars =>
        [RenewsLeases /\ client'.ip = Static => client.ip \in {NoAddr, Static}]_svars
  <2> SUFFICES ASSUME StartupInv, SNext, RenewsLeases, client'.ip = Static
               PROVE  client.ip \in {NoAddr, Static}
    OBVIOUS
  <2>1. CASE DhcpStatic
    <3>1. dpc = "static"
      BY <2>1 DEF DhcpStatic, DhcpGoto
    <3>2. client.state \notin {"OFF"} \cup Leasing
      BY <3>1 DEF StartupInv, Addresses, InTime, RenewsLeases, Renews
    <3> QED
      BY <3>2 DEF StartupInv, ClientInv, Sound, Client, RenewsLeases, Renews
  <2>2. CASE Tcpip
    <3>1. client.ip = Static
      BY <2>2, TcpipStep DEF TcpipChanges
    <3> QED
      BY <3>1
  <2>3. CASE DhcpStart
    <3>1. dpc' = "read" /\ StartupInv'
      BY <2>3, StartStep DEF DhcpStart, DhcpGoto
    <3> QED
      BY <3>1 DEF StartupInv, Addresses
  <2>4. CASE DhcpOff
    <3>1. client' = SetState(client, "OFF") /\ Sound(client)
      BY <2>4 DEF DhcpOff, StartupInv, ClientInv
    <3>2. client'.ip = client.ip
      BY <3>1, SetStateEffect DEF Keeps, DhcpStates
    <3> QED
      BY <3>2
  <2>5. CASE \/ DhcpRead \/ DhcpLeased \/ DhcpCopy \/ DhcpGivesUp \/ DhcpDelay
             \/ DhcpDelayEnds \/ DhcpRemove \/ StartTask \/ DhcpStartTask
    <3>1. client' = client
      BY <2>5 DEF DhcpRead, DhcpLeased, DhcpCopy, DhcpGivesUp, DhcpDelay, DhcpDelayEnds,
                  DhcpRemove, StartTask, DhcpStartTask
    <3> QED
      BY <3>1
  <2> QED
    BY <2>1, <2>2, <2>3, <2>4, <2>5 DEF SNext, DhcpTask
<1> QED
  BY <1>1, StartupInvInit, StartupInvStep, PTL DEF SSpec, LeaseNotOverwritten

-----------------------------------------------------------------------------
(* The first try: what a handler does in a new state                       *)

\* c is in state s after n tries, with the address addr.
Is(c, s, n, addr) == DOMAIN c = Fields /\ c.state = s /\ c.tries = n /\ c.ip = addr

\* dhcp_set_state counts the tries anew when the state changes.
LEMMA SetStateChanges ==
  ASSUME NEW c, DOMAIN c = Fields, NEW s, c.state # s
  PROVE  Is(SetState(c, s), s, 0, c.ip)
  BY DEF SetState, Is, Fields

\* The bookkeeping of a message and of its timeout leaves state and address alone.
LEMMA SentKeeps ==
  ASSUME NEW c, NEW s, NEW n, NEW a, Is(c, s, n, a), NEW type, NEW addr
  PROVE  Is(Sent(c, type, addr), s, n, a)
  BY DEF Sent, Is, Fields

\* A handler that changes the state and sends a message has tried once.
LEMMA DiscoverEffect ==
  ASSUME NEW c, DOMAIN c = Fields, c.state # "SELECTING"
  PROVE  Is(Discover(c), "SELECTING", 1, c.ip)
<1> DEFINE b == [c EXCEPT !.offered = NoAddr]
           d == SetState(b, "SELECTING")
           e == Sent(d, "DISCOVER", NoAddr)
<1>1. Is(d, "SELECTING", 0, c.ip)
  <2>1. DOMAIN b = Fields /\ b.state # "SELECTING" /\ b.ip = c.ip
    BY DEF Fields
  <2> HIDE DEF b
  <2> QED
    BY <2>1, SetStateChanges
<1> HIDE DEF d
<1>2. Is(e, "SELECTING", 0, c.ip)
  BY <1>1, SentKeeps
<1>3. Discover(c) = [e EXCEPT !.tries = @ + 1, !.timeout = (Doubling[e.tries + 1] + 499) \div 500]
  BY DEF Discover, Await, b, d
<1> HIDE DEF e
<1> QED
  BY <1>2, <1>3 DEF Is, Fields

\* dhcp_select
LEMMA SelectEffect ==
  ASSUME NEW c, DOMAIN c = Fields, c.state # "REQUESTING"
  PROVE  Is(Select(c), "REQUESTING", 1, c.ip)
<1> DEFINE d == SetState(c, "REQUESTING")
           e == Sent(d, "REQUEST", c.offered)
<1>1. Is(d, "REQUESTING", 0, c.ip)
  BY SetStateChanges
<1> HIDE DEF d
<1>2. Is(e, "REQUESTING", 0, c.ip)
  BY <1>1, SentKeeps
<1>3. Select(c) = [e EXCEPT !.tries = @ + 1, !.timeout = (Doubling[e.tries + 1] + 499) \div 500]
  BY DEF Select, Await, d
<1> HIDE DEF e
<1> QED
  BY <1>2, <1>3 DEF Is, Fields

\* dhcp_check
LEMMA CheckEffect ==
  ASSUME NEW c, DOMAIN c = Fields, c.state # "CHECKING"
  PROVE  Is(Check(c), "CHECKING", 1, c.ip)
<1> DEFINE d == SetState(c, "CHECKING")
<1>1. Is(d, "CHECKING", 0, c.ip)
  BY SetStateChanges
<1>2. Check(c) = [d EXCEPT !.tries = @ + 1,
                           !.timeout = ([n \in Nat \ {0} |-> 500][d.tries + 1] + 499) \div 500]
  BY DEF Check, Await
<1> HIDE DEF d
<1> QED
  BY <1>1, <1>2 DEF Is, Fields

\* dhcp_decline
LEMMA DeclineEffect ==
  ASSUME NEW c, DOMAIN c = Fields, c.state # "BACKING_OFF"
  PROVE  Is(Decline(c), "BACKING_OFF", 1, c.ip)
<1> DEFINE d == SetState(c, "BACKING_OFF")
           e == Sent(d, "DECLINE", c.offered)
<1>1. Is(d, "BACKING_OFF", 0, c.ip)
  BY SetStateChanges
<1> HIDE DEF d
<1>2. Is(e, "BACKING_OFF", 0, c.ip)
  BY <1>1, SentKeeps
<1>3. Decline(c) = [e EXCEPT !.tries = @ + 1,
                             !.timeout = ([n \in Nat \ {0} |-> 10000][e.tries + 1] + 499) \div 500]
  BY DEF Decline, Await, d
<1> HIDE DEF e
<1> QED
  BY <1>2, <1>3 DEF Is, Fields

\* dhcp_handle_nak
LEMMA NakEffect ==
  ASSUME NEW c, DOMAIN c = Fields, c.state # "BACKING_OFF"
  PROVE  Is(HandleNak(c), "SELECTING", 1, NoAddr)
<1> DEFINE d == Down(c)
           e == SetState(d, "BACKING_OFF")
<1>1. DOMAIN d = Fields /\ d.state # "BACKING_OFF" /\ d.ip = NoAddr
  BY DEF Down, Fields
<1> HIDE DEF d
<1>2. Is(e, "BACKING_OFF", 0, NoAddr)
  BY <1>1, SetStateChanges
<1>3. HandleNak(c) = Discover(e)
  BY DEF HandleNak, d
<1> HIDE DEF e
<1> QED
  BY <1>2, <1>3, DiscoverEffect DEF Is

-----------------------------------------------------------------------------
(* The address comes after the queues                                      *)

Early == {"OFF", "SELECTING", "REQUESTING", "CHECKING", "BACKING_OFF"}

\* Until start_task is done no timer has run: the client has sent each message
\* once at most, nothing is bound, and lwip_dhcp_task has not given up.
NotYet ==
  /\ DOMAIN client = Fields
  /\ client.state \in Early /\ client.tries \in {0, 1} /\ client.ip = NoAddr
  /\ ip = NoAddr /\ dpc \in {"start", "read", "test", "delay"}
  /\ dpc = "start" => client.state = "OFF" /\ ~pcb

QueuesFirst == ~created => NotYet

\* A message or an ARP reply makes the client try something once.
LEMMA TcpipEarly ==
  ASSUME NotYet, ~created, Tcpip
  PROVE  NotYet'
<1> DEFINE Good(c) == \E s \in Early : Is(c, s, 1, NoAddr)
<1>1. ASSUME pcb \/ client.state = "CHECKING", Good(client'), Others
      PROVE  NotYet'
  BY <1>1 DEF NotYet, Is, Others
<1>2. CASE Tick \/ CoarseTick
  BY <1>2 DEF Tick, CoarseTick
<1>3. CASE ArpReply
  <2>1. client.state = "CHECKING" /\ client' = Decline(client) /\ Others
    BY <1>3 DEF ArpReply
  <2>2. Is(Decline(client), "BACKING_OFF", 1, NoAddr)
    BY <2>1, DeclineEffect DEF NotYet
  <2> QED
    BY <1>1, <2>1, <2>2 DEF Early
<1>4. ASSUME NEW m \in client.sent, NEW a \in Addr, RecvOffer(m, a)
      PROVE  NotYet'
  <2> DEFINE c == [client EXCEPT !.timeout = 0, !.offered = a]
  <2>1. pcb /\ client' = Select(c) /\ Others /\ client.state = "SELECTING"
    BY <1>4 DEF RecvOffer
  <2>2. DOMAIN c = Fields /\ c.state = "SELECTING" /\ c.ip = NoAddr
    BY <2>1 DEF NotYet, Fields
  <2> HIDE DEF c
  <2>3. Is(Select(c), "REQUESTING", 1, NoAddr)
    BY <2>2, SelectEffect
  <2> QED
    BY <1>1, <2>1, <2>3 DEF Early
<1>5. ASSUME NEW m \in client.sent, NEW a \in Acked(m), NEW l \in Leases, RecvAck(m, a, l)
      PROVE  NotYet'
  <2> DEFINE c == HandleAck(client, a, l)
  <2>1. pcb /\ client' = Check(c) /\ Others /\ client.state = "REQUESTING"
    BY <1>5 DEF RecvAck
  <2>2. DOMAIN c = Fields /\ c.state = "REQUESTING" /\ c.ip = NoAddr
    BY <2>1 DEF NotYet, Fields, HandleAck
  <2> HIDE DEF c
  <2>3. Is(Check(c), "CHECKING", 1, NoAddr)
    BY <2>2, CheckEffect
  <2> QED
    BY <1>1, <2>1, <2>3 DEF Early
<1>6. ASSUME NEW m \in client.sent, RecvAckRenews(m) PROVE FALSE
  BY <1>6 DEF RecvAckRenews, NotYet, Early
<1>7. ASSUME NEW m \in client.sent, RecvNak(m) PROVE NotYet'
  <2>1. pcb /\ client' = HandleNak(client) /\ Others /\ client.state = "REQUESTING"
    BY <1>7 DEF RecvNak, NotYet, Early
  <2>2. Is(HandleNak(client), "SELECTING", 1, NoAddr)
    BY <2>1, NakEffect DEF NotYet
  <2> QED
    BY <1>1, <2>1, <2>2 DEF Early
<1> QED
  BY <1>2, <1>3, <1>4, <1>5, <1>6, <1>7 DEF Tcpip

\* lwip_dhcp_task starts the client and then only reads that it has no address.
LEMMA DhcpTaskEarly ==
  ASSUME NotYet, ~created, DhcpTask
  PROVE  NotYet'
<1>1. CASE DhcpStart
  <2>1. /\ client' = Discover(client) /\ client.state = "OFF" /\ client.ip = NoAddr
        /\ DOMAIN client = Fields /\ dpc' = "read" /\ ip' = ip
    BY <1>1 DEF DhcpStart, DhcpGoto, NotYet
  <2>2. Is(Discover(client), "SELECTING", 1, NoAddr)
    BY <2>1, DiscoverEffect
  <2> QED
    BY <2>1, <2>2 DEF NotYet, Is, Early
<1>2. CASE DhcpRead
  BY <1>2 DEF DhcpRead, DhcpGoto, NotYet
<1>3. CASE DhcpDelay \/ DhcpDelayEnds
  BY <1>3 DEF DhcpDelay, DhcpDelayEnds, DhcpGoto, NotYet
<1>4. CASE DhcpLeased
  BY <1>4 DEF DhcpLeased, NotYet
<1>5. CASE DhcpGivesUp
  <2> DEFINE n == client.tries
  <2>1. n > MaxTries
    BY <1>5 DEF DhcpGivesUp
  <2>2. n = 0 \/ n = 1
    BY DEF NotYet
  <2>3. MaxTries \in Nat /\ 2 <= MaxTries
    BY StartupAssumption
  <2> HIDE DEF n
  <2> QED
    BY <2>1, <2>2, <2>3
<1>6. CASE DhcpCopy \/ DhcpStatic \/ DhcpRemove \/ DhcpOff
  BY <1>6 DEF DhcpCopy, DhcpStatic, DhcpRemove, DhcpOff, DhcpGoto, NotYet
<1> QED
  BY <1>1, <1>2, <1>3, <1>4, <1>5, <1>6 DEF DhcpTask

\* Every step keeps it until start_task is done.
LEMMA QueuesFirstStep == QueuesFirst /\ [SNext]_svars => QueuesFirst'
<1> SUFFICES ASSUME QueuesFirst, [SNext]_svars, ~created' PROVE NotYet'
  BY DEF QueuesFirst
<1>1. CASE UNCHANGED svars
  BY <1>1 DEF svars, dhcpTask, QueuesFirst, NotYet
<1>2. CASE Tcpip
  <2>1. created' = created
    BY <1>2 DEF Tcpip, Tick, CoarseTick, ArpReply, RecvOffer, RecvAck, RecvAckRenews,
                RecvNak, Others
  <2> QED
    BY <1>2, <2>1, TcpipEarly DEF QueuesFirst
<1>3. CASE DhcpTask
  <2>1. created' = created
    BY <1>3 DEF DhcpTask, DhcpStart, DhcpRead, DhcpLeased, DhcpCopy, DhcpGivesUp, DhcpStatic,
                DhcpDelay, DhcpDelayEnds, DhcpRemove, DhcpOff
  <2> QED
    BY <1>3, <2>1, DhcpTaskEarly DEF QueuesFirst
<1>4. CASE StartTask
  BY <1>4 DEF StartTask
<1>5. CASE DhcpStartTask
  BY <1>5 DEF DhcpStartTask
<1> QED
  BY <1>1, <1>2, <1>3, <1>4, <1>5 DEF SNext

\* The monitor receives nothing before the queue for orders exists: start_task
\* creates it long before the first timer of the client can run (os_stat.c:214-235),
\* and without a timer no address is bound and lwip_dhcp_task does not give up.
THEOREM AddressAfterQueuesCorrect == SSpec => []AddressAfterQueues
<1>1. SInit => QueuesFirst
  BY DEF SInit, QueuesFirst, NotYet, Early, Fields
<1>2. QueuesFirst => AddressAfterQueues
  BY DEF QueuesFirst, NotYet, AddressAfterQueues
<1> QED
  BY <1>1, <1>2, QueuesFirstStep, PTL DEF SSpec

-----------------------------------------------------------------------------
(* The address shown                                                       *)

\* dhcpstatus tells how lwip_dhcp_task left its loop, lwipdev.ip is the copy it
\* made, and dhcp_start_task reads it when lwip_dhcp_task has ended.
StatusKnown ==
  /\ status # 0 => dpc \in {"copy", "static", "remove", "off", "done"}
  /\ status = 2 /\ dpc \in {"remove", "off", "done"} => devIp = ip
  /\ status = 2 => dpc # "static"
  /\ shown # NoAddr => dpc = "done" /\ shown = devIp

\* Every step keeps it.
LEMMA StatusStep == StatusKnown /\ [SNext]_svars => StatusKnown'
<1> SUFFICES ASSUME StatusKnown, [SNext]_svars PROVE StatusKnown'
  OBVIOUS
<1>1. CASE UNCHANGED svars
  BY <1>1 DEF svars, dhcpTask, StatusKnown
<1>2. CASE Tcpip
  <2>1. UNCHANGED <<dpc, ip, status, devIp, shown>>
    BY <1>2 DEF Tcpip, Tick, CoarseTick, ArpReply, RecvOffer, RecvAck, RecvAckRenews,
                RecvNak, Others
  <2> QED
    BY <2>1 DEF StatusKnown
<1>3. CASE DhcpStart
  BY <1>3 DEF DhcpStart, DhcpGoto, StatusKnown
<1>4. CASE DhcpRead
  BY <1>4 DEF DhcpRead, DhcpGoto, StatusKnown
<1>5. CASE DhcpLeased
  BY <1>5 DEF DhcpLeased, DhcpGoto, StatusKnown
<1>6. CASE DhcpCopy
  BY <1>6 DEF DhcpCopy, DhcpGoto, StatusKnown
<1>7. CASE DhcpGivesUp
  BY <1>7 DEF DhcpGivesUp, DhcpGoto, StatusKnown
<1>8. CASE DhcpStatic
  BY <1>8 DEF DhcpStatic, DhcpGoto, StatusKnown
<1>9. CASE DhcpDelay \/ DhcpDelayEnds
  BY <1>9 DEF DhcpDelay, DhcpDelayEnds, DhcpGoto, StatusKnown
<1>10. CASE DhcpRemove \/ DhcpOff
  BY <1>10 DEF DhcpRemove, DhcpOff, DhcpGoto, StatusKnown
<1>11. CASE StartTask
  BY <1>11 DEF StartTask, dhcpTask, StatusKnown
<1>12. CASE DhcpStartTask
  BY <1>12 DEF DhcpStartTask, Shows, dhcpTask, StatusKnown
<1> QED
  BY <1>1, <1>2, <1>3, <1>4, <1>5, <1>6, <1>7, <1>8, <1>9, <1>10, <1>11, <1>12
     DEF SNext, DhcpTask

\* Although dhcpstatus is set before the address is copied (lwip_comm.c:239-245),
\* the address shown is the copy, and the copy is the address read.
THEOREM ShownIsFinalCorrect == SSpec => []ShownIsFinal
<1>1. SInit => StatusKnown
  BY DEF SInit, StatusKnown
<1>2. StatusKnown => ShownIsFinal
  BY DEF StatusKnown, ShownIsFinal
<1> QED
  BY <1>1, <1>2, StatusStep, PTL DEF SSpec
=============================================================================
