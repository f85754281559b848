---------------------------- MODULE RelayProofs ----------------------------
(***************************************************************************)
(* Proofs about the relay, for any number of texts and of connections:     *)
(* which connections can end the thread that forwards the texts, and that  *)
(* the phone shows the texts in the order of their sending.                *)
(***************************************************************************)
EXTENDS Relay, SequenceTheorems, TLAPS

-----------------------------------------------------------------------------
(* The connections                                                         *)

\* The socket of the phone is the one open connection.
PhoneKnows ==
  /\ links \in 0..MaxLinks /\ sock \in 0..links
  /\ conn \in [Conn -> {"none", "open", "closed", "reset"}]
  /\ \A c \in Conn : /\ conn[c] = "none" <=> c > links
                     /\ conn[c] = "open" <=> sock = c

\* The accept loop and the handlers know connections that were opened, and a
\* handler ends a connection that was reset only.
HandlersKnow ==
  /\ pending \in Seq(1..links) /\ tcpConn \in 0..links
  /\ hpc \in [Conn -> {"none", "set", "recv", "clear", "close", "ended"}]
  /\ \A c \in Conn : /\ hpc[c] # "none" => c <= links
                     /\ hpc[c] \in {"clear", "close", "ended"} => conn[c] = "reset"

WasReset == \E c \in Conn : conn[c] = "reset"

\* handle_udp finds no connection after its test, or dies, only if a
\* connection was reset.
UdpThread ==
  /\ upc \in {"recv", "test", "send", "dead"}
  /\ upc = "send" /\ tcpConn = 0 => WasReset
  /\ upc = "dead" => WasReset

CInv == PhoneKnows /\ HandlersKnow /\ UdpThread

LEMMA CInit == ASSUME RInit PROVE CInv
<1>1. PhoneKnows
  BY RelayAssumption DEF RInit, PhoneKnows, Conn
<1>2. HandlersKnow
  BY RelayAssumption DEF RInit, HandlersKnow, Conn
<1>3. UdpThread
  BY DEF RInit, UdpThread
<1> QED
  BY <1>1, <1>2, <1>3 DEF CInv

LEMMA WhatIsRaised ==
  ASSUME CInv, tcpConn # 0
  PROVE  /\ tcpConn \in Conn /\ tcpConn <= links
         /\ \/ conn[tcpConn] = "open" /\ Raises = {"none"}
            \/ conn[tcpConn] = "closed" /\ Raises = {"none", "BrokenPipeError"}
            \/ conn[tcpConn] = "reset" /\ Raises = {"ConnectionResetError", "BrokenPipeError"}
<1>1. tcpConn \in Conn /\ tcpConn <= links
  BY RelayAssumption DEF CInv, PhoneKnows, HandlersKnow, Conn
<1>2. conn[tcpConn] \in {"open", "closed", "reset"}
  <2>1. ~ (tcpConn > links) /\ conn[tcpConn] \in {"none", "open", "closed", "reset"}
    BY <1>1, RelayAssumption DEF CInv, PhoneKnows, Conn
  <2> QED
    BY <1>1, <2>1 DEF CInv, PhoneKnows
<1>3. CASE conn[tcpConn] = "open"
  BY <1>1, <1>3 DEF Raises
<1>4. CASE conn[tcpConn] = "closed"
  BY <1>1, <1>4 DEF Raises
<1>5. CASE conn[tcpConn] = "reset"
  BY <1>1, <1>5 DEF Raises
<1> QED
  BY <1>2, <1>3, <1>4, <1>5

\* What handle_udp does with a connection.
LEMMA CUdp == ASSUME CInv, UdpReceives \/ UdpTests \/ UdpSends PROVE CInv'
<1>1. PhoneKnows' /\ HandlersKnow'
  BY DEF CInv, PhoneKnows, HandlersKnow, UdpReceives, UdpTests, UdpSends, phone
<1>2. WasReset' = WasReset
  BY DEF WasReset, UdpReceives, UdpTests, UdpSends, phone
<1>3. CASE UdpReceives \/ UdpTests
  BY <1>1, <1>2, <1>3 DEF CInv, UdpThread, HandlersKnow, UdpReceives, UdpTests
<1>4. CASE UdpSends
  <2>1. PICK e \in Raises : upc' = IF e \in {"none", "BrokenPipeError"} THEN "recv" ELSE "dead"
    BY <1>4 DEF UdpSends
  <2>2. ASSUME e \notin {"none", "BrokenPipeError"} PROVE WasReset
    <3>1. CASE tcpConn = 0
      BY <1>4, <3>1 DEF UdpSends, CInv, UdpThread
    <3>2. CASE tcpConn # 0
      <4>1. tcpConn \in Conn /\ conn[tcpConn] = "reset"
        BY <2>2, <3>2, WhatIsRaised
      <4> QED
        BY <4>1 DEF WasReset
    <3> QED
      BY <3>1, <3>2
  <2> QED
    BY <1>1, <1>2, <2>1, <2>2 DEF CInv, UdpThread
<1> QED
  BY <1>3, <1>4

\* What the handlers do with one.
LEMMA CTcp ==
  ASSUME CInv, NEW c \in Conn, TcpSets(c) \/ TcpFails(c) \/ TcpClears(c) \/ TcpCloses(c)
  PROVE  CInv'
<1>1. PhoneKnows'
  BY DEF CInv, PhoneKnows, TcpSets, TcpFails, TcpClears, TcpCloses, phone
<1>2. WasReset' = WasReset
  BY DEF WasReset, TcpSets, TcpFails, TcpClears, TcpCloses, phone
<1>3. HandlersKnow'
  <2>1. CASE TcpSets(c)
    BY <2>1, RelayAssumption DEF CInv, HandlersKnow, PhoneKnows, TcpSets, TcpGoto, Conn, phone
  <2>2. CASE TcpFails(c)
    BY <2>2 DEF CInv, HandlersKnow, TcpFails, TcpGoto, RecvFails, phone
  <2>3. CASE TcpClears(c)
    BY <2>3, RelayAssumption DEF CInv, HandlersKnow, PhoneKnows, TcpClears, TcpGoto, phone
  <2>4. CASE TcpCloses(c)
    BY <2>4 DEF CInv, HandlersKnow, TcpCloses, TcpGoto, phone
  <2> QED
    BY <2>1, <2>2, <2>3, <2>4
<1>4. UdpThread'
  <2>1. CASE TcpSets(c)
    BY <1>2, <2>1, RelayAssumption DEF CInv, UdpThread, TcpSets, Conn
  <2>2. CASE TcpFails(c) \/ TcpCloses(c)
    BY <1>2, <2>2 DEF CInv, UdpThread, TcpFails, TcpCloses
  <2>3. CASE TcpClears(c)
    BY <1>2, <2>3 DEF CInv, HandlersKnow, UdpThread, TcpClears, TcpGoto, WasReset
  <2> QED
    BY <2>1, <2>2, <2>3
<1> QED
  BY <1>1, <1>3, <1>4 DEF CInv

\* What the phone and the accept loop do with one.
LEMMA CPhone == ASSUME CInv, Accepts \/ PhoneLinks \/ PhoneUnlinks \/ PhoneVanishes PROVE CInv'
<1>1. CASE Accepts
  <2>1. Head(pending) \in 1..links /\ Tail(pending) \in Seq(1..links)
    BY <1>1, HeadTailProperties DEF Accepts, CInv, HandlersKnow
  <2>2. HandlersKnow'
    <3> DEFINE h == Head(pending)
    <3>1. h \in 1..links /\ hpc' = [hpc EXCEPT ![h] = "set"] /\ pending' \in Seq(1..links)
      BY <1>1, <2>1 DEF Accepts
    <3> HIDE DEF h
    <3>2. UNCHANGED <<conn, links, tcpConn>>
      BY <1>1 DEF Accepts, phone
    <3>3. hpc' \in [Conn -> {"none", "set", "recv", "clear", "close", "ended"}]
      BY <3>1 DEF CInv, HandlersKnow
    <3>4. ASSUME NEW c \in Conn
          PROVE  /\ hpc'[c] # "none" => c <= links
                 /\ hpc'[c] \in {"clear", "close", "ended"} => conn[c] = "reset"
      <4>1. hpc'[c] = IF c = h THEN "set" ELSE hpc[c]
        BY <3>1 DEF CInv, HandlersKnow
      <4>2. h <= links
        BY <3>1 DEF CInv, PhoneKnows
      <4> QED
        BY <4>1, <4>2 DEF CInv, HandlersKnow
    <3>5. pending' \in Seq(1..links') /\ tcpConn' \in 0..links'
      BY <3>1, <3>2 DEF CInv, HandlersKnow
    <3> QED
      BY <3>2, <3>3, <3>4, <3>5 DEF HandlersKnow
  <2> QED
    BY <1>1, <2>2 DEF Accepts, CInv, PhoneKnows, UdpThread, WasReset, phone
<1>2. CASE PhoneLinks
  <2> DEFINE n == links + 1
  <2>1. n \in Conn /\ conn[n] = "none" /\ hpc[n] = "none"
    BY <1>2, RelayAssumption DEF PhoneLinks, CInv, PhoneKnows, HandlersKnow, Conn
  <2>2. PhoneKnows'
    BY <1>2, <2>1, RelayAssumption DEF PhoneLinks, CInv, PhoneKnows, Conn
  <2>3. HandlersKnow'
    <3>1. pending \in Seq(1..n) /\ n \in 1..n
      BY <2>1 DEF CInv, HandlersKnow, PhoneKnows, Conn
    <3>2. pending' \in Seq(1..links')
      BY <1>2, <3>1 DEF PhoneLinks
    <3>3. tcpConn' \in 0..links'
      BY <1>2 DEF PhoneLinks, CInv, HandlersKnow, PhoneKnows
    <3>4. \A c \in Conn : /\ hpc'[c] # "none" => c <= links'
                          /\ hpc'[c] \in {"clear", "close", "ended"} => conn'[c] = "reset"
      BY <1>2, <2>1 DEF PhoneLinks, CInv, HandlersKnow, PhoneKnows, Conn
    <3> QED
      BY <1>2, <3>2, <3>3, <3>4 DEF PhoneLinks, CInv, HandlersKnow
  <2>4. WasReset => WasReset'
    BY <1>2, <2>1 DEF PhoneLinks, WasReset, CInv, PhoneKnows
  <2> QED
    BY <1>2, <2>2, <2>3, <2>4 DEF PhoneLinks, CInv, UdpThread
<1>3. CASE PhoneUnlinks \/ PhoneVanishes
  <2>1. sock \in Conn /\ conn[sock] = "open"
    BY <1>3, RelayAssumption DEF PhoneUnlinks, PhoneVanishes, CInv, PhoneKnows, Conn
  <2>2. PhoneKnows'
    <3>1. PICK s \in {"closed", "reset"} : conn' = [conn EXCEPT ![sock] = s]
      BY <1>3 DEF PhoneUnlinks, PhoneVanishes, Closed
    <3>2. sock' = 0 /\ links' = links
      BY <1>3 DEF PhoneUnlinks, PhoneVanishes
    <3> QED
      BY <2>1, <3>1, <3>2, RelayAssumption DEF CInv, PhoneKnows, Conn
  <2>3. HandlersKnow'
    BY <1>3, <2>1 DEF PhoneUnlinks, PhoneVanishes, CInv, PhoneKnows, HandlersKnow, server
  <2>4. WasReset => WasReset'
    BY <1>3, <2>1 DEF PhoneUnlinks, PhoneVanishes, WasReset, CInv, PhoneKnows
  <2> QED
    BY <1>3, <2>2, <2>3, <2>4 DEF PhoneUnlinks, PhoneVanishes, CInv, UdpThread, server
<1> QED
  BY <1>1, <1>2, <1>3

LEMMA CNext == ASSUME CInv, [RNext]_rvars PROVE CInv'
<1>1. ASSUME UNCHANGED <<upc, tcpConn, pending, hpc, conn, sock, links>> PROVE CInv'
  BY <1>1 DEF CInv, PhoneKnows, HandlersKnow, UdpThread, WasReset
<1>2. CASE MonitorSends \/ Loses \/ HandleOutReceives \/ HandleOutSends \/ PhoneReads
  BY <1>1, <1>2 DEF MonitorSends, Loses, HandleOutReceives, HandleOutSends, PhoneReads,
                    server, phone
<1>3. CASE UNCHANGED rvars
  BY <1>1, <1>3 DEF rvars
<1> QED
  BY <1>2, <1>3, CUdp, CTcp, CPhone DEF RNext

\* Only a reset ends the thread that forwards the texts
\* (Server.py:14-18 with 26-36).
THEOREM RelaySurvivesCloseCorrect == RSpec => []RelaySurvivesClose
<1>1. CInv => RelaySurvivesClose
  BY DEF CInv, UdpThread, WasReset, RelaySurvivesClose
<1> QED
  BY <1>1, CInit, CNext, PTL DEF RSpec

-----------------------------------------------------------------------------
(* Sequences of texts                                                      *)

\* Both ends of a sequence that is not empty.
LEMMA HeadThenTail ==
  ASSUME NEW S, NEW s \in Seq(S), s # <<>>
  PROVE  /\ Head(s) \in S /\ Tail(s) \in Seq(S) /\ <<Head(s)>> \in Seq(S)
         /\ s = <<Head(s)>> \o Tail(s)
<1>1. Len(s) \in Nat \ {0}
  BY EmptySeq
<1>2. Head(s) \in S /\ Tail(s) \in Seq(S) /\ Tail(s) = SubSeq(s, 2, Len(s))
  BY HeadTailProperties, TailIsSubSeq
<1>3. SubSeq(s, 1, Len(s)) = <<s[1]>> \o SubSeq(s, 1 + 1, Len(s))
  BY <1>1, SubSeqRecursiveFirst
<1>4. SubSeq(s, 1, Len(s)) = s /\ Head(s) = s[1]
  BY <1>1, SubSeqFull
<1> QED
  BY <1>2, <1>3, <1>4

\* A sequence of one element.
LEMMA OneText ==
  ASSUME NEW S, NEW s \in Seq(S), Len(s) <= 1, s # <<>>
  PROVE  s = <<Head(s)>> /\ Tail(s) = <<>>
<1>1. /\ Tail(s) \in Seq(S) /\ <<Head(s)>> \in Seq(S) /\ s = <<Head(s)>> \o Tail(s)
  BY HeadThenTail
<1>2. Len(Tail(s)) = 0
  <2>1. Len(s) \in Nat \ {0}
    BY EmptySeq
  <2>2. Len(Tail(s)) = Len(s) - 1
    BY HeadTailProperties
  <2> QED
    BY <2>1, <2>2
<1>3. Tail(s) = <<>>
  BY <1>1, <1>2, EmptySeq
<1> QED
  BY <1>1, <1>3, ConcatEmptySeq

\* The head and the tail of a concatenation.
LEMMA HeadOfConcat ==
  ASSUME NEW S, NEW s \in Seq(S), NEW r \in Seq(S), s # <<>>
  PROVE  /\ s \o r # <<>> /\ s \o r \in Seq(S)
         /\ Head(s \o r) = Head(s) /\ Tail(s \o r) = Tail(s) \o r
<1> DEFINE w == s \o r
<1>1. Len(s) \in Nat \ {0} /\ Len(r) \in Nat
  BY EmptySeq, LenProperties
<1>2. /\ w \in Seq(S) /\ Len(w) = Len(s) + Len(r)
      /\ \A i \in 1 .. Len(s) + Len(r) : w[i] = IF i <= Len(s) THEN s[i] ELSE r[i - Len(s)]
  BY ConcatProperties
<1>3. /\ Tail(s) \in Seq(S) /\ Len(Tail(s)) = Len(s) - 1
      /\ \A i \in 1 .. Len(Tail(s)) : Tail(s)[i] = s[i + 1]
  BY HeadTailProperties
<1>4. /\ Tail(s) \o r \in Seq(S) /\ Len(Tail(s) \o r) = Len(Tail(s)) + Len(r)
      /\ \A i \in 1 .. Len(Tail(s)) + Len(r) :
           (Tail(s) \o r)[i] = IF i <= Len(Tail(s)) THEN Tail(s)[i] ELSE r[i - Len(Tail(s))]
  BY <1>3, ConcatProperties
<1> HIDE DEF w
<1>5. w # <<>>
  BY <1>1, <1>2, EmptySeq
<1>6. /\ Tail(w) \in Seq(S) /\ Len(Tail(w)) = Len(w) - 1
      /\ \A i \in 1 .. Len(Tail(w)) : Tail(w)[i] = w[i + 1]
  BY <1>2, <1>5, HeadTailProperties
<1> DEFINE t == Tail(w)  z == Tail(s)  q == z \o r
<1>7. /\ t \in Seq(S) /\ q \in Seq(S) /\ Len(t) = Len(q) /\ Len(q) = Len(s) + Len(r) - 1
      /\ \A i \in 1 .. Len(t) : t[i] = w[i + 1]
      /\ \A i \in 1 .. Len(s) - 1 : z[i] = s[i + 1]
      /\ \A i \in 1 .. Len(s) + Len(r) - 1 :
           q[i] = IF i <= Len(s) - 1 THEN z[i] ELSE r[i - (Len(s) - 1)]
  BY <1>1, <1>2, <1>3, <1>4, <1>6
<1> HIDE DEF t, z, q
<1>8. ASSUME NEW i \in 1 .. Len(t) PROVE t[i] = q[i]
  <2>1. CASE i <= Len(s) - 1
    <3>1. i \in 1 .. Len(s) - 1 /\ i \in 1 .. Len(s) + Len(r) - 1
      BY <1>1, <1>7, <2>1
    <3>2. q[i] = z[i] /\ z[i] = s[i + 1] /\ t[i] = w[i + 1]
      BY <1>7, <2>1, <3>1
    <3>3. i + 1 \in 1 .. Len(s) + Len(r) /\ i + 1 <= Len(s)
      BY <1>1, <3>1
    <3>4. w[i + 1] = s[i + 1]
      BY <1>2, <3>3
    <3> QED
      BY <3>2, <3>4
  <2>2. CASE i > Len(s) - 1
    <3>1. t[i] = r[(i + 1) - Len(s)] /\ q[i] = r[i - (Len(s) - 1)]
      BY <1>1, <1>2, <1>7, <2>2
    <3>2. (i + 1) - Len(s) = i - (Len(s) - 1)
      BY <1>1
    <3> QED
      BY <3>1, <3>2
  <2> QED
    BY <1>1, <1>7, <2>1, <2>2
<1>9. t = q
  BY <1>7, <1>8, SeqEqual
<1>10. Head(w) = w[1] /\ Head(s) = s[1] /\ w[1] = s[1]
  BY <1>1, <1>2
<1> QED
  BY <1>2, <1>5, <1>9, <1>10 DEF w, t, z, q

\* Concatenation, its definition closed: what the regrouping below uses of it.
Cat(s, t) == s \o t

LEMMA CatFacts ==
  ASSUME NEW S
  PROVE  /\ \A s, t \in Seq(S) : Cat(s, t) \in Seq(S)
         /\ \A s, t, u \in Seq(S) : Cat(Cat(s, t), u) = Cat(s, Cat(t, u))
<1>1. ASSUME NEW s \in Seq(S), NEW t \in Seq(S) PROVE Cat(s, t) \in Seq(S)
  BY ConcatProperties DEF Cat
<1>2. ASSUME NEW s \in Seq(S), NEW t \in Seq(S), NEW u \in Seq(S)
      PROVE  Cat(Cat(s, t), u) = Cat(s, Cat(t, u))
  <2>1. (s \o t) \o u = s \o (t \o u)
    BY ConcatAssociative
  <2> QED
    BY <2>1, Zenon DEF Cat
<1> QED
  BY <1>1, <1>2

\* Concatenations of five sequences, from the right and from the left.
Line(a, b, c, d, e) == a \o (b \o (c \o (d \o e)))
Five(a, b, c, d, e) == a \o b \o c \o d \o e

LEMMA LineIsConcat ==
  ASSUME NEW S, NEW a \in Seq(S), NEW b \in Seq(S), NEW c \in Seq(S), NEW d \in Seq(S),
         NEW e \in Seq(S)
  PROVE  /\ Five(a, b, c, d, e) = Line(a, b, c, d, e)
         /\ Line(a, b, c, d, e) \in Seq(S)
<1>1. /\ Five(a, b, c, d, e) = Cat(Cat(Cat(Cat(a, b), c), d), e)
      /\ Line(a, b, c, d, e) = Cat(a, Cat(b, Cat(c, Cat(d, e))))
  BY Zenon DEF Line, Five, Cat
<1>2. /\ Cat(a, b) \in Seq(S) /\ Cat(Cat(a, b), c) \in Seq(S)
      /\ Cat(d, e) \in Seq(S) /\ Cat(c, Cat(d, e)) \in Seq(S)
      /\ Cat(b, Cat(c, Cat(d, e))) \in Seq(S) /\ Cat(a, Cat(b, Cat(c, Cat(d, e)))) \in Seq(S)
  BY CatFacts
<1>3. Cat(Cat(Cat(Cat(a, b), c), d), e) = Cat(Cat(Cat(a, b), c), Cat(d, e))
  BY <1>2, CatFacts
<1>4. Cat(Cat(Cat(a, b), c), Cat(d, e)) = Cat(Cat(a, b), Cat(c, Cat(d, e)))
  BY <1>2, CatFacts
<1>5. Cat(Cat(a, b), Cat(c, Cat(d, e))) = Cat(a, Cat(b, Cat(c, Cat(d, e))))
  BY <1>2, CatFacts
<1> QED
  BY <1>1, <1>2, <1>3, <1>4, <1>5, Zenon

\* What is left, p, of a sequence q of which parts are lost: the places of the
\* others in it, in their order (Datagrams, Lose).
Lost(p, q) ==
  \E i \in [DOMAIN p -> DOMAIN q] :
    /\ \A k, n \in DOMAIN p : k < n => i[k] < i[n]
    /\ \A n \in DOMAIN p : p[n] = q[i[n]]

LEMMA FrontLost ==
  ASSUME NEW S, NEW m \in Seq(S), NEW v \in Seq(S)
  PROVE  Lost(v, m \o v)
<1> DEFINE y == m \o v
<1>1. Len(m) \in Nat /\ Len(v) \in Nat
  BY LenProperties
<1>2. /\ y \in Seq(S) /\ Len(y) = Len(m) + Len(v)
      /\ \A n \in 1 .. Len(m) + Len(v) : y[n] = IF n <= Len(m) THEN m[n] ELSE v[n - Len(m)]
  BY ConcatProperties
<1> HIDE DEF y
<1>3. DOMAIN v = 1 .. Len(v) /\ DOMAIN y = 1 .. Len(m) + Len(v)
  BY <1>2, LenProperties
<1> DEFINE i == [n \in DOMAIN v |-> n + Len(m)]
<1>4. i \in [DOMAIN v -> DOMAIN y] /\ \A k, n \in DOMAIN v : k < n => i[k] < i[n]
  BY <1>1, <1>3
<1>5. ASSUME NEW n \in DOMAIN v PROVE v[n] = y[i[n]]
  <2>1. y[n + Len(m)] = v[(n + Len(m)) - Len(m)]
    BY <1>1, <1>2, <1>3
  <2>2. (n + Len(m)) - Len(m) = n
    BY <1>1, <1>3
  <2> QED
    BY <2>1, <2>2
<1> HIDE DEF i
<1> QED
  BY <1>4, <1>5 DEF Lost, y

LEMMA LostBehind ==
  ASSUME NEW S, NEW u \in Seq(S), NEW p \in Seq(S), NEW q \in Seq(S), Lost(p, q)
  PROVE  Lost(u \o p, u \o q)
<1> DEFINE w == u \o p  y == u \o q
<1>1. Len(u) \in Nat /\ Len(p) \in Nat /\ Len(q) \in Nat
  BY LenProperties
<1>2. /\ w \in Seq(S) /\ Len(w) = Len(u) + Len(p)
      /\ \A n \in 1 .. Len(u) + Len(p) : w[n] = IF n <= Len(u) THEN u[n] ELSE p[n - Len(u)]
  BY ConcatProperties
<1>3. /\ y \in Seq(S) /\ Len(y) = Len(u) + Len(q)
      /\ \A n \in 1 .. Len(u) + Len(q) : y[n] = IF n <= Len(u) THEN u[n] ELSE q[n - Len(u)]
  BY ConcatProperties
<1> HIDE DEF w, y
<1>4. /\ DOMAIN w = 1 .. Len(u) + Len(p) /\ DOMAIN y = 1 .. Len(u) + Len(q)
      /\ DOMAIN p = 1 .. Len(p) /\ DOMAIN q = 1 .. Len(q)
  BY <1>2, <1>3, LenProperties
<1>5. PICK j \in [1 .. Len(p) -> 1 .. Len(q)] :
        /\ \A k, n \in 1 .. Len(p) : k < n => j[k] < j[n]
        /\ \A n \in 1 .. Len(p) : p[n] = q[j[n]]
  BY <1>4 DEF Lost
<1> DEFINE i == [n \in DOMAIN w |-> IF n <= Len(u) THEN n ELSE j[n - Len(u)] + Len(u)]
<1>6. ASSUME NEW n \in DOMAIN w
      PROVE  i[n] \in DOMAIN y /\ w[n] = y[i[n]]
  <2>1. CASE n <= Len(u)
    <3>1. i[n] = n /\ w[n] = u[n] /\ n \in 1 .. Len(u) + Len(q) /\ y[n] = u[n]
      BY <1>1, <1>2, <1>3, <1>4, <2>1
    <3> QED
      BY <1>4, <3>1
  <2>2. CASE n > Len(u)
    <3>1. n - Len(u) \in 1 .. Len(p)
      BY <1>1, <1>4, <2>2
    <3> DEFINE h == j[n - Len(u)]
    <3>2. h \in 1 .. Len(q) /\ p[n - Len(u)] = q[h] /\ i[n] = h + Len(u)
      BY <1>1, <1>4, <1>5, <2>2, <3>1
    <3> HIDE DEF h
    <3>3. w[n] = p[n - Len(u)]
      BY <1>1, <1>2, <1>4, <2>2
    <3>4. h + Len(u) \in 1 .. Len(u) + Len(q) /\ ~(h + Len(u) <= Len(u))
          /\ (h + Len(u)) - Len(u) = h
      BY <1>1, <3>2
    <3>5. y[h + Len(u)] = q[h]
      BY <1>3, <3>4
    <3> QED
      BY <1>4, <3>2, <3>3, <3>4, <3>5
  <2> QED
    BY <1>1, <1>4, <2>1, <2>2
<1>7. ASSUME NEW k \in DOMAIN w, NEW n \in DOMAIN w, k < n
      PROVE  i[k] < i[n]
  <2>1. CASE n <= Len(u)
    BY <1>1, <1>4, <1>7, <2>1
  <2>2. CASE k <= Len(u) /\ n > Len(u)
    <3>1. n - Len(u) \in 1 .. Len(p)
      BY <1>1, <1>4, <2>2
    <3>2. j[n - Len(u)] \in 1 .. Len(q)
      BY <1>5, <3>1
    <3> QED
      BY <1>1, <1>4, <2>2, <3>2
  <2>3. CASE k > Len(u)
    <3>1. n - Len(u) \in 1 .. Len(p) /\ k - Len(u) \in 1 .. Len(p) /\ k - Len(u) < n - Len(u)
      BY <1>1, <1>4, <1>7, <2>3
    <3>2. /\ j[k - Len(u)] < j[n - Len(u)]
          /\ j[k - Len(u)] \in 1 .. Len(q) /\ j[n - Len(u)] \in 1 .. Len(q)
      BY <1>5, <3>1
    <3> QED
      BY <1>1, <1>4, <1>7, <2>3, <3>2
  <2> QED
    BY <1>1, <1>4, <1>7, <2>1, <2>2, <2>3
<1>8. i \in [DOMAIN w -> DOMAIN y]
  BY <1>6
<1> HIDE DEF i
<1> QED
  BY <1>6, <1>7, <1>8 DEF Lost, w, y

\* An element goes from the head of a sequence to the end of the one before it.
LEMMA Moves ==
  ASSUME NEW S, NEW x \in S, NEW p \in Seq(S), NEW r \in Seq(S)
  PROVE  Append(p, x) \o r = p \o (<<x>> \o r)
<1>1. <<x>> \in Seq(S) /\ Append(p, x) = p \o <<x>>
  BY AppendIsConcat
<1> DEFINE m == <<x>>
<1>2. m \in Seq(S) /\ Append(p, x) = p \o m
  BY <1>1
<1> HIDE DEF m
<1>3. (p \o m) \o r = p \o (m \o r)
  BY <1>2, ConcatAssociative
<1> QED
  BY <1>2, <1>3 DEF m

\* The head of a sequence is taken out of it.
LEMMA TakenOut ==
  ASSUME NEW S, NEW q \in Seq(S), NEW r \in Seq(S), q # <<>>
  PROVE  /\ Head(q) \in S /\ Tail(q) \in Seq(S)
         /\ q \o r = <<Head(q)>> \o (Tail(q) \o r)
<1> DEFINE m == <<Head(q)>>  t == Tail(q)
<1>1. m \in Seq(S) /\ t \in Seq(S) /\ q = m \o t /\ Head(q) \in S
  BY HeadThenTail
<1> HIDE DEF m, t
<1>2. (m \o t) \o r = m \o (t \o r)
  BY <1>1, ConcatAssociative
<1> QED
  BY <1>1, <1>2 DEF m, t

\* A new text goes to the end.
LEMMA AppendBehind ==
  ASSUME NEW S, NEW p \in Seq(S), NEW q \in Seq(S), NEW x \in S
  PROVE  p \o Append(q, x) = Append(p \o q, x) /\ p \o q \in Seq(S)
<1> DEFINE m == <<x>>  v == p \o q
<1>1. v \in Seq(S) /\ m \in Seq(S) /\ Append(q, x) = q \o m
  BY ConcatProperties, AppendIsConcat
<1>2. Append(v, x) = v \o m
  <2> HIDE DEF v
  <2> QED
    BY <1>1, AppendIsConcat
<1> HIDE DEF m
<1>3. (p \o q) \o m = p \o (q \o m)
  BY <1>1, ConcatAssociative
<1> QED
  BY <1>1, <1>2, <1>3

\* (Under a name of its own, under which the provers match it.)
Grown(s, x) == Append(s, x)

LEMMA LineGrows ==
  ASSUME NEW S, NEW a \in Seq(S), NEW b \in Seq(S), NEW c \in Seq(S), NEW d \in Seq(S),
         NEW e \in Seq(S), NEW x \in S
  PROVE  Line(a, b, c, d, Grown(e, x)) = Grown(Line(a, b, c, d, e), x)
<1> DEFINE de == d \o e  cde == c \o de  bcde == b \o cde
<1>1. de \in Seq(S) /\ d \o Append(e, x) = Append(de, x)
  <2>1. d \o e \in Seq(S)
    BY ConcatProperties
  <2>2. d \o Append(e, x) = Append(d \o e, x)
    BY AppendBehind
  <2> QED
    BY <2>1, <2>2, Zenon
<1> HIDE DEF de
<1>2. cde \in Seq(S) /\ c \o Append(de, x) = Append(cde, x)
  BY <1>1, AppendBehind
<1> HIDE DEF cde
<1>3. bcde \in Seq(S) /\ b \o Append(cde, x) = Append(bcde, x)
  BY <1>2, AppendBehind
<1> HIDE DEF bcde
<1>4. a \o Append(bcde, x) = Append(a \o bcde, x)
  BY <1>3, AppendBehind
<1> QED
  BY <1>1, <1>2, <1>3, <1>4 DEF Line, Grown, de, cde, bcde

\* What is lost of the third, the fifth, the second or the first part of a line.
LEMMA LineLoses ==
  ASSUME NEW S, NEW a \in Seq(S), NEW b \in Seq(S), NEW c \in Seq(S), NEW d \in Seq(S),
         NEW e \in Seq(S)
  PROVE  /\ Lost(Line(<<>>, b, c, d, e), Line(a, b, c, d, e))
         /\ Lost(Line(a, <<>>, c, d, e), Line(a, b, c, d, e))
         /\ c # <<>> => Lost(Line(a, b, Tail(c), d, e), Line(a, b, c, d, e))
         /\ e # <<>> => Lost(Line(a, b, c, d, Tail(e)), Line(a, b, c, d, e))
<1> DEFINE de == d \o e  cde == c \o de  bcde == b \o cde
<1>1. de \in Seq(S)
  BY ConcatProperties
<1>2. cde \in Seq(S)
  <2> HIDE DEF de
  <2> QED
    BY <1>1, ConcatProperties
<1>3. bcde \in Seq(S)
  <2> HIDE DEF cde
  <2> QED
    BY <1>2, ConcatProperties
<1>4. Lost(<<>> \o bcde, a \o bcde)
  <2> HIDE DEF bcde
  <2>1. <<>> \o bcde = bcde
    BY <1>3, ConcatEmptySeq
  <2> QED
    BY <1>3, <2>1, FrontLost
<1>5. Lost(a \o (<<>> \o cde), a \o (b \o cde))
  <2> HIDE DEF cde, bcde
  <2>1. <<>> \o cde = cde
    BY <1>2, ConcatEmptySeq
  <2>2. Lost(cde, b \o cde)
    BY <1>2, FrontLost
  <2>3. b \o cde \in Seq(S)
    BY <1>3 DEF bcde
  <2> QED
    BY <1>2, <2>1, <2>2, <2>3, LostBehind
<1>6. ASSUME NEW p \in Seq(S), NEW q \in Seq(S), Lost(p, q)
      PROVE  Lost(a \o (b \o p), a \o (b \o q))
  <2> HIDE DEF de, cde, bcde
  <2>1. Lost(b \o p, b \o q)
    BY <1>6, LostBehind
  <2>2. b \o p \in Seq(S) /\ b \o q \in Seq(S)
    BY ConcatProperties
  <2> QED
    BY <2>1, <2>2, LostBehind
<1>7. ASSUME c # <<>>
      PROVE  Lost(a \o (b \o (Tail(c) \o de)), a \o (b \o (c \o de)))
  <2> HIDE DEF de, bcde
  <2> DEFINE t == Tail(c)  m == <<Head(c)>>  tde == t \o de
  <2>1. /\ m \in Seq(S) /\ t \in Seq(S)
    BY <1>7, HeadThenTail
  <2>2. cde = m \o tde
    BY <1>1, <1>7, TakenOut
  <2> HIDE DEF m, t, cde
  <2>3. tde \in Seq(S)
    BY <1>1, <2>1, ConcatProperties
  <2> HIDE DEF tde
  <2>4. Lost(tde, cde)
    BY <2>1, <2>2, <2>3, FrontLost
  <2>5. Lost(a \o (b \o tde), a \o (b \o cde))
    BY <1>2, <1>6, <2>3, <2>4
  <2> QED
    BY <2>5 DEF tde, t, cde
<1>8. ASSUME e # <<>>
      PROVE  Lost(a \o (b \o (c \o (d \o Tail(e)))), a \o (b \o (c \o (d \o e))))
  <2> DEFINE t == Tail(e)  m == <<Head(e)>>  dt == d \o t  cdt == c \o dt
  <2>1. /\ m \in Seq(S) /\ t \in Seq(S) /\ e = m \o t
    BY <1>8, HeadThenTail
  <2> HIDE DEF m, t, de, cde, bcde
  <2>2. Lost(t, e)
    BY <2>1, FrontLost
  <2>3. dt \in Seq(S) /\ Lost(dt, de)
    BY <2>1, <2>2, LostBehind, ConcatProperties DEF de
  <2> HIDE DEF dt
  <2>4. cdt \in Seq(S) /\ Lost(cdt, cde)
    BY <1>1, <2>3, LostBehind, ConcatProperties DEF cde
  <2> HIDE DEF cdt
  <2>5. Lost(a \o (b \o cdt), a \o (b \o cde))
    BY <1>2, <1>6, <2>4
  <2> QED
    BY <2>5 DEF cdt, dt, t, cde, de
<1> QED
  BY <1>4, <1>5, <1>7, <1>8 DEF Line

-----------------------------------------------------------------------------
(* The texts on their way                                                  *)

Text == 1 .. MaxTexts

\* The line of the phone that is linked.
Linked == IF sock = 0 THEN <<>> ELSE stream[sock]

\* Sequences of texts; a thread holds one at most, and handle_udp only between
\* its recvfrom and its send; nothing is on a line that is not open yet.
TextTypes ==
  /\ texts \in 0..MaxTexts
  /\ ethQ \in Seq(Text) /\ outData \in Seq(Text) /\ udpQ \in Seq(Text) /\ data \in Seq(Text)
  /\ stream \in [Conn -> Seq(Text)]
  /\ Len(outData) <= 1 /\ Len(data) <= 1
  /\ upc \in {"recv", "dead"} <=> data = <<>>
  /\ \A c \in Conn : c > links => stream[c] = <<>>

TInv == CInv /\ TextTypes

LEMMA TextInit == ASSUME RInit PROVE TextTypes
<1>1. <<>> \in Seq(Text) /\ Len(<<>>) = 0
  BY EmptySeq
<1>2. MaxTexts \in Nat
  BY RelayAssumption
<1> QED
  BY <1>1, <1>2 DEF RInit, TextTypes

LEMMA OnWayIsLine ==
  ASSUME TInv
  PROVE  Linked \in Seq(Text) /\ OnWay = Line(Linked, data, udpQ, outData, ethQ)
<1>1. Linked \in Seq(Text)
  <2>1. CASE sock = 0
    BY <2>1, EmptySeq DEF Linked
  <2>2. CASE sock # 0
    <3>1. sock \in Conn
      BY <2>2, RelayAssumption DEF TInv, CInv, PhoneKnows, Conn
    <3> QED
      BY <2>2, <3>1 DEF Linked, TInv, TextTypes
  <2> QED
    BY <2>1, <2>2
<1>2. OnWay = Five(Linked, data, udpQ, outData, ethQ)
  BY DEF OnWay, Linked, Five
<1> QED
  BY <1>1, <1>2, LineIsConcat DEF TInv, TextTypes

\* The same of the next state.
LEMMA OnWayNext ==
  ASSUME TInv'
  PROVE  Linked' \in Seq(Text) /\ OnWay' = Line(Linked', data', udpQ', outData', ethQ')
<1>1. Linked' \in Seq(Text)
  <2>1. CASE sock' = 0
    BY <2>1, EmptySeq DEF Linked
  <2>2. CASE sock' # 0
    <3>1. sock' \in Conn
      BY <2>2, RelayAssumption DEF TInv, CInv, PhoneKnows, Conn
    <3> QED
      BY <2>2, <3>1 DEF Linked, TInv, TextTypes
  <2> QED
    BY <2>1, <2>2
<1>2. OnWay' = Five(Linked', data', udpQ', outData', ethQ')
  BY DEF OnWay, Linked, Five
<1> QED
  BY <1>1, <1>2, LineIsConcat DEF TInv, TextTypes

\* The monitor sends a text.
LEMMA SendsStep ==
  ASSUME TInv, CInv', MonitorSends
  PROVE  TextTypes' /\ Texts!Send
<1>1. texts + 1 \in Text /\ texts' = texts + 1 /\ ethQ' = Append(ethQ, texts + 1)
  BY RelayAssumption DEF TInv, TextTypes, MonitorSends, Text
<1>2. UNCHANGED <<outData, udpQ, data, stream, sock, links, upc, received>>
  BY DEF MonitorSends, server, phone
<1>3. TextTypes'
  <2>1. ethQ' \in Seq(Text) /\ texts' \in 0..MaxTexts
    BY <1>1, AppendProperties DEF TInv, TextTypes, Text
  <2> QED
    BY <1>2, <2>1 DEF TInv, TextTypes
<1>4. OnWay' = Line(Linked, data, udpQ, outData, Append(ethQ, texts + 1))
  BY <1>1, <1>2, <1>3, OnWayNext DEF TInv, Linked
<1>5. OnWay' = Append(OnWay, texts + 1)
  <2> DEFINE x == texts + 1
  <2>1. x \in Text /\ ethQ' = Grown(ethQ, x)
    BY <1>1 DEF Grown
  <2>2. OnWay' = Line(Linked, data, udpQ, outData, ethQ')
    BY <1>1, <1>4
  <2> HIDE DEF x
  <2>3. /\ Linked \in Seq(Text) /\ OnWay = Line(Linked, data, udpQ, outData, ethQ)
        /\ data \in Seq(Text) /\ udpQ \in Seq(Text)
        /\ outData \in Seq(Text) /\ ethQ \in Seq(Text)
    BY OnWayIsLine DEF TInv, TextTypes
  <2>4. Line(Linked, data, udpQ, outData, Grown(ethQ, x))
          = Grown(Line(Linked, data, udpQ, outData, ethQ), x)
    BY <2>1, <2>3, LineGrows
  <2> QED
    BY <2>1, <2>2, <2>3, <2>4 DEF x, Grown
<1> QED
  BY <1>1, <1>2, <1>3, <1>5 DEF Texts!Send, Text

\* A step that loses a part of what is on the way.
LEMMA LoseStep ==
  ASSUME Lost(OnWay', OnWay), UNCHANGED received
  PROVE  Texts!Lose
  BY DEF Lost, Texts!Lose

\* A datagram is lost.
LEMMA LosesStep ==
  ASSUME TInv, CInv', Loses
  PROVE  TextTypes' /\ Texts!Lose
<1>1. UNCHANGED <<texts, outData, data, stream, sock, links, upc, received>>
  BY DEF Loses, server, phone
<1>2. Linked' = Linked
  BY <1>1 DEF Linked
<1>3. CASE ethQ # <<>> /\ ethQ' = Tail(ethQ) /\ UNCHANGED udpQ
  <2>1. TextTypes'
    BY <1>1, <1>3, HeadTailProperties DEF TInv, TextTypes
  <2>2. OnWay' = Line(Linked, data, udpQ, outData, Tail(ethQ))
    BY <1>1, <1>2, <1>3, <2>1, OnWayNext DEF TInv
  <2>3. Lost(OnWay', OnWay)
    BY <1>3, <2>2, OnWayIsLine, LineLoses DEF TInv, TextTypes
  <2> QED
    BY <1>1, <2>1, <2>3, LoseStep
<1>4. CASE udpQ # <<>> /\ udpQ' = Tail(udpQ) /\ UNCHANGED ethQ
  <2>1. TextTypes'
    BY <1>1, <1>4, HeadTailProperties DEF TInv, TextTypes
  <2>2. OnWay' = Line(Linked, data, Tail(udpQ), outData, ethQ)
    BY <1>1, <1>2, <1>4, <2>1, OnWayNext DEF TInv
  <2>3. Lost(OnWay', OnWay)
    BY <1>4, <2>2, OnWayIsLine, LineLoses DEF TInv, TextTypes
  <2> QED
    BY <1>1, <2>1, <2>3, LoseStep
<1> QED
  BY <1>3, <1>4 DEF Loses

\* A datagram is handed on: what is on the way stays the same.
LEMMA HandOnStep ==
  ASSUME TInv, CInv', HandleOutReceives \/ HandleOutSends \/ UdpReceives
  PROVE  TextTypes' /\ UNCHANGED <<OnWay, received>>
<1>1. UNCHANGED <<texts, stream, sock, links, received>> /\ Linked' = Linked
  BY DEF HandleOutReceives, HandleOutSends, UdpReceives, server, phone, Linked
<1>2. OnWay = Line(Linked, data, udpQ, outData, ethQ)
  BY OnWayIsLine
<1>3. CASE HandleOutReceives
  <2>1. /\ outData = <<>> /\ ethQ # <<>> /\ ethQ' = Tail(ethQ)
        /\ outData' = <<Head(ethQ)>> \o <<>> /\ UNCHANGED <<udpQ, data, upc>>
    BY <1>3 DEF HandleOutReceives, OutTakes, server
  <2>2. /\ Tail(ethQ) \in Seq(Text) /\ <<Head(ethQ)>> \in Seq(Text)
        /\ ethQ = <<Head(ethQ)>> \o Tail(ethQ)
    BY <2>1, HeadThenTail DEF TInv, TextTypes
  <2>3. outData' = <<Head(ethQ)>>
    BY <2>1, <2>2, ConcatEmptySeq
  <2>4. TextTypes'
    BY <1>1, <2>1, <2>2, <2>3 DEF TInv, TextTypes
  <2>5. OnWay' = Line(Linked, data, udpQ, outData', ethQ')
    BY <1>1, <2>1, <2>4, OnWayNext DEF TInv
  <2>6. outData' \o ethQ' = outData \o ethQ
    BY <2>1, <2>2, <2>3, ConcatEmptySeq DEF TInv, TextTypes
  <2> QED
    BY <1>1, <1>2, <2>4, <2>5, <2>6 DEF Line
<1>4. CASE HandleOutSends
  <2>1. /\ outData # <<>> /\ udpQ' = Append(udpQ, Head(outData))
        /\ outData' = Tail(outData) /\ UNCHANGED <<ethQ, data, upc>>
    BY <1>4 DEF HandleOutSends, server
  <2>2. outData = <<Head(outData)>> /\ outData' = <<>>
    BY <2>1, OneText DEF TInv, TextTypes
  <2>3. Head(outData) \in Text
    BY <2>1, HeadThenTail DEF TInv, TextTypes
  <2> DEFINE x == Head(outData)
  <2>4. x \in Text /\ outData = <<x>> /\ udpQ' = Append(udpQ, x) /\ <<>> \in Seq(Text)
    BY <2>1, <2>2, <2>3, EmptySeq
  <2> HIDE DEF x
  <2>5. udpQ' \in Seq(Text)
    BY <2>4, AppendProperties DEF TInv, TextTypes
  <2>6. TextTypes'
    BY <1>1, <2>1, <2>2, <2>4, <2>5, EmptySeq DEF TInv, TextTypes
  <2>7. OnWay' = Line(Linked, data, udpQ', <<>>, ethQ)
    BY <1>1, <2>1, <2>2, <2>6, OnWayNext DEF TInv
  <2>8. Append(udpQ, x) \o ethQ = udpQ \o (<<x>> \o ethQ)
    BY <2>4, Moves DEF TInv, TextTypes
  <2>9. <<>> \o ethQ = ethQ
    BY ConcatEmptySeq DEF TInv, TextTypes
  <2>10. udpQ' \o (<<>> \o ethQ) = udpQ \o (outData \o ethQ)
    BY <2>4, <2>8, <2>9
  <2> QED
    BY <1>1, <1>2, <2>6, <2>7, <2>10 DEF Line
<1>5. CASE UdpReceives
  <2>1. /\ data = <<>> /\ udpQ # <<>> /\ data' = <<Head(udpQ)>> /\ udpQ' = Tail(udpQ)
        /\ upc' = "test" /\ UNCHANGED <<ethQ, outData>>
    BY <1>5 DEF UdpReceives, TInv, TextTypes
  <2>2. Tail(udpQ) \in Seq(Text) /\ <<Head(udpQ)>> \in Seq(Text)
    BY <2>1, HeadThenTail DEF TInv, TextTypes
  <2>3. TextTypes'
    BY <1>1, <2>1, <2>2 DEF TInv, TextTypes
  <2>4. OnWay' = Line(Linked, data', udpQ', outData, ethQ)
    BY <1>1, <2>1, <2>3, OnWayNext DEF TInv
  <2> DEFINE oe == outData \o ethQ  ue == udpQ \o oe
  <2>5. oe \in Seq(Text)
    BY ConcatProperties DEF TInv, TextTypes
  <2> HIDE DEF oe
  <2>6. udpQ \o oe = <<Head(udpQ)>> \o (Tail(udpQ) \o oe)
    BY <2>1, <2>5, TakenOut DEF TInv, TextTypes
  <2>7. ue \in Seq(Text)
    BY <2>5, ConcatProperties DEF TInv, TextTypes
  <2>8. <<>> \o ue = ue
    <3> HIDE DEF ue
    <3> QED
      BY <2>7, ConcatEmptySeq
  <2>9. data' \o (udpQ' \o oe) = data \o (udpQ \o oe)
    BY <2>1, <2>6, <2>8
  <2> QED
    BY <1>1, <1>2, <2>3, <2>4, <2>9 DEF Line, oe
<1> QED
  BY <1>3, <1>4, <1>5

\* handle_udp drops its datagram, or goes on with it.
LEMMA TestStep ==
  ASSUME TInv, CInv', UdpTests
  PROVE  TextTypes' /\ (Texts!Lose \/ UNCHANGED <<OnWay, received>>)
<1>1. UNCHANGED <<texts, ethQ, outData, udpQ, stream, sock, links, received>> /\ Linked' = Linked
  BY DEF UdpTests, phone, Linked
<1>2. OnWay = Line(Linked, data, udpQ, outData, ethQ)
  BY OnWayIsLine
<1>3. CASE upc' = "send" /\ UNCHANGED data
  <2>1. TextTypes'
    BY <1>1, <1>3 DEF TInv, TextTypes, UdpTests
  <2>2. OnWay' = Line(Linked, data, udpQ, outData, ethQ)
    BY <1>1, <1>3, <2>1, OnWayNext DEF TInv
  <2> QED
    BY <1>1, <1>2, <2>1, <2>2
<1>4. CASE upc' = "recv" /\ data' = <<>>
  <2>1. TextTypes'
    BY <1>1, <1>4, EmptySeq DEF TInv, TextTypes
  <2>2. OnWay' = Line(Linked, <<>>, udpQ, outData, ethQ)
    BY <1>1, <1>4, <2>1, OnWayNext DEF TInv
  <2>3. Lost(OnWay', OnWay)
    BY <1>2, <2>2, OnWayIsLine, LineLoses DEF TInv, TextTypes
  <2> QED
    BY <1>1, <2>1, <2>3, LoseStep
<1> QED
  BY <1>3, <1>4 DEF UdpTests

\* handle_udp sends its datagram on the connection of the phone, or it is lost.
LEMMA SendStep ==
  ASSUME TInv, CInv', UdpSends
  PROVE  TextTypes' /\ (Texts!Lose \/ UNCHANGED <<OnWay, received>>)
<1>1. /\ UNCHANGED <<texts, ethQ, outData, udpQ, sock, links, received>>
      /\ data' = <<>> /\ upc' \in {"recv", "dead"} /\ data # <<>>
  BY DEF UdpSends, phone, TInv, TextTypes
<1>2. OnWay = Line(Linked, data, udpQ, outData, ethQ) /\ Linked \in Seq(Text)
  BY OnWayIsLine
<1>3. CASE UNCHANGED stream
  <2>1. TextTypes'
    BY <1>1, <1>3, EmptySeq DEF TInv, TextTypes
  <2>2. Linked' = Linked
    BY <1>1, <1>3 DEF Linked
  <2>3. OnWay' = Line(Linked, <<>>, udpQ, outData, ethQ)
    BY <1>1, <2>1, <2>2, OnWayNext DEF TInv
  <2>4. Lost(OnWay', OnWay)
    BY <1>2, <2>3, LineLoses DEF TInv, TextTypes
  <2> QED
    BY <1>1, <2>1, <2>4, LoseStep
<1>4. CASE Raises = {"none"} /\ stream' = [stream EXCEPT ![tcpConn] = Append(@, Head(data))]
  <2>1. tcpConn # 0
    BY <1>4 DEF Raises
  <2>2. tcpConn \in Conn /\ conn[tcpConn] = "open"
    <3>1. "BrokenPipeError" \notin Raises
      BY <1>4
    <3> QED
      BY <2>1, <3>1, WhatIsRaised DEF TInv
  <2>3. sock = tcpConn /\ sock # 0 /\ sock <= links
    BY <2>1, <2>2 DEF TInv, CInv, PhoneKnows
  <2> DEFINE x == Head(data)
  <2>4. x \in Text /\ data = <<x>>
    BY <1>1, OneText, HeadThenTail DEF TInv, TextTypes
  <2>5. stream[sock] = Linked /\ stream' = [stream EXCEPT ![sock] = Append(Linked, x)]
    BY <1>4, <2>3 DEF Linked
  <2> HIDE DEF x
  <2>6. Append(Linked, x) \in Seq(Text)
    BY <1>2, <2>4, AppendProperties
  <2>7. stream' \in [Conn -> Seq(Text)] /\ Linked' = Append(Linked, x)
    BY <1>1, <2>2, <2>3, <2>5, <2>6 DEF TInv, TextTypes, Linked
  <2>8. \A c \in Conn : c > links => stream'[c] = <<>>
    BY <2>2, <2>3, <2>5 DEF TInv, TextTypes, CInv, PhoneKnows, Conn
  <2>9. TextTypes'
    BY <1>1, <2>7, <2>8, EmptySeq DEF TInv, TextTypes
  <2>10. OnWay' = Line(Append(Linked, x), <<>>, udpQ, outData, ethQ)
    BY <1>1, <2>7, <2>9, OnWayNext DEF TInv
  <2> DEFINE oe == outData \o ethQ  ue == udpQ \o oe
  <2>11. oe \in Seq(Text)
    BY ConcatProperties DEF TInv, TextTypes
  <2>12. ue \in Seq(Text)
    <3> HIDE DEF oe
    <3> QED
      BY <2>11, ConcatProperties DEF TInv, TextTypes
  <2> HIDE DEF ue
  <2>13. <<>> \o ue = ue /\ Append(Linked, x) \o ue = Linked \o (<<x>> \o ue)
    BY <1>2, <2>4, <2>12, ConcatEmptySeq, Moves
  <2>14. OnWay' = OnWay
    BY <1>2, <2>4, <2>10, <2>13 DEF Line, ue
  <2> QED
    BY <1>1, <2>9, <2>14
<1> QED
  BY <1>3, <1>4 DEF UdpSends

\* The phone links itself, with nothing on the new line, or its line ends, with
\* all that is on it.
LEMMA LinkStep ==
  ASSUME TInv, CInv', PhoneLinks \/ PhoneUnlinks \/ PhoneVanishes
  PROVE  TextTypes' /\ (Texts!Lose \/ UNCHANGED <<OnWay, received>>)
<1>1. UNCHANGED <<texts, ethQ, outData, udpQ, data, upc, stream, received>>
  BY DEF PhoneLinks, PhoneUnlinks, PhoneVanishes, server
<1>2. OnWay = Line(Linked, data, udpQ, outData, ethQ) /\ Linked \in Seq(Text)
  BY OnWayIsLine
<1>3. CASE PhoneLinks
  <2>1. /\ sock = 0 /\ links' = links + 1 /\ sock' = links + 1
        /\ links + 1 \in Conn /\ links \in Nat
    BY <1>3, RelayAssumption DEF PhoneLinks, TInv, CInv, PhoneKnows, Conn
  <2>2. stream[links + 1] = <<>> /\ \A c \in Conn : c > links' => stream[c] = <<>>
    BY <2>1 DEF TInv, TextTypes, Conn
  <2>3. TextTypes'
    BY <1>1, <2>2 DEF TInv, TextTypes
  <2>4. Linked' = Linked
    BY <1>1, <2>1, <2>2 DEF Linked
  <2>5. OnWay' = Line(Linked, data, udpQ, outData, ethQ)
    BY <1>1, <2>3, <2>4, OnWayNext DEF TInv
  <2> QED
    BY <1>1, <1>2, <2>3, <2>5
<1>4. CASE PhoneUnlinks \/ PhoneVanishes
  <2>1. sock' = 0 /\ links' = links
    BY <1>4 DEF PhoneUnlinks, PhoneVanishes
  <2>2. TextTypes' /\ Linked' = <<>>
    BY <1>1, <2>1 DEF TInv, TextTypes, Linked
  <2>3. OnWay' = Line(<<>>, data, udpQ, outData, ethQ)
    BY <1>1, <2>2, OnWayNext DEF TInv
  <2>4. Lost(OnWay', OnWay)
    BY <1>2, <2>3, LineLoses DEF TInv, TextTypes
  <2> QED
    BY <1>1, <2>2, <2>4, LoseStep
<1> QED
  BY <1>3, <1>4

\* The phone shows the text that was sent first.
LEMMA ReadsStep ==
  ASSUME TInv, CInv', PhoneReads
  PROVE  TextTypes' /\ Texts!Receive
<1>1. /\ UNCHANGED <<texts, ethQ, outData, udpQ, data, upc, sock, links>>
      /\ sock # 0 /\ received' = Append(received, Head(stream[sock]))
      /\ stream[sock] # <<>> /\ stream' = [stream EXCEPT ![sock] = Tail(stream[sock])]
  BY DEF PhoneReads, server
<1>2. OnWay = Line(Linked, data, udpQ, outData, ethQ) /\ Linked \in Seq(Text)
  BY OnWayIsLine
<1>3. Linked = stream[sock] /\ Linked # <<>> /\ sock \in Conn /\ sock <= links
  BY <1>1, RelayAssumption DEF Linked, TInv, CInv, PhoneKnows, Conn
<1>4. Tail(Linked) \in Seq(Text)
  BY <1>2, <1>3, HeadTailProperties
<1>5. /\ stream' \in [Conn -> Seq(Text)] /\ Linked' = Tail(Linked)
      /\ \A c \in Conn : c # sock => stream'[c] = stream[c]
  BY <1>1, <1>3, <1>4 DEF TInv, TextTypes, Linked
<1>6. \A c \in Conn : c > links => stream'[c] = <<>>
  BY <1>3, <1>5, RelayAssumption DEF TInv, TextTypes, CInv, PhoneKnows, Conn
<1>7. TextTypes'
  BY <1>1, <1>5, <1>6 DEF TInv, TextTypes
<1>8. OnWay' = Line(Tail(Linked), data, udpQ, outData, ethQ)
  BY <1>1, <1>5, <1>7, OnWayNext DEF TInv
<1> DEFINE oe == outData \o ethQ  ue == udpQ \o oe  rest == data \o ue
<1>9. oe \in Seq(Text)
  BY ConcatProperties DEF TInv, TextTypes
<1>10. ue \in Seq(Text)
  <2> HIDE DEF oe
  <2> QED
    BY <1>9, ConcatProperties DEF TInv, TextTypes
<1>11. rest \in Seq(Text)
  <2> HIDE DEF ue
  <2> QED
    BY <1>10, ConcatProperties DEF TInv, TextTypes
<1>12. OnWay = Linked \o rest /\ OnWay' = Tail(Linked) \o rest
  BY <1>2, <1>8 DEF Line
<1> HIDE DEF rest
<1>13. OnWay # <<>> /\ Head(OnWay) = Head(Linked) /\ Tail(OnWay) = OnWay'
  <2>1. /\ Linked \o rest # <<>> /\ Head(Linked \o rest) = Head(Linked)
        /\ Tail(Linked \o rest) = Tail(Linked) \o rest
    <3> DEFINE q == Linked
    <3>1. q \in Seq(Text) /\ q # <<>>
      BY <1>2, <1>3
    <3> HIDE DEF q, oe, ue
    <3>2. q \o rest # <<>> /\ Head(q \o rest) = Head(q) /\ Tail(q \o rest) = Tail(q) \o rest
      BY <1>11, <3>1, HeadOfConcat
    <3> QED
      BY <3>2 DEF q
  <2> QED
    BY <1>12, <2>1
<1> QED
  BY <1>1, <1>3, <1>7, <1>13 DEF Texts!Receive

\* What the accept loop and the handlers do to the connections is not seen.
LEMMA OtherStep ==
  ASSUME TInv,
         \/ Accepts \/ UNCHANGED rvars
         \/ \E c \in Conn : TcpSets(c) \/ TcpFails(c) \/ TcpClears(c) \/ TcpCloses(c)
  PROVE  TextTypes' /\ UNCHANGED <<OnWay, received>>
<1>1. UNCHANGED <<texts, ethQ, outData, udpQ, data, upc, stream, sock, links, received>>
  BY DEF Accepts, TcpSets, TcpFails, TcpClears, TcpCloses, phone, rvars
<1> QED
  BY <1>1 DEF TInv, TextTypes, OnWay

LEMMA TextNext ==
  ASSUME TInv, [RNext]_rvars
  PROVE  TInv' /\ [Texts!DNext]_(Texts!dvars)
<1>1. CInv'
  BY CNext DEF TInv
<1>2. TextTypes' /\ (Texts!DNext \/ UNCHANGED <<OnWay, received>>)
  BY <1>1, SendsStep, LosesStep, HandOnStep, TestStep, SendStep, LinkStep, ReadsStep, OtherStep
     DEF RNext, Texts!DNext
<1> QED
  BY <1>1, <1>2 DEF TInv, Texts!dvars

\* The phone shows the texts in the order in which the monitor sent them, and
\* none twice (NAT.py:29-36, Server.py:5-18): the relay implements Datagrams.
THEOREM TextsInOrderCorrect == RSpec => TextsInOrder
<1>1. RInit => TInv /\ Texts!DInit
  <2> SUFFICES ASSUME RInit PROVE TInv /\ Texts!DInit
    OBVIOUS
  <2>1. TInv
    BY CInit, TextInit DEF TInv
  <2>2. OnWay = <<>> \o <<>> \o <<>> \o <<>> \o <<>> /\ received = <<>>
    BY DEF RInit, OnWay
  <2>3. <<>> \o <<>> = <<>>
    OBVIOUS
  <2> QED
    BY <2>1, <2>2, <2>3 DEF Texts!DInit
<1>2. TInv /\ [RNext]_rvars => TInv' /\ [Texts!DNext]_(Texts!dvars)
  BY TextNext
<1> QED
  BY <1>1, <1>2, PTL DEF RSpec, TextsInOrder, Texts!DSpec

\* The types of the relay's variables, and which connections its threads know.
THEOREM RTypeCorrect == RSpec => []RTypeOK
<1>1. RInit => TInv
  BY CInit, TextInit DEF TInv
<1>2. TInv /\ [RNext]_rvars => TInv'
  BY TextNext
<1>3. TInv => RTypeOK
  <2> SUFFICES ASSUME TInv PROVE RTypeOK
    OBVIOUS
  <2>1. {ethQ, outData, udpQ, data} \subseteq Seq(1..MaxTexts)
    BY DEF TInv, TextTypes, Text
  <2>2. \A c \in Conn : (conn[c] = "none") = (c > links)
                        /\ (conn[c] = "open") = (c = sock /\ c > 0)
    BY RelayAssumption DEF TInv, CInv, PhoneKnows, Conn
  <2> QED
    BY <2>1, <2>2 DEF RTypeOK, TInv, TextTypes, CInv, PhoneKnows, HandlersKnow, UdpThread
<1> QED
  BY <1>1, <1>2, <1>3, PTL DEF RSpec
=============================================================================
