------------------------------- MODULE Relay -------------------------------
(***************************************************************************)
(* How a text of the monitor reaches the phone: the two sockets and the    *)
(* thread handle_OUT of NAT.py, the UDP thread, the accept loop and the    *)
(* thread per connection of Server.py, the connection and the reader of    *)
(* MainActivity.java.  Texts are numbered in the order of their sending.   *)
(*                                                                         *)
(* The network may lose a datagram; the path to the server is taken to     *)
(* keep their order.  The phone's user waits for a click to take effect    *)
(* before the next one.  Orders go the other way through the same threads; *)
(* of that way only what it does to the connections is modelled.           *)
(***************************************************************************)
EXTENDS Integers, Sequences

CONSTANTS
  MaxTexts,   \* bound: texts the monitor sends
  MaxLinks    \* bound: connections the phone opens

ASSUME RelayAssumption == {MaxTexts, MaxLinks} \subseteq Nat \ {0}

VARIABLES
  texts,      \* texts sent so far
  ethQ,       \* datagrams in eth_sock
  outData,    \* the datagram handle_OUT holds while it sleeps
  udpQ,       \* datagrams in the server's udp_sock
  upc,        \* where handle_udp is
  data,       \* the datagram it holds
  tcpConn,    \* tcp_connection
  conn,       \* state of each connection
  pending,    \* accepted by the phone's stack, not yet by the accept loop
  hpc,        \* where each handle_tcp is
  stream,     \* lines on the way to the phone on each connection
  sock,       \* the socket of the phone, 0 if not linked
  links,      \* connections opened so far
  received    \* lines the phone has shown

rvars == <<texts, ethQ, outData, udpQ, upc, data, tcpConn, conn, pending, hpc,
           stream, sock, links, received>>

Conn == 1 .. MaxLinks

RInit ==
  /\ texts = 0 /\ ethQ = <<>> /\ outData = <<>> /\ udpQ = <<>>
  /\ upc = "recv" /\ data = <<>> /\ tcpConn = 0
  /\ conn = [c \in Conn |-> "none"] /\ pending = <<>>
  /\ hpc = [c \in Conn |-> "none"] /\ stream = [c \in Conn |-> <<>>]
  /\ sock = 0 /\ links = 0 /\ received = <<>>

server == <<upc, data, tcpConn, pending, hpc>>
phone  == <<sock, links, received>>

-----------------------------------------------------------------------------
(* The monitor, the network and NAT.py                                     *)

MonitorSends ==
  /\ texts < MaxTexts /\ texts' = texts + 1 /\ ethQ' = Append(ethQ, texts + 1)
  /\ UNCHANGED <<outData, udpQ, server, conn, stream, phone>>

Loses ==
  /\ \/ ethQ # <<>> /\ ethQ' = Tail(ethQ) /\ UNCHANGED udpQ
     \/ udpQ # <<>> /\ udpQ' = Tail(udpQ) /\ UNCHANGED ethQ
  /\ UNCHANGED <<texts, outData, server, conn, stream, phone>>

\* Mutant: each datagram sleeps in a thread of its own.
OutTakesMore == ethQ # <<>>

\* handle_OUT forwards a datagram before it receives the next.
OutTakes == ethQ # <<>> /\ outData = <<>>

HandleOutReceives ==
  /\ OutTakes
  /\ outData' = <<Head(ethQ)>> \o outData /\ ethQ' = Tail(ethQ)
  /\ UNCHANGED <<texts, udpQ, server, conn, stream, phone>>

HandleOutSends ==
  /\ outData # <<>>
  /\ udpQ' = Append(udpQ, Head(outData)) /\ outData' = Tail(outData)
  /\ UNCHANGED <<texts, ethQ, server, conn, stream, phone>>

-----------------------------------------------------------------------------
(* Server.py: handle_udp                                                   *)

UdpReceives ==
  /\ upc = "recv" /\ udpQ # <<>>
  /\ data' = <<Head(udpQ)>> /\ udpQ' = Tail(udpQ) /\ upc' = "test"
  /\ UNCHANGED <<texts, ethQ, outData, tcpConn, conn, pending, hpc, stream, phone>>

UdpTests ==
  /\ upc = "test"
  /\ \/ tcpConn # 0 /\ upc' = "send" /\ UNCHANGED data
     \/ tcpConn = 0 /\ upc' = "recv" /\ data' = <<>>
  /\ UNCHANGED <<texts, ethQ, outData, udpQ, tcpConn, conn, pending, hpc, stream, phone>>

\* What an operation on the global tcp_connection raises, if it raises at all:
\* BrokenPipeError alone is caught.  (handle_tcp clears the variable before it
\* closes the socket, so a closed socket is never found in it.)
Raises ==
  CASE tcpConn = 0 -> {"AttributeError"}
    [] tcpConn # 0 /\ conn[tcpConn] = "open"   -> {"none"}
    [] tcpConn # 0 /\ conn[tcpConn] = "closed" -> {"none", "BrokenPipeError"}
    [] tcpConn # 0 /\ conn[tcpConn] = "reset"  -> {"ConnectionResetError", "BrokenPipeError"}

UdpSends ==
  /\ upc = "send" /\ data' = <<>>
  /\ \E e \in Raises :
       /\ upc' = IF e \in {"none", "BrokenPipeError"} THEN "recv" ELSE "dead"
       /\ stream' = IF Raises = {"none"}
                    THEN [stream EXCEPT ![tcpConn] = Append(@, Head(data))] ELSE stream
  /\ UNCHANGED <<texts, ethQ, outData, udpQ, tcpConn, conn, pending, hpc, phone>>

-----------------------------------------------------------------------------
(* Server.py: the accept loop and handle_tcp                               *)

Accepts ==
  /\ pending # <<>> /\ pending' = Tail(pending)
  /\ hpc' = [hpc EXCEPT ![Head(pending)] = "set"]
  /\ UNCHANGED <<texts, ethQ, outData, udpQ, upc, data, tcpConn, conn, stream, phone>>

TcpGoto(c, from, to) == hpc[c] = from /\ hpc' = [hpc EXCEPT ![c] = to]

TcpSets(c) ==
  /\ TcpGoto(c, "set", "recv") /\ tcpConn' = c
  /\ UNCHANGED <<texts, ethQ, outData, udpQ, upc, data, conn, pending, stream, phone>>

\* Mutant: the loop ends at the end of the stream.
RecvFailsAtEnd(c) == conn[c] \in {"closed", "reset"}

\* recv raises an exception only after a reset.  At the end of the stream it
\* returns no data, again and again.
RecvFails(c) == conn[c] = "reset"

TcpFails(c) ==
  /\ RecvFails(c) /\ TcpGoto(c, "recv", "clear")
  /\ UNCHANGED <<texts, ethQ, outData, udpQ, upc, data, tcpConn, conn, pending, stream, phone>>

TcpClears(c) ==
  /\ TcpGoto(c, "clear", "close") /\ tcpConn' = 0
  /\ UNCHANGED <<texts, ethQ, outData, udpQ, upc, data, conn, pending, stream, phone>>

TcpCloses(c) ==
  /\ TcpGoto(c, "close", "ended")
  /\ UNCHANGED <<texts, ethQ, outData, udpQ, upc, data, tcpConn, conn, pending, stream, phone>>

-----------------------------------------------------------------------------
(* MainActivity.java                                                       *)

\* linkOPT(1), recMesg
PhoneLinks ==
  /\ sock = 0 /\ links < MaxLinks /\ links' = links + 1 /\ sock' = links + 1
  /\ conn' = [conn EXCEPT ![links + 1] = "open"] /\ pending' = Append(pending, links + 1)
  /\ UNCHANGED <<texts, ethQ, outData, udpQ, upc, data, tcpConn, hpc, stream, received>>

\* What close makes of the connection: its stack answers lines that were not
\* read with a reset.
Closed == IF stream[sock] = <<>> THEN {"closed"} ELSE {"closed", "reset"}

\* linkOPT(0)
PhoneUnlinks ==
  /\ sock # 0 /\ sock' = 0 /\ \E s \in Closed : conn' = [conn EXCEPT ![sock] = s]
  /\ UNCHANGED <<texts, ethQ, outData, udpQ, server, stream, links, received>>

\* The phone loses its network, and the server learns of it.
PhoneVanishes ==
  /\ sock # 0 /\ sock' = 0 /\ conn' = [conn EXCEPT ![sock] = "reset"]
  /\ UNCHANGED <<texts, ethQ, outData, udpQ, server, stream, links, received>>

PhoneReads ==
  /\ sock # 0 /\ stream[sock] # <<>>
  /\ received' = Append(received, Head(stream[sock]))
  /\ stream' = [stream EXCEPT ![sock] = Tail(@)]
  /\ UNCHANGED <<texts, ethQ, outData, udpQ, server, conn, sock, links>>

RNext ==
  \/ MonitorSends \/ Loses \/ HandleOutReceives \/ HandleOutSends
  \/ UdpReceives \/ UdpTests \/ UdpSends \/ Accepts
  \/ \E c \in Conn : TcpSets(c) \/ TcpFails(c) \/ TcpClears(c) \/ TcpCloses(c)
  \/ PhoneLinks \/ PhoneUnlinks \/ PhoneVanishes \/ PhoneReads

\* The network may lose anything and the phone's user need do nothing; the
\* threads of the server and of NAT.py go on.
RFairness ==
  /\ WF_rvars(HandleOutReceives) /\ WF_rvars(HandleOutSends)
  /\ WF_rvars(UdpReceives) /\ WF_rvars(UdpTests) /\ WF_rvars(UdpSends) /\ WF_rvars(Accepts)
  /\ \A c \in Conn : WF_rvars(TcpSets(c) \/ TcpFails(c) \/ TcpClears(c) \/ TcpCloses(c))
  /\ WF_rvars(PhoneReads)

RSpec == RInit /\ [][RNext]_rvars /\ RFairness

-----------------------------------------------------------------------------
(* Properties                                                              *)

\* The types of the variables; a handler knows only connections that exist.
RTypeOK ==
  /\ texts \in 0..MaxTexts /\ {ethQ, outData, udpQ, data} \subseteq Seq(1..MaxTexts)
  /\ Len(outData) <= 1 /\ Len(data) <= 1
  /\ upc \in {"recv", "test", "send", "dead"} /\ (upc \in {"test", "send"}) = (data # <<>>)
  /\ tcpConn \in 0..links /\ sock \in 0..links /\ links \in 0..MaxLinks
  /\ \A c \in Conn : (conn[c] = "none") = (c > links) /\ (conn[c] = "open") = (c = sock /\ c > 0)

OnWay == (IF sock = 0 THEN <<>> ELSE stream[sock])
           \o data \o udpQ \o outData \o ethQ

\* The phone shows the texts in the order in which the monitor sent them, none
\* twice, however often it links and unlinks and whatever is lost.
Texts == INSTANCE Datagrams WITH Message <- 1 .. MaxTexts, way <- OnWay
TextsInOrder == Texts!DSpec

\* Only a reset, by a phone that vanishes or closes with lines unread, ends the
\* thread that forwards the texts: an orderly end of its connection is caught
\* (Server.py:17), because handle_tcp then neither clears nor closes the
\* connection (Server.py:26-36).
RelaySurvivesClose == upc = "dead" => \E c \in Conn : conn[c] = "reset"

\* Unless a connection is reset, no text is left lying: each datagram is forwarded,
\* or dropped by the server, though threads of closed connections go on for ever.
TextsDrain == <>[](ethQ = <<>> /\ outData = <<>> /\ udpQ = <<>> /\ data = <<>>)
                \/ <>(\E c \in Conn : conn[c] = "reset")
=============================================================================
