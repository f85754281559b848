------------------------------ MODULE Network ------------------------------
(***************************************************************************)
(* How a datagram reaches the monitor and how a text leaves it: the DM9000 *)
(* chip and its interrupt (HARDWARE/DM9000/dm9000.c), the receive task     *)
(* (ethernetif.c), the mailboxes of the lwIP port (sys_arch.c), the        *)
(* tcpip_thread with recv_udp and do_send (tcpip.c, api_msg.c) and the     *)
(* netconn calls of udp_thread (api_lib.c, netbuf.c, udp_u.c).             *)
(*                                                                         *)
(* The tasks and their priorities: tcpip 3, dhcp 4, input 4, udp 6.  dhcp  *)
(* is lwip_dhcp_task, which transmits from its own context.  The deferred  *)
(* post of the interrupt is delivered at once or dropped: its task has     *)
(* priority 0.  Frames are numbered in the order of their arrival.         *)
(***************************************************************************)
EXTENDS Mutex

CONSTANTS
  Kinds,        \* of frames: "order", "arp", "bad", "junk"
  MaxChain,     \* pbufs a frame takes at most: three of 512 bytes in the program
  NumPbuf,      \* PBUF_POOL_SIZE
  NumInpkt,     \* MEMP_NUM_TCPIP_MSG_INPKT
  NumNetbuf,    \* MEMP_NUM_NETBUF
  MboxSize,     \* MAX_QUEUE_ENTRIES
  PostMayDrop,  \* whether the interrupt queue may be full
  SendMayFail,  \* whether do_send may report an error
  MaxFrames,    \* bound: frames that arrive
  MaxSends,     \* bound: texts udp_thread transmits
  MaxTimers,    \* bound: transmissions of tcpip_thread's timers
  MaxDhcps,     \* bound: transmissions of lwip_dhcp_task
  MaxEvents     \* bound: all of these together

\* Mutant: tcpip_thread is the least urgent task of the network.
NetPrioTcpipLow == [t \in {"tcpip", "dhcp", "input", "udp"} |->
  CASE t = "tcpip" -> 7 [] t \in {"dhcp", "input"} -> 4 [] t = "udp" -> 6]

NetTask == {"tcpip", "dhcp", "input", "udp"}
NetPrio == [t \in NetTask |->
  CASE t = "tcpip" -> 3 [] t \in {"dhcp", "input"} -> 4 [] t = "udp" -> 6]

ASSUME NetworkAssumption ==
  /\ Task = NetTask /\ BasePrio = NetPrio
  /\ Kinds \subseteq {"order", "arp", "bad", "junk"}
  /\ {MaxChain, NumPbuf, NumInpkt, NumNetbuf, MboxSize} \subseteq Nat \ {0}
  /\ {MaxFrames, MaxSends, MaxTimers, MaxDhcps, MaxEvents} \subseteq Nat
  /\ {PostMayDrop, SendMayFail} \subseteq BOOLEAN

VARIABLES
  rxFifo,       \* frames in the chip
  prs, pts,     \* ISR: a frame was received, a transmission ended
  imr, rcr,     \* receive interrupt enabled, receiver enabled
  txBusy,       \* the chip transmits
  semCtr,       \* dm9000input
  cur,          \* the frame input holds
  mbox,         \* tcpip_thread's mailbox
  hand,         \* the message tcpip_thread holds
  recvmbox,     \* the connection's mailbox
  recvbuf,      \* the netbuf udp_thread holds
  sentbuf,      \* udp_thread's netbuf to send: "none", "held" or "freed"
  sendErr,      \* the result of do_send
  pbufFree, inpktFree, netbufFree,  \* free elements of the pools
  got,          \* orders that udp_thread copied into udp_recvbuf
  npc,          \* where each task is
  frames, sends, timers, dhcps      \* how much of each bound is used

chip  == <<rxFifo, prs, pts, imr, rcr, txBusy>>
input == <<semCtr, cur>>
boxes == <<mbox, hand, recvmbox>>
udpv  == <<recvbuf, sentbuf, sendErr, got>>
pools == <<pbufFree, inpktFree, netbufFree>>
used  == <<frames, sends, timers, dhcps>>
nvars == <<mvars, chip, input, boxes, udpv, pools, npc, used>>

NoMsg  == [type |-> "NONE", frame |-> [kind |-> "none", id |-> 0, pbufs |-> 0]]
Api    == [NoMsg EXCEPT !.type = "API"]
Timer  == [NoMsg EXCEPT !.type = "TIMER"]
Inpkt(f) == [type |-> "INPKT", frame |-> f]
NoFrame == NoMsg.frame

\* DM9000_Init and lwip_comm_init are done, the tasks have started.
NInit ==
  /\ MInit
  /\ rxFifo = <<>> /\ prs = FALSE /\ pts = FALSE /\ imr = TRUE /\ rcr = TRUE
  /\ txBusy = FALSE
  /\ semCtr = 0 /\ cur = NoFrame
  /\ mbox = <<>> /\ hand = NoMsg /\ recvmbox = <<>>
  /\ recvbuf = NoFrame /\ sentbuf = "none" /\ sendErr = FALSE
  /\ got = <<>>
  /\ pbufFree = NumPbuf /\ inpktFree = NumInpkt /\ netbufFree = NumNetbuf
  /\ npc = [t \in NetTask |-> CASE t = "tcpip" -> "fetch" [] t = "dhcp" -> "idle"
                                [] t = "input" -> "sem" [] t = "udp" -> "loop"]
  /\ frames = 0 /\ sends = 0 /\ timers = 0 /\ dhcps = 0

\* The bound on what arrives and what is sent leaves room for one more.
AnotherEvent == frames + sends + timers + dhcps < MaxEvents

Goto(t, from, to) == npc[t] = from /\ npc' = [npc EXCEPT ![t] = to]

-----------------------------------------------------------------------------
(* The chip                                                                *)

\* An ARP request is short, and of junk nothing is read.
Chains(k) == IF k \in {"order", "bad"} THEN 1 .. MaxChain ELSE {1}
FrameArrives ==
  /\ rcr /\ frames < MaxFrames /\ AnotherEvent
  /\ frames' = frames + 1
  /\ \E k \in Kinds : \E n \in Chains(k) :
       rxFifo' = Append(rxFifo, [kind |-> k, id |-> frames + 1, pbufs |-> n])
  /\ prs' = TRUE
  /\ UNCHANGED <<mvars, pts, imr, rcr, txBusy, input, boxes, udpv, pools, npc,
                 sends, timers, dhcps>>

TransmissionEnds ==
  /\ txBusy /\ txBusy' = FALSE /\ pts' = TRUE
  /\ UNCHANGED <<mvars, rxFifo, prs, imr, rcr, input, boxes, udpv, pools, npc, used>>

\* EXTI9_5_IRQHandler and DMA9000_ISRHandler: all the flags are read and
\* cleared, and a received frame signals the receive task.
DMA9000_ISRHandler ==
  /\ prs /\ imr
  /\ prs' = FALSE /\ pts' = FALSE
  /\ \/ /\ tstate["input"] = "WAIT" /\ npc["input"] = "lock"
        /\ MakeReady("input") /\ UNCHANGED semCtr
     \/ /\ ~(tstate["input"] = "WAIT" /\ npc["input"] = "lock")
        /\ semCtr' = semCtr + 1 /\ UNCHANGED mvars
     \/ /\ PostMayDrop /\ UNCHANGED <<mvars, semCtr>>
  /\ UNCHANGED <<rxFifo, imr, rcr, txBusy, cur, boxes, udpv, pools, npc, used>>

-----------------------------------------------------------------------------
(* DM9000_SendPacket, called by tcpip_thread and lwip_dhcp_task            *)

TxLock(t) ==
  /\ Goto(t, "tx_lock", "tx_mask") /\ OSMutexPend(t)
  /\ UNCHANGED <<chip, input, boxes, udpv, pools, used>>

\* Mutant: the receive interrupt stays enabled during a transmission.
TxMaskNothing(t) ==
  /\ Goto(t, "tx_mask", "tx_start") /\ Step(t)
  /\ UNCHANGED <<chip, input, boxes, udpv, pools, used>>

TxMask(t) ==
  /\ Goto(t, "tx_mask", "tx_start") /\ Step(t)
  /\ imr' = FALSE
  /\ UNCHANGED <<rxFifo, prs, pts, rcr, txBusy, input, boxes, udpv, pools, used>>

TxStart(t) ==
  /\ Goto(t, "tx_start", "tx_wait") /\ Step(t)
  /\ txBusy' = TRUE
  /\ UNCHANGED <<rxFifo, prs, pts, imr, rcr, input, boxes, udpv, pools, used>>

\* The task polls, it does not block.
TxPoll(t) ==
  /\ pts /\ Goto(t, "tx_wait", "tx_unmask") /\ Step(t)
  /\ pts' = FALSE
  /\ UNCHANGED <<rxFifo, prs, imr, rcr, txBusy, input, boxes, udpv, pools, used>>

\* Mutant: the interrupt is not enabled again.
TxUnmaskNothing(t) ==
  /\ Goto(t, "tx_unmask", "tx_unlock") /\ Step(t)
  /\ UNCHANGED <<chip, input, boxes, udpv, pools, used>>

TxUnmask(t) ==
  /\ Goto(t, "tx_unmask", "tx_unlock") /\ Step(t)
  /\ imr' = TRUE
  /\ UNCHANGED <<rxFifo, prs, pts, rcr, txBusy, input, boxes, udpv, pools, used>>

TxUnlock(t) ==
  /\ Goto(t, "tx_unlock", "tx_done") /\ OSMutexPost(t)
  /\ UNCHANGED <<chip, input, boxes, udpv, pools, used>>

DM9000_SendPacket(t) ==
  TxLock(t) \/ TxMask(t) \/ TxStart(t) \/ TxPoll(t) \/ TxUnmask(t) \/ TxUnlock(t)

(* lwip_dhcp_task: dhcp_start transmits, then the task delays              *)

DhcpIdle ==
  /\ Goto("dhcp", "idle", "waiting") /\ Sleep("dhcp")
  /\ UNCHANGED <<chip, input, boxes, udpv, pools, used>>

DhcpStart ==
  /\ dhcps < MaxDhcps /\ AnotherEvent /\ dhcps' = dhcps + 1
  /\ Goto("dhcp", "waiting", "tx_lock") /\ Wake("dhcp")
  /\ UNCHANGED <<chip, input, boxes, udpv, pools, frames, sends, timers>>

DhcpSent ==
  /\ Goto("dhcp", "tx_done", "idle") /\ Step("dhcp")
  /\ UNCHANGED <<chip, input, boxes, udpv, pools, used>>

-----------------------------------------------------------------------------
(* ethernetif_input and DM9000_Receive_Packet                              *)

InputSem ==
  /\ Goto("input", "sem", "lock")
  /\ IF semCtr > 0 THEN Step("input") /\ semCtr' = semCtr - 1
                   ELSE Sleep("input") /\ UNCHANGED semCtr
  /\ UNCHANGED <<chip, cur, boxes, udpv, pools, used>>

\* Mutant: the receive task reads the chip without its mutex.
InputLockNothing ==
  /\ Goto("input", "lock", "read") /\ Step("input")
  /\ UNCHANGED <<chip, input, boxes, udpv, pools, used>>

InputLock ==
  /\ Goto("input", "lock", "read") /\ OSMutexPend("input")
  /\ UNCHANGED <<chip, input, boxes, udpv, pools, used>>

\* A frame is read into a chain of pbufs, or over and over into dummy when
\* pbuf_alloc does not find them all: the loop of an odd length never ends.
ChainFree == pbufFree >= Head(rxFifo).pbufs
ReadFrame ==
  /\ rxFifo # <<>> /\ Head(rxFifo).kind # "junk" /\ Step("input")
  /\ \/ /\ ChainFree /\ pbufFree' = pbufFree - Head(rxFifo).pbufs
        /\ Goto("input", "read", "check")
        /\ cur' = Head(rxFifo) /\ rxFifo' = Tail(rxFifo)
     \/ /\ ~ChainFree
        /\ Goto("input", "read", IF Head(rxFifo).kind = "bad" THEN "read" ELSE "unlock")
        /\ rxFifo' = Tail(rxFifo) /\ UNCHANGED <<pbufFree, cur>>
     \/ /\ ~ChainFree
        /\ Goto("input", "read", "spin") /\ UNCHANGED <<rxFifo, pbufFree, cur>>
  /\ UNCHANGED <<prs, pts, imr, rcr, txBusy, semCtr, boxes, udpv, inpktFree,
                 netbufFree, used>>

\* rxbyte > 1: the receiver is stopped, the mutex is not released.
ReadJunk ==
  /\ rxFifo # <<>> /\ Head(rxFifo).kind = "junk"
  /\ Goto("input", "read", "sem") /\ Step("input")
  /\ rcr' = FALSE
  /\ UNCHANGED <<rxFifo, prs, pts, imr, txBusy, input, boxes, udpv, pools, used>>

ReadNothing ==
  /\ rxFifo = <<>> /\ Goto("input", "read", "rearm") /\ Step("input")
  /\ UNCHANGED <<chip, input, boxes, udpv, pools, used>>

\* Mutant: every flag is cleared, as the comment at dm9000.c:413 has it.
RearmClearsAll ==
  /\ Goto("input", "rearm", "unlock") /\ Step("input")
  /\ pts' = FALSE /\ prs' = FALSE /\ imr' = TRUE
  /\ UNCHANGED <<rxFifo, rcr, txBusy, input, boxes, udpv, pools, used>>

Rearm ==
  /\ Goto("input", "rearm", "unlock") /\ Step("input")
  /\ pts' = FALSE /\ imr' = TRUE
  /\ UNCHANGED <<rxFifo, prs, rcr, txBusy, input, boxes, udpv, pools, used>>

\* Mutant: the pbufs of a bad frame are forgotten.
CheckFrameLeaks ==
  /\ Step("input")
  /\ IF cur.kind = "bad"
       THEN Goto("input", "check", "read") /\ cur' = NoFrame
       ELSE Goto("input", "check", "unlock") /\ UNCHANGED cur
  /\ UNCHANGED <<chip, semCtr, boxes, udpv, pools, used>>

\* A CRC or FIFO error or a short frame is dropped and the next one is read.
CheckFrame ==
  /\ Step("input")
  /\ IF cur.kind = "bad"
       THEN /\ Goto("input", "check", "read")
            /\ cur' = NoFrame /\ pbufFree' = pbufFree + cur.pbufs
       ELSE /\ Goto("input", "check", "unlock") /\ UNCHANGED <<cur, pbufFree>>
  /\ UNCHANGED <<chip, semCtr, boxes, udpv, inpktFree, netbufFree, used>>

\* Without a frame the receive task goes back to its semaphore.
InputUnlock ==
  /\ Goto("input", "unlock", IF cur = NoFrame THEN "sem" ELSE "deliver")
  /\ OSMutexPost("input")
  /\ UNCHANGED <<chip, input, boxes, udpv, pools, used>>

\* Mutant: a message is queued in front of the older ones.
QueuedFirst(q, m) == <<m>> \o q

\* OS_MsgQPut with OS_OPT_POST_FIFO.
Queued(q, m) == Append(q, m)

\* OSQPost hands a message to the task that waits for it, or queues it.
Waits(t, at) == tstate[t] = "WAIT" /\ npc[t] = at
MboxTakes    == Waits("tcpip", "handle") \/ Len(mbox) < MboxSize
MboxPost(m)  ==
  IF Waits("tcpip", "handle")
    THEN hand' = m /\ MakeReady("tcpip") /\ UNCHANGED <<mbox, recvmbox>>
    ELSE mbox' = Queued(mbox, m) /\ UNCHANGED <<mvars, hand, recvmbox>>

\* tcpip_input; on an error the receive task frees the chain.
InputDeliver ==
  /\ Runs("input") /\ Goto("input", "deliver", "lock")
  /\ IF inpktFree > 0 /\ MboxTakes
       THEN /\ MboxPost(Inpkt(cur)) /\ inpktFree' = inpktFree - 1
            /\ UNCHANGED pbufFree
       ELSE /\ pbufFree' = pbufFree + cur.pbufs
            /\ UNCHANGED <<mvars, boxes, inpktFree>>
  /\ cur' = NoFrame
  /\ UNCHANGED <<chip, semCtr, udpv, netbufFree, used>>

-----------------------------------------------------------------------------
(* tcpip_thread                                                            *)

TcpipFetch ==
  /\ Goto("tcpip", "fetch", "handle")
  /\ IF mbox # <<>>
       THEN Step("tcpip") /\ hand' = Head(mbox) /\ mbox' = Tail(mbox)
       ELSE Sleep("tcpip") /\ UNCHANGED <<hand, mbox>>
  /\ UNCHANGED <<chip, input, recvmbox, udpv, pools, used>>

\* A timeout ends the wait: a timer of ARP or DHCP transmits.
TcpipTimeout ==
  /\ timers < MaxTimers /\ AnotherEvent /\ timers' = timers + 1
  /\ Waits("tcpip", "handle") /\ MakeReady("tcpip") /\ hand' = Timer
  /\ UNCHANGED <<chip, input, mbox, recvmbox, udpv, pools, npc, frames, sends, dhcps>>

\* Mutant: a datagram for which there is no netbuf keeps its pbufs.
RecvUdpLeaks ==
  /\ hand.type = "INPKT" /\ hand.frame.kind = "order"
  /\ Runs("tcpip") /\ Goto("tcpip", "handle", "fetch")
  /\ inpktFree' = inpktFree + 1 /\ hand' = NoMsg
  /\ \/ /\ netbufFree > 0 /\ Waits("udp", "r_got")
        /\ recvbuf' = hand.frame /\ MakeReady("udp")
        /\ netbufFree' = netbufFree - 1 /\ UNCHANGED recvmbox
     \/ /\ netbufFree > 0 /\ ~Waits("udp", "r_got")
        /\ recvmbox' = Queued(recvmbox, hand.frame)
        /\ netbufFree' = netbufFree - 1 /\ UNCHANGED <<mvars, recvbuf>>
     \/ /\ netbufFree = 0 /\ UNCHANGED <<mvars, recvbuf, recvmbox, netbufFree>>
  /\ UNCHANGED <<chip, input, mbox, sentbuf, sendErr, got, pbufFree, used>>

\* recv_udp, then memp_free of the message.
RecvUdp ==
  /\ hand.type = "INPKT" /\ hand.frame.kind = "order"
  /\ Runs("tcpip") /\ Goto("tcpip", "handle", "fetch")
  /\ inpktFree' = inpktFree + 1 /\ hand' = NoMsg
  /\ \/ /\ netbufFree > 0 /\ Waits("udp", "r_got")
        /\ recvbuf' = hand.frame /\ MakeReady("udp")
        /\ netbufFree' = netbufFree - 1 /\ UNCHANGED <<recvmbox, pbufFree>>
     \/ /\ netbufFree > 0 /\ ~Waits("udp", "r_got") /\ Len(recvmbox) < MboxSize
        /\ recvmbox' = Queued(recvmbox, hand.frame)
        /\ netbufFree' = netbufFree - 1 /\ UNCHANGED <<mvars, recvbuf, pbufFree>>
     \/ /\ netbufFree = 0 \/ (~Waits("udp", "r_got") /\ Len(recvmbox) = MboxSize)
        /\ pbufFree' = pbufFree + hand.frame.pbufs
        /\ UNCHANGED <<mvars, recvbuf, recvmbox, netbufFree>>
  /\ UNCHANGED <<chip, input, mbox, sentbuf, sendErr, got, used>>

\* An ARP request, do_send and the timers lead to a transmission.
TcpipTransmit ==
  /\ hand.type \in {"API", "TIMER"} \/ hand.frame.kind = "arp"
  /\ Goto("tcpip", "handle", "tx_lock") /\ Step("tcpip")
  /\ UNCHANGED <<chip, input, boxes, udpv, pools, used>>

\* do_send found no memory or no route.
TcpipSendFails ==
  /\ SendMayFail /\ hand.type = "API"
  /\ Goto("tcpip", "handle", "tx_done") /\ Step("tcpip") /\ sendErr' = TRUE
  /\ UNCHANGED <<chip, input, boxes, recvbuf, sentbuf, got, pools, used>>

\* Mutant: do_send does not signal op_completed.
TcpipDoneSilent ==
  /\ Step("tcpip") /\ Goto("tcpip", "tx_done", "fetch")
  /\ hand' = NoMsg
  /\ IF hand.type = "INPKT"
       THEN pbufFree' = pbufFree + hand.frame.pbufs /\ inpktFree' = inpktFree + 1
       ELSE UNCHANGED <<pbufFree, inpktFree>>
  /\ UNCHANGED <<chip, input, mbox, recvmbox, udpv, netbufFree, used>>

\* The request is answered: op_completed is signalled, a packet is freed.
TcpipDone ==
  /\ Runs("tcpip") /\ Goto("tcpip", "tx_done", "fetch")
  /\ hand' = NoMsg
  /\ IF hand.type = "API" THEN MakeReady("udp") ELSE UNCHANGED mvars
  /\ IF hand.type = "INPKT"
       THEN pbufFree' = pbufFree + hand.frame.pbufs /\ inpktFree' = inpktFree + 1
       ELSE UNCHANGED <<pbufFree, inpktFree>>
  /\ UNCHANGED <<chip, input, mbox, recvmbox, udpv, netbufFree, used>>

-----------------------------------------------------------------------------
(* udp_thread                                                              *)

\* The flag is set, netbuf_new and netbuf_alloc.
UdpNewBuf ==
  /\ sends < MaxSends /\ AnotherEvent /\ sends' = sends + 1
  /\ Goto("udp", "loop", "s_fill") /\ Step("udp")
  /\ IF netbufFree > 0 THEN netbufFree' = netbufFree - 1 /\ sentbuf' = "held"
                       ELSE sentbuf' = "none" /\ UNCHANGED netbufFree
  /\ sendErr' = FALSE
  /\ UNCHANGED <<chip, input, boxes, recvbuf, got, pbufFree, inpktFree, frames,
                 timers, dhcps>>

\* sentbuf->p->payload = udp_sendbuf: undefined when netbuf_new returned NULL.
\* The task is not modelled any further then.
UdpFill ==
  /\ npc["udp"] = "s_fill"
  /\ IF sentbuf = "held" THEN Step("udp") /\ Goto("udp", "s_fill", "s_post")
                         ELSE Sleep("udp") /\ Goto("udp", "s_fill", "undefined")
  /\ UNCHANGED <<chip, input, boxes, udpv, pools, used>>

\* netconn_send: sys_mbox_post, then the wait for op_completed.  The attempts
\* that follow when the mailbox is full are not modelled: see PostFindsRoom.
UdpPostApi ==
  /\ Runs("udp") /\ Goto("udp", "s_post", "s_result")
  /\ MboxTakes
  /\ IF Waits("tcpip", "handle")
       THEN /\ hand' = Api /\ UNCHANGED mbox
            /\ tstate' = [tstate EXCEPT !["tcpip"] = "RDY", !["udp"] = "WAIT"]
       ELSE /\ mbox' = Queued(mbox, Api) /\ UNCHANGED hand
            /\ tstate' = [tstate EXCEPT !["udp"] = "WAIT"]
  /\ UNCHANGED <<prio, owner, nest, origPrio, waiters, chip, input, recvmbox, udpv,
                 pools, used>>

\* The error path deletes the netbuf ...
UdpResult ==
  /\ Goto("udp", "s_result", "s_delete") /\ Step("udp")
  /\ IF sendErr THEN sentbuf' = "freed" /\ netbufFree' = netbufFree + 1
                ELSE UNCHANGED <<sentbuf, netbufFree>>
  /\ UNCHANGED <<chip, input, boxes, recvbuf, sendErr, got, pbufFree,
                 inpktFree, used>>

\* Mutant: a netbuf is put back into the pool as often as it is deleted.
UdpDeleteAgain ==
  /\ Step("udp") /\ Goto("udp", "s_delete", "r_fetch")
  /\ sentbuf' = "none" /\ netbufFree' = netbufFree + 1
  /\ UNCHANGED <<chip, input, boxes, recvbuf, sendErr, got, pbufFree,
                 inpktFree, used>>

\* ... and both paths delete it.  The second deletion of one netbuf makes the
\* pool's list a loop; the task is not modelled any further then.
UdpDelete ==
  /\ npc["udp"] = "s_delete"
  /\ IF sentbuf = "held"
       THEN /\ Step("udp") /\ Goto("udp", "s_delete", "r_fetch")
            /\ sentbuf' = "none" /\ netbufFree' = netbufFree + 1
       ELSE /\ Sleep("udp") /\ Goto("udp", "s_delete", "undefined")
            /\ UNCHANGED <<sentbuf, netbufFree>>
  /\ UNCHANGED <<chip, input, boxes, recvbuf, sendErr, got, pbufFree,
                 inpktFree, used>>

UdpNoFlag ==
  /\ Goto("udp", "loop", "r_fetch") /\ Step("udp")
  /\ UNCHANGED <<chip, input, boxes, udpv, pools, used>>

\* netconn_recv: sys_arch_mbox_fetch with a timeout of one tick.
UdpFetch ==
  /\ Goto("udp", "r_fetch", "r_got")
  /\ IF recvmbox # <<>>
       THEN Step("udp") /\ recvbuf' = Head(recvmbox) /\ recvmbox' = Tail(recvmbox)
       ELSE Sleep("udp") /\ UNCHANGED <<recvbuf, recvmbox>>
  /\ UNCHANGED <<chip, input, mbox, hand, sentbuf, sendErr, got, pools, used>>

UdpFetchTimeout ==
  /\ Goto("udp", "r_got", "r_delay") /\ Wake("udp")
  /\ UNCHANGED <<chip, input, boxes, udpv, pools, used>>

UdpDelay ==
  /\ Goto("udp", "r_delay", "delayed") /\ Sleep("udp")
  /\ UNCHANGED <<chip, input, boxes, udpv, pools, used>>

UdpDelayEnds ==
  /\ Goto("udp", "delayed", "loop") /\ Wake("udp")
  /\ UNCHANGED <<chip, input, boxes, udpv, pools, used>>

\* The text is copied into udp_recvbuf and posted to ORDER_Msg.
UdpCopy ==
  /\ Goto("udp", "r_got", "r_delete") /\ Step("udp")
  /\ got' = Append(got, recvbuf.id)
  /\ UNCHANGED <<chip, input, boxes, recvbuf, sentbuf, sendErr, pools, used>>

UdpDeleteReceived ==
  /\ Goto("udp", "r_delete", "loop") /\ Step("udp")
  /\ recvbuf' = NoFrame /\ pbufFree' = pbufFree + recvbuf.pbufs
  /\ netbufFree' = netbufFree + 1
  /\ UNCHANGED <<chip, input, boxes, sentbuf, sendErr, got, inpktFree, used>>

-----------------------------------------------------------------------------
Dhcp  == DhcpIdle \/ DhcpSent \/ DM9000_SendPacket("dhcp")
Input == \/ InputSem \/ InputLock \/ ReadFrame \/ ReadJunk \/ ReadNothing \/ Rearm
         \/ CheckFrame \/ InputUnlock \/ InputDeliver
Tcpip == \/ TcpipFetch \/ RecvUdp \/ TcpipTransmit \/ TcpipSendFails \/ TcpipDone
         \/ DM9000_SendPacket("tcpip")
Udp   == \/ UdpNewBuf \/ UdpFill \/ UdpPostApi \/ UdpResult \/ UdpDelete
         \/ UdpNoFlag \/ UdpFetch \/ UdpDelay \/ UdpCopy \/ UdpDeleteReceived
Ticks == UdpFetchTimeout \/ UdpDelayEnds

NNext ==
  \/ FrameArrives \/ TransmissionEnds \/ DMA9000_ISRHandler
  \/ DhcpStart \/ TcpipTimeout \/ Ticks
  \/ Dhcp \/ Input \/ Tcpip \/ Udp

\* The processor runs the most urgent task, delays and timeouts end, the chip
\* finishes its transmissions and raises its interrupt.
NFairness ==
  /\ WF_nvars(Dhcp) /\ WF_nvars(Input) /\ WF_nvars(Tcpip) /\ WF_nvars(Udp)
  /\ WF_nvars(TransmissionEnds) /\ WF_nvars(DMA9000_ISRHandler) /\ WF_nvars(Ticks)

NSpec == NInit /\ [][NNext]_nvars /\ NFairness

-----------------------------------------------------------------------------
(* Properties                                                              *)

Frames == [kind : {"order", "arp", "bad", "junk", "none"}, id : 0 .. MaxFrames,
           pbufs : 0 .. MaxChain]
Messages == [type : {"NONE", "API", "TIMER", "INPKT"}, frame : Frames]

NTypeOK ==
  /\ MTypeOK
  /\ rxFifo \in Seq(Frames) /\ {prs, pts, imr, rcr, txBusy, sendErr} \subseteq BOOLEAN
  /\ semCtr \in 0 .. MaxFrames /\ cur \in Frames
  /\ mbox \in Seq(Messages) /\ Len(mbox) <= MboxSize /\ hand \in Messages
  /\ recvmbox \in Seq(Frames) /\ Len(recvmbox) <= MboxSize /\ recvbuf \in Frames
  /\ sentbuf \in {"none", "held", "freed"}
  /\ pbufFree \in 0 .. NumPbuf /\ inpktFree \in 0 .. NumInpkt
  /\ netbufFree \in 0 .. NumNetbuf

\* The steps between the calls that lock the chip and those that unlock it.
OnChip(t) == npc[t] \in {"tx_mask", "tx_start", "tx_wait", "tx_unmask", "tx_unlock",
                         "read", "check", "rearm", "unlock", "spin"}
Sending(t) == npc[t] \in {"tx_start", "tx_wait", "tx_unmask"}

\* Only the owner of dm9000lock touches the chip (dm9000.c:300, 352): three
\* tasks use its index and data registers, and each needs several accesses.
ChipIsLocked == \A t \in Task : OnChip(t) /\ tstate[t] # "PEND" => owner = t

\* The receive interrupt is off only while a task transmits (dm9000.c:301-329):
\* no path of the receive task or of another sender leaves the board deaf.
DeafOnlyWhileSending == imr \/ \E t \in Task : Sending(t)

\* The end of a transmission is seen by the task that polls for it
\* (dm9000.c:327), not swallowed by the interrupt handler, which clears every
\* flag (dm9000.c:428): the task would poll for ever at priority 3.
PollEnds == \A t \in Task : npc[t] = "tx_wait" => txBusy \/ pts

Is(b)        == IF b THEN 1 ELSE 0
IsInpkt(m)   == m.type = "INPKT"
InpktsIn(q)  == Cardinality({i \in DOMAIN q : IsInpkt(q[i])})

\* The pbufs in the chains of a mailbox's frames.
PbufsIn(q)   == Cardinality({p \in (DOMAIN q) \X (1 .. MaxChain) : p[2] <= q[p[1]].pbufs})
FramesOf(q)  == [i \in DOMAIN q |-> q[i].frame]

Pbufs   == cur.pbufs + PbufsIn(FramesOf(mbox)) + hand.frame.pbufs
             + PbufsIn(recvmbox) + recvbuf.pbufs
Inpkts  == InpktsIn(mbox) + Is(IsInpkt(hand))
Netbufs == Len(recvmbox) + Is(recvbuf # NoFrame) + Is(sentbuf = "held")

\* Every pbuf, message and netbuf is free or held by one place on the way of a
\* frame: no error path of the receive task, of tcpip_input, recv_udp or
\* udp_thread forgets one or frees it twice, until a failed transmission does.
BuffersConserved ==
  /\ pbufFree + Pbufs = NumPbuf
  /\ inpktFree + Inpkts = NumInpkt
  /\ netbufFree + Netbufs = NumNetbuf

\* netbuf_new returns "NULL on lack of memory" (netbuf.c:53): udp_thread sends
\* only what it was given.
SendHasBuffer == npc["udp"] = "s_fill" => sentbuf = "held"

\* The frames on their way to udp_thread; those that are orders, oldest first.
FramesIn(q)  == {q[i] : i \in DOMAIN q}
FramesOnWay  ==
  (IF npc["udp"] = "r_got" THEN {recvbuf} ELSE {}) \cup FramesIn(recvmbox)
    \cup {hand.frame} \cup {m.frame : m \in FramesIn(mbox)} \cup {cur} \cup FramesIn(rxFifo)
Ascending(S) ==
  CHOOSE q \in [1 .. Cardinality(S) -> S] : \A m, n \in DOMAIN q : m < n => q[m] < q[n]
OrderIds     == {f.id : f \in {g \in FramesOnWay : g.kind = "order"}}
OrdersOnWay  == Ascending(OrderIds)

\* Whatever the interrupt, the receive task, the mailboxes and the pools do,
\* orders reach udp_thread in the order of their arrival, none twice.
Wire == INSTANCE Datagrams WITH Message <- 1 .. MaxFrames,
                                way <- OrdersOnWay, received <- got
OrdersInOrder == Wire!DSpec

\* A frame in the chip is read: no interrupt is lost between the last look at
\* the chip and the wait for the semaphore (dm9000.c:411-417, ethernetif.c:49).
FramesAreRead == rxFifo # <<>> ~> rxFifo = <<>>

\* sys_mbox_post finds room for a request at once (sys_arch.c:53-64): it would
\* give up after ten attempts, and the caller wait for ever for an answer.
PostFindsRoom == npc["udp"] = "s_post" => MboxTakes

\* A frame of any length finds the pbufs of its chain, so the loop over an odd
\* length that never ends (dm9000.c:388-392) is not reached: tcpip_thread outranks
\* the receive task and recv_udp drops what it has no netbuf for, hence few frames
\* are in memory.  Fragments that wait for their datagram are not modelled.
PbufsSuffice == npc["input"] = "read" => pbufFree >= MaxChain

\* netconn_send returns: the request reaches tcpip_thread, which gets the chip
\* and signals op_completed (tcpip.c:317-318).
SendReturns == npc["udp"] = "s_result" ~> npc["udp"] = "s_delete"
=============================================================================
