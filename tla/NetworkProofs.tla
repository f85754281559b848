--------------------------- MODULE NetworkProofs ---------------------------
(***************************************************************************)
(* Theorems about module Network for any bounds, pools and mailboxes: the  *)
(* mutex of the chip keeps its own promises, and with them the tasks that  *)
(* share the chip keep theirs; every buffer is free or on the way of one   *)
(* frame; orders reach udp_thread in the order of their arrival; there is  *)
(* room in the mailbox of tcpip_thread and pbufs for every frame.         *)
(***************************************************************************)
EXTENDS Network, MutexProofs

-----------------------------------------------------------------------------
(* The inductive invariant                                                 *)

\* udp_thread is never at a call of OSMutexPend, and a task in state PEND is at
\* one of the two.
Places ==
  /\ npc = [t \in NetTask |-> npc[t]]
  /\ npc["udp"] \notin {"tx_mask", "read"}
  /\ \A t \in Task : tstate[t] = "PEND" => npc[t] \in {"tx_mask", "read"}

\* A task that transmits has masked the receive interrupt.
Masked == \A t \in Task : Sending(t) => ~imr

\* The mutex keeps its promises and the tasks at the chip keep theirs.
NInv ==
  /\ MInv /\ Places /\ ChipIsLocked /\ Masked
  /\ imr \in BOOLEAN /\ DeafOnlyWhileSending /\ PollEnds

\* The tasks of the assumption.
LEMMA TasksKnown == /\ Task = NetTask /\ {"tcpip", "dhcp", "input", "udp"} = Task
                    /\ {"tcpip", "dhcp"} \subseteq Task
  BY NetworkAssumption DEF NetTask

\* The tasks start outside the chip.
LEMMA NInitInv == ASSUME NInit PROVE NInv
<1>1. MInv
  BY InitInv DEF NInit
<1>2. /\ \A t \in Task : npc[t] \in {"fetch", "idle", "sem", "loop"}
      /\ npc = [t \in NetTask |-> npc[t]] /\ npc["udp"] = "loop"
  <2>1. "udp" \in NetTask /\ Task = NetTask
    BY TasksKnown
  <2>2. npc = [t \in NetTask |-> CASE t = "tcpip" -> "fetch" [] t = "dhcp" -> "idle"
                                   [] t = "input" -> "sem" [] t = "udp" -> "loop"]
    BY DEF NInit
  <2>3. /\ npc["tcpip"] = "fetch" /\ npc["dhcp"] = "idle"
        /\ npc["input"] = "sem" /\ npc["udp"] = "loop"
    BY <2>2 DEF NetTask
  <2>4. \A t \in NetTask : npc[t] \in {"fetch", "idle", "sem", "loop"}
    BY <2>3 DEF NetTask
  <2>5. npc = [t \in NetTask |-> npc[t]]
    <3> DEFINE P(t) == CASE t = "tcpip" -> "fetch" [] t = "dhcp" -> "idle"
                         [] t = "input" -> "sem" [] t = "udp" -> "loop"
    <3>1. npc = [t \in NetTask |-> P(t)]
      BY <2>2
    <3> HIDE DEF P
    <3> QED
      BY <3>1
  <2> QED
    BY <2>1, <2>3, <2>4, <2>5
<1>3. Places
  BY <1>2 DEF NInit, MInit, Places
<1>4. ChipIsLocked /\ Masked /\ imr \in BOOLEAN /\ DeafOnlyWhileSending /\ PollEnds
  BY <1>2 DEF NInit, ChipIsLocked, Masked, DeafOnlyWhileSending, PollEnds, OnChip, Sending
<1> QED
  BY <1>1, <1>3, <1>4 DEF NInv

-----------------------------------------------------------------------------
(* Steps that leave the mutex as it is                                     *)

\* What such a step does to the tasks.
Asleep ==
  /\ tstate' \in [Task -> States]
  /\ \A u \in Task : tstate'[u] = "PEND" <=> tstate[u] = "PEND"
  /\ UNCHANGED <<prio, owner, nest, origPrio, waiters>>

\* A task that steps, sleeps or wakes leaves the mutex alone.
LEMMA AsleepSteps ==
  ASSUME NInv, NEW t \in Task,
         \/ Step(t) \/ Sleep(t) \/ Wake(t) \/ UNCHANGED mvars
         \/ (tstate[t] = "WAIT" /\ MakeReady(t))
  PROVE  Asleep
  BY DEF NInv, MInv, MTypeOK, States, Asleep, Step, Sleep, Wake, MakeReady, Runs, mvars

\* A task goes on in its code, neither into a transmission nor out of one.
Quiet(t) ==
  /\ npc' = [npc EXCEPT ![t] = npc'[t]]
  /\ npc[t] \notin {"tx_start", "tx_wait", "tx_unmask"}
  /\ npc'[t] \notin {"tx_mask", "tx_start", "tx_wait", "tx_unmask", "tx_unlock"}
  /\ \/ npc[t] \in {"read", "check", "rearm", "unlock", "spin"}
     \/ npc'[t] \notin {"read", "check", "rearm", "unlock", "spin"}
  /\ t = "udp" => npc'[t] # "read"

\* A step of one task away from the chip's registers.
LEMMA QuietStep ==
  ASSUME NInv, Asleep, NEW t \in Task, tstate[t] # "PEND", Quiet(t),
         UNCHANGED <<imr, pts, txBusy>>
  PROVE  NInv'
<1>1. MInv'
  BY SleepersStep DEF NInv, Asleep
<1>2. /\ npc' = [u \in NetTask |-> npc'[u]]
      /\ \A u \in Task : u # t => npc'[u] = npc[u]
  BY TasksKnown DEF NInv, Places, Quiet
<1>3. Places'
  BY <1>2, TasksKnown DEF NInv, Places, Asleep, Quiet
<1>4. ChipIsLocked'
  BY <1>2 DEF NInv, ChipIsLocked, OnChip, Asleep, Quiet
<1>5. \A u \in Task : Sending(u)' <=> Sending(u)
  BY <1>2 DEF Sending, Quiet
<1>6. \A u \in Task : npc'[u] = "tx_wait" <=> npc[u] = "tx_wait"
  BY <1>2 DEF Quiet
<1>7. Masked' /\ DeafOnlyWhileSending' /\ PollEnds' /\ imr' \in BOOLEAN
  BY <1>5, <1>6 DEF NInv, Masked, DeafOnlyWhileSending, PollEnds
<1> QED
  BY <1>1, <1>3, <1>4, <1>7 DEF NInv

\* No task moves.
LEMMA StillStep ==
  ASSUME NInv, Asleep, UNCHANGED <<npc, imr>>,
         \A t \in Task : npc[t] = "tx_wait" => (txBusy \/ pts)'
  PROVE  NInv'
<1>1. MInv'
  BY SleepersStep DEF NInv, Asleep
<1>2. Places' /\ ChipIsLocked' /\ Masked' /\ DeafOnlyWhileSending' /\ PollEnds'
  BY DEF NInv, Places, ChipIsLocked, OnChip, Masked, DeafOnlyWhileSending, Sending, PollEnds,
         Asleep
<1> QED
  BY <1>1, <1>2 DEF NInv

-----------------------------------------------------------------------------
(* Steps at the chip                                                       *)

\* While a task is at the chip, no other is in a transmission.
LEMMA OneAtChip ==
  ASSUME NInv, NEW t \in Task, NEW u \in Task, OnChip(t), tstate[t] # "PEND", Sending(u)
  PROVE  u = t
<1>1. tstate[u] # "PEND" /\ OnChip(u)
  BY DEF NInv, Places, Sending, OnChip
<1> QED
  BY <1>1 DEF NInv, ChipIsLocked

\* A step of the task that owns the chip, which goes on owning it.
LEMMA OwnerMoves ==
  ASSUME NInv, NEW t \in Task, NEW from, NEW to, Step(t), Goto(t, from, to),
         from \in {"tx_mask", "tx_start", "tx_wait", "tx_unmask", "rearm"},
         to \in {"tx_start", "tx_wait", "tx_unmask", "tx_unlock", "unlock"}
  PROVE  /\ MInv' /\ Places' /\ ChipIsLocked'
         /\ npc'[t] = to /\ \A u \in Task : u # t => npc'[u] = npc[u]
         /\ \A u \in Task : Sending(u) => u = t
<1>1. MInv' /\ tstate' = tstate /\ owner' = owner /\ tstate[t] = "RDY"
  BY StutterStep DEF NInv, Step, Runs, mvars
<1>2. /\ npc' = [u \in NetTask |-> npc'[u]] /\ npc'[t] = to
      /\ \A u \in Task : u # t => npc'[u] = npc[u]
  BY TasksKnown DEF NInv, Places, Goto
<1>3. Places'
  BY <1>1, <1>2, TasksKnown DEF NInv, Places
<1>4. ChipIsLocked'
  BY <1>1, <1>2 DEF NInv, ChipIsLocked, OnChip, Goto
<1>5. OnChip(t)
  BY DEF Goto, OnChip
<1> QED
  BY <1>1, <1>2, <1>3, <1>4, <1>5, OneAtChip

\* The sender between the lock and the unlock of the chip.
LEMMA TransmitStep ==
  ASSUME NInv, NEW t \in {"tcpip", "dhcp"},
         TxMask(t) \/ TxStart(t) \/ TxPoll(t) \/ TxUnmask(t)
  PROVE  NInv'
<1>1. t \in Task
  BY TasksKnown
<1>2. CASE TxMask(t)
  <2>1. Step(t) /\ Goto(t, "tx_mask", "tx_start") /\ imr' = FALSE /\ UNCHANGED <<pts, txBusy>>
    BY <1>2 DEF TxMask
  <2>2. /\ MInv' /\ Places' /\ ChipIsLocked'
        /\ npc'[t] = "tx_start" /\ \A u \in Task : u # t => npc'[u] = npc[u]
    BY <1>1, <2>1, OwnerMoves
  <2> QED
    BY <1>1, <2>1, <2>2 DEF NInv, Masked, DeafOnlyWhileSending, PollEnds, Sending
<1>3. CASE TxStart(t)
  <2>1. /\ Step(t) /\ Goto(t, "tx_start", "tx_wait") /\ txBusy' = TRUE
        /\ UNCHANGED <<imr, pts>> /\ npc[t] = "tx_start"
    BY <1>3 DEF TxStart, Goto
  <2>2. /\ MInv' /\ Places' /\ ChipIsLocked'
        /\ npc'[t] = "tx_wait" /\ \A u \in Task : u # t => npc'[u] = npc[u]
    BY <1>1, <2>1, OwnerMoves
  <2> QED
    BY <1>1, <2>1, <2>2 DEF NInv, Masked, DeafOnlyWhileSending, PollEnds, Sending
<1>4. CASE TxPoll(t)
  <2>1. /\ Step(t) /\ Goto(t, "tx_wait", "tx_unmask") /\ pts' = FALSE
        /\ UNCHANGED <<imr, txBusy>> /\ npc[t] = "tx_wait"
    BY <1>4 DEF TxPoll, Goto
  <2>2. /\ MInv' /\ Places' /\ ChipIsLocked'
        /\ npc'[t] = "tx_unmask" /\ \A u \in Task : u # t => npc'[u] = npc[u]
        /\ \A u \in Task : Sending(u) => u = t
    BY <1>1, <2>1, OwnerMoves
  <2>3. \A u \in Task : npc'[u] # "tx_wait"
    BY <2>2 DEF Sending
  <2> QED
    BY <1>1, <2>1, <2>2, <2>3 DEF NInv, Masked, DeafOnlyWhileSending, PollEnds, Sending
<1>5. CASE TxUnmask(t)
  <2>1. /\ Step(t) /\ Goto(t, "tx_unmask", "tx_unlock") /\ imr' = TRUE
        /\ UNCHANGED <<pts, txBusy>>
    BY <1>5 DEF TxUnmask
  <2>2. /\ MInv' /\ Places' /\ ChipIsLocked'
        /\ npc'[t] = "tx_unlock" /\ \A u \in Task : u # t => npc'[u] = npc[u]
        /\ \A u \in Task : Sending(u) => u = t
    BY <1>1, <2>1, OwnerMoves
  <2>3. \A u \in Task : ~Sending(u)'
    BY <2>2 DEF Sending
  <2> QED
    BY <2>1, <2>2, <2>3 DEF NInv, Masked, DeafOnlyWhileSending, PollEnds, Sending
<1> QED
  BY <1>2, <1>3, <1>4, <1>5

\* The receive task enables the interrupt: no sender is at the chip then.
LEMMA RearmStep == ASSUME NInv, Rearm PROVE NInv'
<1> DEFINE t == "input"
<1>1. /\ t \in Task /\ Step(t) /\ Goto(t, "rearm", "unlock") /\ pts' = FALSE /\ imr' = TRUE
  BY TasksKnown DEF Rearm
<1>2. /\ MInv' /\ Places' /\ ChipIsLocked'
      /\ npc'[t] = "unlock" /\ \A u \in Task : u # t => npc'[u] = npc[u]
      /\ \A u \in Task : Sending(u) => u = t
  BY <1>1, OwnerMoves
<1>3. \A u \in Task : ~Sending(u)'
  BY <1>2 DEF Sending
<1>4. \A u \in Task : npc'[u] # "tx_wait"
  BY <1>3 DEF Sending
<1> QED
  BY <1>1, <1>2, <1>3, <1>4 DEF NInv, Masked, DeafOnlyWhileSending, PollEnds

\* A task asks for the chip: it gets it, or waits.
LEMMA LockStep ==
  ASSUME NInv, NEW t \in Task, NEW from, NEW to, OSMutexPend(t), Goto(t, from, to),
         from \in {"tx_lock", "lock"}, to \in {"tx_mask", "read"}, t # "udp",
         UNCHANGED <<imr, pts, txBusy>>
  PROVE  NInv'
<1>1. MInv'
  BY PendStep DEF NInv
<1>2. /\ npc' = [u \in NetTask |-> npc'[u]] /\ npc'[t] = to
      /\ \A u \in Task : u # t => npc'[u] = npc[u]
  BY TasksKnown DEF NInv, Places, Goto
<1>3. /\ \A u \in Task : tstate'[u] = "PEND" => tstate[u] = "PEND" \/ u = t
      /\ \A u \in Task : u # t => tstate'[u] = tstate[u]
      /\ tstate'[t] = "PEND" \/ owner' = t
      /\ \A u \in Task : u # t /\ owner = u => owner' = u
  <2>1. CASE Take(t)
    BY <2>1, MutexAssumption DEF NInv, MInv, MTypeOK, Take
  <2>2. CASE TakeAgain(t)
    BY <2>2 DEF TakeAgain
  <2>3. CASE Block(t)
    <3>1. tstate' = [tstate EXCEPT ![t] = "PEND"] /\ owner' = owner
      BY <2>3 DEF Block
    <3> QED
      BY <3>1 DEF NInv, MInv, MTypeOK
  <2> QED
    BY <2>1, <2>2, <2>3 DEF OSMutexPend
<1>4. Places'
  BY <1>2, <1>3, TasksKnown DEF NInv, Places
<1>5. ChipIsLocked'
  BY <1>2, <1>3 DEF NInv, ChipIsLocked, OnChip
<1>6. /\ \A u \in Task : Sending(u)' <=> Sending(u)
      /\ \A u \in Task : npc'[u] = "tx_wait" <=> npc[u] = "tx_wait"
  BY <1>2 DEF Sending, Goto
<1>7. Masked' /\ DeafOnlyWhileSending' /\ PollEnds' /\ imr' \in BOOLEAN
  BY <1>6 DEF NInv, Masked, DeafOnlyWhileSending, PollEnds
<1> QED
  BY <1>1, <1>4, <1>5, <1>7 DEF NInv

\* A task gives the chip up: to the first that waits, if any.
LEMMA UnlockStep ==
  ASSUME NInv, NEW t \in Task, NEW from, NEW to, OSMutexPost(t), Goto(t, from, to),
         from \in {"tx_unlock", "unlock"}, to \in {"tx_done", "sem", "deliver"},
         UNCHANGED <<imr, pts, txBusy>>
  PROVE  NInv'
<1>1. MInv'
  BY PostStep DEF NInv
<1>2. /\ npc' = [u \in NetTask |-> npc'[u]] /\ npc'[t] = to
      /\ \A u \in Task : u # t => npc'[u] = npc[u]
  BY TasksKnown DEF NInv, Places, Goto
<1>3. owner = t
  BY DEF NInv, ChipIsLocked, OnChip, Goto, OSMutexPost, Runs
<1>4. /\ \A u \in Task : tstate'[u] = "PEND" => tstate[u] = "PEND"
      /\ \A u \in Task : tstate[u] = "PEND" /\ tstate'[u] # "PEND" => owner' = u
  <2>1. CASE Unnest
    BY <2>1 DEF Unnest
  <2>2. CASE Free
    BY <2>2 DEF Free
  <2>3. CASE HandOver(t)
    <3>1. tstate' = [tstate EXCEPT ![Head(waiters)] = "RDY"] /\ owner' = Head(waiters)
      BY <2>3 DEF HandOver
    <3> QED
      BY <3>1 DEF NInv, MInv, MTypeOK
  <2> QED
    BY <1>3, <2>1, <2>2, <2>3 DEF OSMutexPost
<1>5. tstate[t] # "PEND"
  BY DEF OSMutexPost, Runs
<1>6. Places'
  BY <1>2, <1>4, <1>5, TasksKnown DEF NInv, Places
<1>7. ChipIsLocked'
  BY <1>2, <1>3, <1>4 DEF NInv, ChipIsLocked, OnChip
<1>8. /\ \A u \in Task : Sending(u)' <=> Sending(u)
      /\ \A u \in Task : npc'[u] = "tx_wait" <=> npc[u] = "tx_wait"
  BY <1>2 DEF Sending, Goto
<1>9. Masked' /\ DeafOnlyWhileSending' /\ PollEnds' /\ imr' \in BOOLEAN
  BY <1>8 DEF NInv, Masked, DeafOnlyWhileSending, PollEnds
<1> QED
  BY <1>1, <1>6, <1>7, <1>9 DEF NInv

\* The chip and its interrupt: the handler clears the flags only while the
\* interrupt is enabled, that is, while no task polls them.
LEMMA ChipStep ==
  ASSUME NInv, FrameArrives \/ TransmissionEnds \/ DMA9000_ISRHandler
  PROVE  NInv'
<1>1. CASE FrameArrives \/ TransmissionEnds
  <2>1. UNCHANGED mvars /\ UNCHANGED <<npc, imr>>
        /\ (pts => pts') /\ (txBusy => txBusy' \/ pts')
    BY <1>1 DEF FrameArrives, TransmissionEnds
  <2>2. Asleep
    BY <2>1, AsleepSteps, TasksKnown
  <2> QED
    BY <2>1, <2>2, StillStep DEF NInv, PollEnds
<1>2. CASE DMA9000_ISRHandler
  <2>1. imr /\ UNCHANGED <<npc, imr>>
    BY <1>2 DEF DMA9000_ISRHandler, NInv
  <2>2. UNCHANGED mvars \/ (tstate["input"] = "WAIT" /\ MakeReady("input"))
    BY <1>2 DEF DMA9000_ISRHandler
  <2>3. Asleep
    BY <2>2, AsleepSteps, TasksKnown
  <2>4. \A t \in Task : npc[t] # "tx_wait"
    BY <2>1 DEF NInv, Masked, Sending
  <2> QED
    BY <2>1, <2>3, <2>4, StillStep
<1> QED
  BY <1>1, <1>2

-----------------------------------------------------------------------------
(* Every step                                                              *)

\* lwip_dhcp_task between its transmissions.
LEMMA DhcpStep ==
  ASSUME NInv, DhcpIdle \/ DhcpStart \/ DhcpSent
  PROVE  NInv'
<1>1. "dhcp" \in Task
  BY TasksKnown
<1>2. /\ Sleep("dhcp") \/ Wake("dhcp") \/ Step("dhcp")
      /\ UNCHANGED <<imr, pts, txBusy>>
  BY DEF DhcpIdle, DhcpStart, DhcpSent, chip
<1>3. Asleep /\ tstate["dhcp"] # "PEND"
  BY <1>1, <1>2, AsleepSteps DEF Sleep, Wake, Step, Runs
<1>4. \/ Goto("dhcp", "idle", "waiting") \/ Goto("dhcp", "waiting", "tx_lock")
      \/ Goto("dhcp", "tx_done", "idle")
  BY DEF DhcpIdle, DhcpStart, DhcpSent
<1>5. Quiet("dhcp")
  BY <1>1, <1>4, TasksKnown DEF Goto, Quiet, NInv, Places
<1> QED
  BY <1>1, <1>2, <1>3, <1>5, QuietStep

\* The receive task away from the mutex.
LEMMA InputStep ==
  ASSUME NInv,
         InputSem \/ ReadFrame \/ ReadJunk \/ ReadNothing \/ CheckFrame \/ InputDeliver
  PROVE  NInv'
<1> DEFINE t == "input"
<1>1. /\ t \in Task /\ tstate[t] # "PEND" /\ UNCHANGED <<imr, pts, txBusy>>
  BY TasksKnown DEF InputSem, ReadFrame, ReadJunk, ReadNothing, CheckFrame, InputDeliver, Sleep,
                    Step, Runs, chip
<1>2. Asleep
  <2>1. CASE InputDeliver
    <3>1. UNCHANGED mvars \/ (tstate["tcpip"] = "WAIT" /\ MakeReady("tcpip"))
      BY <2>1 DEF InputDeliver, MboxPost, Waits
    <3> QED
      BY <3>1, AsleepSteps, TasksKnown
  <2>2. CASE InputSem \/ ReadFrame \/ ReadJunk \/ ReadNothing \/ CheckFrame
    <3>1. Step(t) \/ Sleep(t)
      BY <2>2 DEF InputSem, ReadFrame, ReadJunk, ReadNothing, CheckFrame
    <3> QED
      BY <1>1, <3>1, AsleepSteps
  <2> QED
    BY <2>1, <2>2
<1>3. \/ Goto(t, "sem", "lock") \/ Goto(t, "deliver", "lock") \/ Goto(t, "read", "check")
      \/ Goto(t, "read", "read") \/ Goto(t, "read", "unlock") \/ Goto(t, "read", "spin")
      \/ Goto(t, "read", "sem") \/ Goto(t, "read", "rearm") \/ Goto(t, "check", "read")
      \/ Goto(t, "check", "unlock")
  BY DEF InputSem, ReadFrame, ReadJunk, ReadNothing, CheckFrame, InputDeliver
<1>4. Quiet(t)
  BY <1>1, <1>3, TasksKnown DEF Goto, Quiet, NInv, Places
<1> QED
  BY <1>1, <1>2, <1>4, QuietStep

\* tcpip_thread between its transmissions.
LEMMA TcpipStep ==
  ASSUME NInv, TcpipFetch \/ RecvUdp \/ TcpipTransmit \/ TcpipSendFails \/ TcpipDone
  PROVE  NInv'
<1> DEFINE t == "tcpip"
<1>1. /\ t \in Task /\ tstate[t] # "PEND" /\ UNCHANGED <<imr, pts, txBusy>>
  BY TasksKnown DEF TcpipFetch, RecvUdp, TcpipTransmit, TcpipSendFails, TcpipDone, Sleep,
                    Step, Runs, chip
<1>2. Asleep
  <2>1. CASE TcpipFetch \/ TcpipTransmit \/ TcpipSendFails
    <3>1. Step(t) \/ Sleep(t)
      BY <2>1 DEF TcpipFetch, TcpipTransmit, TcpipSendFails
    <3> QED
      BY <1>1, <3>1, AsleepSteps
  <2>2. CASE RecvUdp
    <3>1. UNCHANGED mvars \/ (tstate["udp"] = "WAIT" /\ MakeReady("udp"))
      BY <2>2 DEF RecvUdp, Waits
    <3> QED
      BY <3>1, AsleepSteps, TasksKnown
  <2>3. CASE TcpipDone
    <3>1. UNCHANGED mvars \/ MakeReady("udp")
      BY <2>3 DEF TcpipDone
    <3>2. tstate["udp"] # "PEND" /\ "udp" \in Task
      BY TasksKnown DEF NInv, Places
    <3> QED
      BY <3>1, <3>2, AsleepSteps DEF MakeReady, Asleep, NInv, MInv, MTypeOK, States
  <2> QED
    BY <2>1, <2>2, <2>3
<1>3. \/ Goto(t, "fetch", "handle") \/ Goto(t, "handle", "fetch") \/ Goto(t, "handle", "tx_lock")
      \/ Goto(t, "handle", "tx_done") \/ Goto(t, "tx_done", "fetch")
  BY DEF TcpipFetch, RecvUdp, TcpipTransmit, TcpipSendFails, TcpipDone
<1>4. Quiet(t)
  BY <1>1, <1>3, TasksKnown DEF Goto, Quiet, NInv, Places
<1> QED
  BY <1>1, <1>2, <1>4, QuietStep

\* A timer of tcpip_thread.
LEMMA TimerStep == ASSUME NInv, TcpipTimeout PROVE NInv'
<1>1. tstate["tcpip"] = "WAIT" /\ MakeReady("tcpip") /\ UNCHANGED <<npc, imr, pts, txBusy>>
  BY DEF TcpipTimeout, Waits, chip
<1>2. Asleep
  BY <1>1, AsleepSteps, TasksKnown
<1> QED
  BY <1>1, <1>2, StillStep DEF NInv, PollEnds

\* udp_thread.
LEMMA UdpStep ==
  ASSUME NInv, Udp \/ Ticks
  PROVE  NInv'
<1> DEFINE t == "udp"
<1>1. /\ t \in Task /\ tstate[t] # "PEND" /\ UNCHANGED <<imr, pts, txBusy>>
  BY TasksKnown DEF Udp, Ticks, UdpNewBuf, UdpFill, UdpPostApi, UdpResult, UdpDelete, UdpNoFlag,
                    UdpFetch, UdpDelay, UdpCopy, UdpDeleteReceived, UdpFetchTimeout,
                    UdpDelayEnds, Sleep, Step, Wake, Runs, chip
<1>2. Asleep
  <2>1. CASE UdpPostApi
    <3>1. /\ tstate[t] = "RDY"
          /\ UNCHANGED <<prio, owner, nest, origPrio, waiters>>
          /\ \/ /\ tstate["tcpip"] = "WAIT"
                /\ tstate' = [tstate EXCEPT !["tcpip"] = "RDY", !["udp"] = "WAIT"]
             \/ tstate' = [tstate EXCEPT !["udp"] = "WAIT"]
      BY <2>1 DEF UdpPostApi, Waits, Runs
    <3> QED
      BY <1>1, <3>1, TasksKnown DEF Asleep, NInv, MInv, MTypeOK, States
  <2>2. CASE Udp /\ ~UdpPostApi
    <3>1. Step(t) \/ Sleep(t)
      BY <2>2 DEF Udp, UdpNewBuf, UdpFill, UdpResult, UdpDelete, UdpNoFlag,
                  UdpFetch, UdpDelay, UdpCopy, UdpDeleteReceived
    <3> QED
      BY <1>1, <3>1, AsleepSteps
  <2>3. CASE Ticks
    <3>1. Wake(t)
      BY <2>3 DEF Ticks, UdpFetchTimeout, UdpDelayEnds
    <3> QED
      BY <1>1, <3>1, AsleepSteps
  <2> QED
    BY <2>1, <2>2, <2>3
<1>3. \/ Goto(t, "loop", "s_fill") \/ Goto(t, "s_fill", "s_post")
      \/ Goto(t, "s_fill", "undefined") \/ Goto(t, "s_post", "s_result")
      \/ Goto(t, "s_result", "s_delete") \/ Goto(t, "s_delete", "r_fetch")
      \/ Goto(t, "s_delete", "undefined") \/ Goto(t, "loop", "r_fetch")
      \/ Goto(t, "r_fetch", "r_got") \/ Goto(t, "r_got", "r_delay")
      \/ Goto(t, "r_delay", "delayed") \/ Goto(t, "delayed", "loop")
      \/ Goto(t, "r_got", "r_delete") \/ Goto(t, "r_delete", "loop")
  BY DEF Udp, Ticks, UdpNewBuf, UdpFill, UdpPostApi, UdpResult, UdpDelete, UdpNoFlag,
         UdpFetch, UdpDelay, UdpCopy, UdpDeleteReceived, UdpFetchTimeout, UdpDelayEnds
<1>4. Quiet(t)
  BY <1>1, <1>3, TasksKnown DEF Goto, Quiet, NInv, Places
<1> QED
  BY <1>1, <1>2, <1>4, QuietStep

\* A task locks the chip or unlocks it.
LEMMA ChipLockStep ==
  ASSUME NInv,
         \/ InputLock \/ InputUnlock
         \/ \E t \in {"tcpip", "dhcp"} : TxLock(t) \/ TxUnlock(t)
  PROVE  NInv'
<1>1. CASE InputLock
  BY <1>1, LockStep, TasksKnown DEF InputLock, chip
<1>2. CASE InputUnlock
  <2>1. PICK to \in {"sem", "deliver"} : Goto("input", "unlock", to)
    BY <1>2 DEF InputUnlock
  <2> QED
    BY <1>2, <2>1, UnlockStep, TasksKnown DEF InputUnlock, chip
<1>3. ASSUME NEW t \in {"tcpip", "dhcp"}, TxLock(t) PROVE NInv'
  BY <1>3, LockStep, TasksKnown DEF TxLock, chip
<1>4. ASSUME NEW t \in {"tcpip", "dhcp"}, TxUnlock(t) PROVE NInv'
  BY <1>4, UnlockStep, TasksKnown DEF TxUnlock, chip
<1> QED
  BY <1>1, <1>2, <1>3, <1>4

\* Every step of the network keeps the invariant of the chip.
LEMMA NNextInv == ASSUME NInv, [NNext]_nvars PROVE NInv'
<1>1. CASE UNCHANGED nvars
  <2>1. UNCHANGED mvars /\ UNCHANGED <<npc, imr, pts, txBusy>>
    BY <1>1 DEF nvars, chip
  <2>2. Asleep
    BY <2>1, AsleepSteps, TasksKnown
  <2> QED
    BY <2>1, <2>2, StillStep DEF NInv, PollEnds
<1>2. ASSUME NEW t \in {"tcpip", "dhcp"}, DM9000_SendPacket(t) PROVE NInv'
  BY <1>2, ChipLockStep, TransmitStep DEF DM9000_SendPacket
<1> QED
  BY <1>1, <1>2, ChipStep, DhcpStep, InputStep, RearmStep, TcpipStep, TimerStep, UdpStep,
     ChipLockStep
     DEF NNext, Dhcp, Input, Tcpip

\* The invariant of the chip's lock and interrupt mask (dm9000.c:296-440).
THEOREM NInvCorrect == NSpec => []NInv
  BY NInitInv, NNextInv, PTL DEF NSpec

\* Three tasks use the chip and one at a time (dm9000.c:300-330, 352-418), the
\* one that forgot to unlock it (363) included.
THEOREM ChipIsLockedCorrect == NSpec => []ChipIsLocked
<1>1. NInv => ChipIsLocked
  BY DEF NInv
<1> QED
  BY <1>1, NInvCorrect, PTL

\* The receive interrupt is enabled whenever no task transmits
\* (dm9000.c:301-329, 414-416).
THEOREM DeafOnlyWhileSendingCorrect == NSpec => []DeafOnlyWhileSending
<1>1. NInv => DeafOnlyWhileSending
  BY DEF NInv
<1> QED
  BY <1>1, NInvCorrect, PTL

\* The flag for which a task polls comes or is there: the interrupt handler,
\* which clears it (dm9000.c:428), is masked (dm9000.c:301).
THEOREM PollEndsCorrect == NSpec => []PollEnds
<1>1. NInv => PollEnds
  BY DEF NInv
<1> QED
  BY <1>1, NInvCorrect, PTL

\* In the network as well dm9000lock lends priorities exactly and serves its
\* waiters in order, although the receive task may nest it (dm9000.c:363).
THEOREM ChipMutexCorrect == NSpec => [](OwnerInherits /\ WaitersSorted)
<1>1. NInv => OwnerInherits /\ WaitersSorted
  BY InvInherits, InvSorted DEF NInv
<1> QED
  BY <1>1, NInvCorrect, PTL
-----------------------------------------------------------------------------
(* The pbufs in a mailbox                                                  *)

\* What is in a mailbox has a chain of pbufs.
HaveChains(S) == \A f \in S : f.pbufs \in 0 .. MaxChain

\* The pbufs of one entry, as pairs of its place and a number.
LEMMA ChainAt ==
  ASSUME NEW i, NEW n \in 0 .. MaxChain
  PROVE  LET T == {p \in {i} \X (1 .. MaxChain) : p[2] <= n}
         IN  IsFiniteSet(T) /\ Cardinality(T) = n
<1> DEFINE T == {p \in {i} \X (1 .. MaxChain) : p[2] <= n}
           f == [k \in 1 .. n |-> <<i, k>>]
<1>1. n \in Nat /\ MaxChain \in Nat /\ n <= MaxChain
  BY NetworkAssumption
<1>2. \A k \in 1 .. n : k \in 1 .. MaxChain /\ k <= n
  BY <1>1
<1>3. f \in [1 .. n -> T] /\ \A k, l \in 1 .. n : f[k] = f[l] => k = l
  BY <1>2
<1>4. \A p \in T : p[2] \in 1 .. n /\ f[p[2]] = p
  BY <1>1
<1>5. ExistsBijection(1 .. n, T)
  <2> HIDE DEF T, f
  <2>1. f \in Injection(1 .. n, T)
    BY <1>3 DEF Injection, IsInjective
  <2>2. f \in Surjection(1 .. n, T)
    BY <1>3, <1>4 DEF Surjection
  <2> QED
    BY <2>1, <2>2 DEF ExistsBijection, Bijection
<1>6. IsFiniteSet(1 .. n) /\ Cardinality(1 .. n) = n
  BY <1>1, FS_Interval
<1> HIDE DEF T
<1>7. IsFiniteSet(T) /\ Cardinality(T) = n
  BY <1>5, <1>6, FS_Bijection
<1> QED
  BY <1>7 DEF T

\* They are at most as many as the longest chains would be.
LEMMA PbufsBounded ==
  ASSUME NEW S, NEW q \in Seq(S)
  PROVE  /\ IsFiniteSet({p \in (DOMAIN q) \X (1 .. MaxChain) : p[2] <= q[p[1]].pbufs})
         /\ PbufsIn(q) \in Nat /\ PbufsIn(q) <= Len(q) * MaxChain
<1> DEFINE P == (DOMAIN q) \X (1 .. MaxChain)
           D == {p \in P : p[2] <= q[p[1]].pbufs}
<1>1. Len(q) \in Nat /\ DOMAIN q = 1 .. Len(q) /\ MaxChain \in Nat
  BY LenProperties, NetworkAssumption
<1>2. /\ IsFiniteSet(1 .. Len(q)) /\ Cardinality(1 .. Len(q)) = Len(q)
      /\ IsFiniteSet(1 .. MaxChain) /\ Cardinality(1 .. MaxChain) = MaxChain
  <2>1. \A n \in Nat : IsFiniteSet(1 .. n) /\ Cardinality(1 .. n) = n
    <3>1. TAKE n \in Nat
    <3>2. IsFiniteSet(1 .. n) /\ Cardinality(1 .. n) = IF 1 > n THEN 0 ELSE n - 1 + 1
      BY FS_Interval
    <3> QED
      BY <3>2
  <2> HIDE DEF P, D
  <2> QED
    BY <1>1, <2>1
<1>3. IsFiniteSet(P) /\ Cardinality(P) = Len(q) * MaxChain
  <2>1. P = (1 .. Len(q)) \X (1 .. MaxChain)
    BY <1>1
  <2> HIDE DEF P
  <2>2. /\ IsFiniteSet((1 .. Len(q)) \X (1 .. MaxChain))
        /\ Cardinality((1 .. Len(q)) \X (1 .. MaxChain))
             = Cardinality(1 .. Len(q)) * Cardinality(1 .. MaxChain)
    BY <1>2, FS_Product
  <2> QED
    BY <1>2, <2>1, <2>2
<1>4. D \in SUBSET P
  OBVIOUS
<1>5. PbufsIn(q) = Cardinality(D)
  BY DEF PbufsIn
<1> HIDE DEF P
<1>6. IsFiniteSet(D) /\ Cardinality(D) <= Cardinality(P)
  BY <1>3, <1>4, FS_Subset
<1>7. Cardinality(D) \in Nat
  BY <1>6, FS_CardinalityType
<1> HIDE DEF D
<1>8. PbufsIn(q) \in Nat /\ PbufsIn(q) <= Len(q) * MaxChain
  BY <1>3, <1>5, <1>6, <1>7
<1> QED
  BY <1>6, <1>8 DEF D, P

\* An empty mailbox holds none.
LEMMA PbufsEmpty == PbufsIn(<<>>) = 0
<1>1. {p \in (DOMAIN <<>>) \X (1 .. MaxChain) : p[2] <= <<>>[p[1]].pbufs} = {}
  OBVIOUS
<1> QED
  BY <1>1, FS_EmptySet DEF PbufsIn

\* A frame is queued.
LEMMA PbufsAppend ==
  ASSUME NEW S, HaveChains(S), NEW q \in Seq(S), NEW f \in S
  PROVE  PbufsIn(Append(q, f)) = PbufsIn(q) + f.pbufs
<1> DEFINE r == Append(q, f)
           k == Len(q)
           D == {p \in (DOMAIN q) \X (1 .. MaxChain) : p[2] <= q[p[1]].pbufs}
           E == {p \in (DOMAIN r) \X (1 .. MaxChain) : p[2] <= r[p[1]].pbufs}
           T == {p \in {k + 1} \X (1 .. MaxChain) : p[2] <= f.pbufs}
<1>1. /\ k \in Nat /\ DOMAIN q = 1 .. k /\ DOMAIN r = 1 .. (k + 1)
      /\ r[k + 1] = f /\ \A i \in 1 .. k : r[i] = q[i]
  BY AppendProperties, LenProperties
<1>2. f.pbufs \in 0 .. MaxChain
  BY DEF HaveChains
<1>3. IsFiniteSet(D) /\ Cardinality(D) \in Nat
  BY PbufsBounded, FS_CardinalityType
<1>4. IsFiniteSet(T) /\ Cardinality(T) = f.pbufs
  BY <1>2, ChainAt
<1>5. PbufsIn(q) = Cardinality(D) /\ PbufsIn(r) = Cardinality(E)
  BY DEF PbufsIn
<1> HIDE DEF r, k
<1>6. E = D \cup T
  <2>1. 1 .. (k + 1) = (1 .. k) \cup {k + 1}
    BY <1>1
  <2>2. ASSUME NEW p \in (1 .. (k + 1)) \X (1 .. MaxChain) PROVE p \in E <=> p \in D \/ p \in T
    <3>1. CASE p[1] \in 1 .. k
      <4>1. r[p[1]] = q[p[1]] /\ p[1] # k + 1
        BY <1>1, <3>1
      <4> QED
        BY <1>1, <3>1, <4>1
    <3>2. CASE p[1] = k + 1
      <4>1. r[p[1]] = f /\ p[1] \notin 1 .. k
        BY <1>1, <3>2
      <4> QED
        BY <1>1, <3>2, <4>1
    <3> QED
      BY <2>1, <3>1, <3>2
  <2>3. E \subseteq (1 .. (k + 1)) \X (1 .. MaxChain)
    BY <1>1
  <2>4. D \subseteq (1 .. (k + 1)) \X (1 .. MaxChain)
    BY <1>1, <2>1
  <2>5. T \subseteq (1 .. (k + 1)) \X (1 .. MaxChain)
    BY <2>1
  <2> HIDE DEF D, E, T
  <2> QED
    BY <2>2, <2>3, <2>4, <2>5
<1>7. D \cap T = {}
  <2>1. k + 1 \notin 1 .. k
    BY <1>1
  <2> QED
    BY <1>1, <2>1
<1> HIDE DEF D, E, T
<1>8. Cardinality(E) = Cardinality(D) + Cardinality(T) - 0
  BY <1>3, <1>4, <1>6, <1>7, FS_Union, FS_EmptySet
<1> QED
  BY <1>2, <1>3, <1>4, <1>5, <1>8, NetworkAssumption DEF r

\* The oldest frame is fetched.
LEMMA PbufsTail ==
  ASSUME NEW S, HaveChains(S), NEW q \in Seq(S), q # <<>>
  PROVE  PbufsIn(q) = PbufsIn(Tail(q)) + Head(q).pbufs
<1> DEFINE r == Tail(q)
           k == Len(q)
           D == {p \in (DOMAIN q) \X (1 .. MaxChain) : p[2] <= q[p[1]].pbufs}
           E == {p \in (DOMAIN r) \X (1 .. MaxChain) : p[2] <= r[p[1]].pbufs}
           T == {p \in {1} \X (1 .. MaxChain) : p[2] <= Head(q).pbufs}
           U == {p \in D : p[1] # 1}
           f == [p \in E |-> <<p[1] + 1, p[2]>>]
<1>1. k \in Nat /\ k > 0 /\ DOMAIN q = 1 .. k
  BY LenProperties, EmptySeq
<1>2. /\ r \in Seq(S) /\ DOMAIN r = 1 .. (k - 1) /\ Head(q) = q[1] /\ Head(q) \in S
      /\ \A i \in 1 .. (k - 1) : r[i] = q[i + 1]
  BY HeadTailProperties, LenProperties
<1>3. Head(q).pbufs \in 0 .. MaxChain
  BY <1>2 DEF HaveChains
<1>4. IsFiniteSet(E) /\ Cardinality(E) \in Nat /\ IsFiniteSet(D)
  BY <1>2, PbufsBounded, FS_CardinalityType
<1>5. IsFiniteSet(T) /\ Cardinality(T) = Head(q).pbufs
  BY <1>3, ChainAt
<1>6. PbufsIn(q) = Cardinality(D) /\ PbufsIn(r) = Cardinality(E)
  BY DEF PbufsIn
<1> HIDE DEF r, k
<1>7. D = U \cup T /\ U \cap T = {}
  <2>1. \A p \in (1 .. k) \X (1 .. MaxChain) : p[1] = 1 => (p \in D <=> p \in T)
    BY <1>1, <1>2
  <2>2. D \subseteq (1 .. k) \X (1 .. MaxChain)
    BY <1>1
  <2>3. T \subseteq (1 .. k) \X (1 .. MaxChain) /\ \A p \in T : p[1] = 1
    BY <1>1
  <2>4. \A p : p \in U <=> p \in D /\ p[1] # 1
    OBVIOUS
  <2> HIDE DEF D, T, U
  <2> QED
    BY <2>1, <2>2, <2>3, <2>4
<1>8. ASSUME NEW p \in E PROVE f[p] \in U
  <2>1. p[1] \in 1 .. (k - 1) /\ p[2] \in 1 .. MaxChain /\ p[2] <= r[p[1]].pbufs
    BY <1>2
  <2>2. p[1] + 1 \in 1 .. k /\ p[1] + 1 # 1 /\ r[p[1]] = q[p[1] + 1]
    BY <1>1, <1>2, <2>1
  <2>3. f[p] = <<p[1] + 1, p[2]>>
    OBVIOUS
  <2> QED
    BY <1>1, <2>1, <2>2, <2>3
<1>9. ASSUME NEW p \in U PROVE \E s \in E : f[s] = p
  <2> DEFINE s == <<p[1] - 1, p[2]>>
  <2>1. p \in (1 .. k) \X (1 .. MaxChain) /\ p[1] # 1 /\ p[2] <= q[p[1]].pbufs
    BY <1>1
  <2>2. p[1] - 1 \in 1 .. (k - 1) /\ p[2] \in 1 .. MaxChain /\ r[p[1] - 1] = q[p[1]]
        /\ (p[1] - 1) + 1 = p[1] /\ p = <<p[1], p[2]>>
    BY <1>1, <1>2, <2>1
  <2>3. s \in E
    BY <1>2, <2>1, <2>2
  <2>4. f[s] = <<(p[1] - 1) + 1, p[2]>>
    BY <2>3
  <2> QED
    BY <2>2, <2>3, <2>4
<1>10. ASSUME NEW p \in E, NEW s \in E, f[p] = f[s] PROVE p = s
  <2>1. /\ p = <<p[1], p[2]>> /\ s = <<s[1], s[2]>> /\ p[1] \in Int /\ s[1] \in Int
    BY <1>2
  <2>2. <<p[1] + 1, p[2]>> = <<s[1] + 1, s[2]>>
    BY <1>10
  <2>3. p[1] + 1 = s[1] + 1 /\ p[2] = s[2]
    BY <2>2
  <2> QED
    BY <2>1, <2>3
<1>11. f = [p \in E |-> f[p]]
  OBVIOUS
<1>12. ExistsBijection(E, U)
  <2> HIDE DEF E, U, f
  <2>1. f \in Injection(E, U)
    BY <1>8, <1>10, <1>11 DEF Injection, IsInjective
  <2>2. f \in Surjection(E, U)
    BY <1>8, <1>9, <1>11 DEF Surjection
  <2> QED
    BY <2>1, <2>2 DEF ExistsBijection, Bijection
<1> HIDE DEF D, E, T, U
<1>13. IsFiniteSet(U) /\ Cardinality(U) = Cardinality(E)
  BY <1>4, <1>12, FS_Bijection
<1>14. Cardinality(D) = Cardinality(U) + Cardinality(T) - 0
  BY <1>5, <1>7, <1>13, FS_Union, FS_EmptySet
<1>15. Head(q).pbufs \in Nat
  BY <1>3
<1> QED
  BY <1>4, <1>5, <1>6, <1>13, <1>14, <1>15 DEF r

-----------------------------------------------------------------------------
(* Frames and messages                                                     *)

\* The frames that arrive, the orders among them, and what is posted.
Real   == [kind : {"order", "arp", "bad", "junk"}, id : 1 .. MaxFrames, pbufs : 1 .. MaxChain]
Orders == [kind : {"order"}, id : 1 .. MaxFrames, pbufs : 1 .. MaxChain]
Packets == [type : {"INPKT"}, frame : Real]
Posts  == Packets \cup {Api}

\* The number of a frame, and that of the frame in a message; 0 for the request.
FrameId == [f \in Real |-> f.id]
PostId  == [m \in Posts |-> m.frame.id]

\* What frames are.
LEMMA FrameFacts ==
  /\ MaxFrames \in Nat
  /\ Orders \subseteq Real /\ NoFrame \notin Real
  /\ FrameId \in [Real -> Nat] /\ \A f \in Real : FrameId[f] = f.id /\ f.id \in 1 .. MaxFrames
  /\ NoFrame.kind = "none" /\ NoFrame.id = 0 /\ NoFrame.pbufs = 0
  /\ \A f \in Real : f \in Orders <=> f.kind = "order"
  /\ HaveChains(Real) /\ HaveChains(Orders) /\ HaveChains(Real \cup {NoFrame})
<1>1. MaxFrames \in Nat /\ MaxChain \in Nat
  BY NetworkAssumption
<1>2. NoFrame = [kind |-> "none", id |-> 0, pbufs |-> 0]
  BY DEF NoFrame, NoMsg
<1>3. \A f \in Real : f.id \in 1 .. MaxFrames /\ f.id \in Nat
  BY <1>1 DEF Real
<1>4. NoFrame \notin Real
  BY <1>2 DEF Real
<1>5. Orders \subseteq Real /\ \A f \in Real : f \in Orders <=> f.kind = "order"
  BY DEF Real, Orders
<1>6. \A f \in Real : f.pbufs \in 0 .. MaxChain
  BY <1>1 DEF Real
<1>7. NoFrame.pbufs \in 0 .. MaxChain
  BY <1>1, <1>2
<1>8. HaveChains(Real) /\ HaveChains(Orders) /\ HaveChains(Real \cup {NoFrame})
  BY <1>5, <1>6, <1>7 DEF HaveChains
<1> QED
  BY <1>1, <1>2, <1>3, <1>4, <1>5, <1>8 DEF FrameId

\* What messages are.
LEMMA PostFacts ==
  /\ PostId \in [Posts -> Nat]
  /\ Api \in Posts /\ ~IsInpkt(Api) /\ Api.frame = NoFrame /\ PostId[Api] = 0
  /\ ~IsInpkt(NoMsg) /\ ~IsInpkt(Timer) /\ NoMsg.frame = NoFrame /\ Timer.frame = NoFrame
  /\ NoMsg # Api /\ Timer # Api /\ NoMsg.type = "NONE" /\ Timer.type = "TIMER" /\ Api.type = "API"
  /\ \A f \in Real : /\ Inpkt(f) \in Packets /\ IsInpkt(Inpkt(f)) /\ Inpkt(f).frame = f
                     /\ Inpkt(f).type = "INPKT" /\ PostId[Inpkt(f)] = f.id /\ Inpkt(f) # Api
  /\ \A m \in Packets : /\ m \in Posts /\ IsInpkt(m) /\ m.frame \in Real /\ m = Inpkt(m.frame)
                        /\ m # Api /\ m # NoMsg /\ m # Timer /\ PostId[m] = m.frame.id
<1>1. /\ NoMsg = [type |-> "NONE", frame |-> NoFrame]
      /\ Api = [type |-> "API", frame |-> NoFrame]
      /\ Timer = [type |-> "TIMER", frame |-> NoFrame]
  BY DEF NoFrame, NoMsg, Api, Timer
<1>2. \A m \in Packets : m.type = "INPKT" /\ m.frame \in Real /\ m = Inpkt(m.frame)
  BY DEF Packets, Inpkt
<1>3. \A f \in Real : Inpkt(f) \in Packets /\ Inpkt(f).frame = f /\ Inpkt(f).type = "INPKT"
  BY DEF Packets, Inpkt
<1>4. \A m \in Posts : m = Api \/ m \in Packets
  BY DEF Posts
<1>5. \A m \in Posts : m.frame.id \in Nat
  BY <1>1, <1>2, <1>4, FrameFacts
<1>6. \A m \in Posts : PostId[m] = m.frame.id
  BY DEF PostId
<1>7. PostId \in [Posts -> Nat]
  BY <1>5 DEF PostId
<1>8. Api \in Posts /\ Packets \subseteq Posts
  BY DEF Posts
<1>9. Api.frame = NoFrame /\ Api.frame.id = 0 /\ Api.type = "API"
  BY <1>1, FrameFacts
<1> QED
  BY <1>1, <1>2, <1>3, <1>6, <1>7, <1>8, <1>9 DEF IsInpkt

\* The count of packets in a mailbox.
LEMMA InpktsCounted ==
  ASSUME NEW q \in Seq(Posts)
  PROVE  InpktsIn(q) = CountIn(q, Packets) /\ InpktsIn(q) \in Nat
<1>1. \A i \in DOMAIN q : q[i] \in Posts
  BY LenProperties
<1>2. \A m \in Posts : IsInpkt(m) <=> m \in Packets
  BY PostFacts DEF Posts
<1>3. {i \in DOMAIN q : IsInpkt(q[i])} = {i \in DOMAIN q : q[i] \in Packets}
  BY <1>1, <1>2
<1>4. InpktsIn(q) = CountIn(q, Packets)
  BY <1>3 DEF InpktsIn, CountIn
<1> QED
  BY <1>4, CountType

\* An empty mailbox has no packet.
LEMMA InpktsEmpty == InpktsIn(<<>>) = 0
<1>1. <<>> \in Seq(Posts)
  OBVIOUS
<1> QED
  BY <1>1, InpktsCounted, CountEmpty

\* The frames in a mailbox.
LEMMA FramesOfFacts ==
  ASSUME NEW q \in Seq(Posts)
  PROVE  /\ FramesOf(q) \in Seq(Real \cup {NoFrame}) /\ Len(FramesOf(q)) = Len(q)
         /\ \A m \in Posts : FramesOf(Append(q, m)) = Append(FramesOf(q), m.frame)
         /\ q # <<>> => /\ FramesOf(Tail(q)) = Tail(FramesOf(q)) /\ FramesOf(q) # <<>>
                        /\ Head(FramesOf(q)) = Head(q).frame
<1> DEFINE g == FramesOf(q)
           k == Len(q)
<1>1. k \in Nat /\ DOMAIN q = 1 .. k /\ \A i \in 1 .. k : q[i] \in Posts
  BY LenProperties, ElementOfSeq
<1>2. \A m \in Posts : m.frame \in Real \cup {NoFrame}
  BY PostFacts DEF Posts
<1>3. g \in [1 .. k -> Real \cup {NoFrame}] /\ \A i \in 1 .. k : g[i] = q[i].frame
  BY <1>1, <1>2 DEF FramesOf
<1>4. g \in Seq(Real \cup {NoFrame}) /\ Len(g) = k
  BY <1>1, <1>3
<1>5. ASSUME NEW m \in Posts PROVE FramesOf(Append(q, m)) = Append(g, m.frame)
  <2> DEFINE r == Append(q, m)
             h == Append(g, m.frame)
  <2>1. /\ DOMAIN r = 1 .. (k + 1) /\ r[k + 1] = m /\ \A i \in 1 .. k : r[i] = q[i]
    BY <1>1, AppendProperties, LenProperties
  <2>2. /\ h = [i \in 1 .. (k + 1) |-> h[i]] /\ h[k + 1] = m.frame
        /\ \A i \in 1 .. k : h[i] = g[i]
    <3>1. m.frame \in Real \cup {NoFrame}
      BY <1>2
    <3>2. h \in Seq(Real \cup {NoFrame}) /\ Len(h) = k + 1
      BY <1>4, <3>1, AppendProperties
    <3> QED
      BY <1>1, <1>4, <3>1, <3>2, AppendProperties, LenProperties
  <2>3. \A i \in 1 .. (k + 1) : i \in 1 .. k \/ i = k + 1
    BY <1>1
  <2> HIDE DEF r, h, g, k
  <2>4. \A i \in 1 .. (k + 1) : h[i] = r[i].frame
    BY <1>3, <2>1, <2>2, <2>3
  <2>5. FramesOf(r) = [i \in 1 .. (k + 1) |-> r[i].frame]
    BY <2>1 DEF FramesOf
  <2>6. FramesOf(r) = h
    BY <2>2, <2>4, <2>5
  <2> QED
    BY <2>6 DEF r, h
<1>6. ASSUME q # <<>>
      PROVE  FramesOf(Tail(q)) = Tail(g) /\ g # <<>> /\ Head(g) = Head(q).frame
  <2> DEFINE r == Tail(q)
             h == Tail(g)
  <2>1. k \in Nat \ {0}
    BY <1>1, <1>6, LenProperties, EmptySeq
  <2>2. g # <<>>
    BY <1>4, <2>1
  <2>3. /\ DOMAIN r = 1 .. (k - 1) /\ Head(q) = q[1] /\ \A i \in 1 .. (k - 1) : r[i] = q[i + 1]
    BY <1>6, <2>1, HeadTailProperties, LenProperties
  <2>4. /\ h = [i \in 1 .. (k - 1) |-> h[i]] /\ Head(g) = g[1]
        /\ \A i \in 1 .. (k - 1) : h[i] = g[i + 1]
    <3>1. g \in Seq(Real \cup {NoFrame}) /\ Len(g) = k /\ k \in Nat
      BY <1>1, <1>4
    <3> HIDE DEF g, k
    <3>2. h \in Seq(Real \cup {NoFrame}) /\ Len(h) = k - 1 /\ Head(g) = g[1]
      BY <2>2, <3>1, HeadTailProperties
    <3>3. \A i \in 1 .. (k - 1) : h[i] = g[i + 1]
      BY <2>2, <3>1, HeadTailProperties
    <3>4. DOMAIN h = 1 .. (k - 1) /\ h = [i \in DOMAIN h |-> h[i]]
      BY <3>2, LenProperties
    <3> QED
      BY <3>2, <3>3, <3>4
  <2>5. \A i \in 1 .. (k - 1) : i + 1 \in 1 .. k
    BY <1>1
  <2> HIDE DEF r, h, g, k
  <2>6. \A i \in 1 .. (k - 1) : h[i] = r[i].frame
    BY <1>3, <2>3, <2>4, <2>5
  <2>7. FramesOf(r) = [i \in 1 .. (k - 1) |-> r[i].frame]
    BY <2>3 DEF FramesOf
  <2>8. FramesOf(r) = h
    BY <2>4, <2>6, <2>7
  <2>9. Head(g) = Head(q).frame
    BY <1>3, <2>1, <2>3, <2>4
  <2> QED
    BY <2>2, <2>8, <2>9 DEF r, h
<1> QED
  BY <1>4, <1>5, <1>6

\* The pbufs in an empty mailbox, and their number.
LEMMA BoxedPbufs ==
  /\ PbufsIn(FramesOf(<<>>)) = 0
  /\ \A q \in Seq(Posts) : PbufsIn(FramesOf(q)) \in Nat
<1>1. FramesOf(<<>>) = <<>>
  BY DEF FramesOf
<1>2. ASSUME NEW q \in Seq(Posts) PROVE PbufsIn(FramesOf(q)) \in Nat
  BY FramesOfFacts, PbufsBounded
<1> QED
  BY <1>1, <1>2, PbufsEmpty

\* A message is queued.
LEMMA QueueStep ==
  ASSUME NEW q \in Seq(Posts), NEW m \in Posts
  PROVE  /\ Append(q, m) \in Seq(Posts) /\ Len(Append(q, m)) = Len(q) + 1
         /\ Append(q, m) # <<>> /\ Len(q) \in Nat
         /\ InpktsIn(Append(q, m)) = InpktsIn(q) + Is(IsInpkt(m))
         /\ PbufsIn(FramesOf(Append(q, m))) = PbufsIn(FramesOf(q)) + m.frame.pbufs
<1>1. Append(q, m) \in Seq(Posts) /\ Len(Append(q, m)) = Len(q) + 1 /\ Append(q, m) # <<>>
      /\ Len(q) \in Nat
  BY AppendProperties, LenProperties
<1>2. IsInpkt(m) <=> m \in Packets
  BY PostFacts DEF Posts
<1>3. CountIn(Append(q, m), Packets) = CountIn(q, Packets) + IF m \in Packets THEN 1 ELSE 0
  BY CountAppend
<1>4. PbufsIn(FramesOf(Append(q, m))) = PbufsIn(FramesOf(q)) + m.frame.pbufs
  <2>1. /\ FramesOf(q) \in Seq(Real \cup {NoFrame})
        /\ FramesOf(Append(q, m)) = Append(FramesOf(q), m.frame)
    BY FramesOfFacts
  <2>2. m.frame \in Real \cup {NoFrame}
    BY PostFacts DEF Posts
  <2> QED
    BY <2>1, <2>2, FrameFacts, PbufsAppend
<1> QED
  BY <1>1, <1>2, <1>3, <1>4, InpktsCounted DEF Is

\* The oldest message is fetched.
LEMMA FetchStep ==
  ASSUME NEW q \in Seq(Posts), q # <<>>
  PROVE  /\ Head(q) \in Posts /\ Tail(q) \in Seq(Posts) /\ Len(Tail(q)) = Len(q) - 1
         /\ Len(q) \in Nat /\ Len(q) > 0
         /\ InpktsIn(q) = InpktsIn(Tail(q)) + Is(IsInpkt(Head(q)))
         /\ PbufsIn(FramesOf(q)) = PbufsIn(FramesOf(Tail(q))) + Head(q).frame.pbufs
<1>1. /\ Head(q) \in Posts /\ Tail(q) \in Seq(Posts) /\ Len(Tail(q)) = Len(q) - 1
      /\ Len(q) \in Nat /\ Len(q) > 0
  BY HeadTailProperties, LenProperties, EmptySeq
<1>2. IsInpkt(Head(q)) <=> Head(q) \in Packets
  BY <1>1, PostFacts DEF Posts
<1>3. CountIn(q, Packets) = CountIn(Tail(q), Packets) + IF Head(q) \in Packets THEN 1 ELSE 0
  BY CountTail
<1>4. PbufsIn(FramesOf(q)) = PbufsIn(FramesOf(Tail(q))) + Head(q).frame.pbufs
  BY FramesOfFacts, FrameFacts, PbufsTail
<1> QED
  BY <1>1, <1>2, <1>3, <1>4, InpktsCounted DEF Is

-----------------------------------------------------------------------------
(* The invariant of the way of a frame                                     *)

\* The types the invariant needs, field by field.
NTyped ==
  /\ rxFifo \in Seq(Real) /\ cur \in Real \cup {NoFrame}
  /\ mbox \in Seq(Posts) /\ Len(mbox) <= MboxSize
  /\ hand \in Posts \cup {NoMsg, Timer}
  /\ recvmbox \in Seq(Orders) /\ Len(recvmbox) <= MboxSize /\ recvbuf \in Orders \cup {NoFrame}
  /\ sentbuf \in {"none", "held", "freed"}
  /\ pbufFree \in Nat /\ inpktFree \in Nat /\ netbufFree \in Nat
  /\ frames \in Nat /\ frames <= MaxFrames

\* Every signal of the semaphore, and the one to come, stands for a frame.
Signals == semCtr \in Nat /\ semCtr <= frames /\ (prs => semCtr < frames)

\* The flags are flags.
Flags == /\ prs \in BOOLEAN /\ pts \in BOOLEAN /\ rcr \in BOOLEAN /\ txBusy \in BOOLEAN
         /\ sendErr \in BOOLEAN

\* tcpip_thread holds a message only while it handles it, and waits only when
\* its mailbox is empty.
TcpipAt ==
  /\ npc["tcpip"] = "fetch" => hand = NoMsg
  /\ tstate["tcpip"] = "WAIT" => npc["tcpip"] = "handle" /\ hand = NoMsg /\ mbox = <<>>

\* The receive task holds a frame from the chip to tcpip_input.
InputAt ==
  /\ cur # NoFrame => npc["input"] \in {"check", "unlock", "deliver"}
  /\ npc["input"] \in {"check", "deliver"} => cur # NoFrame

\* udp_thread holds what it receives until it is copied, and what it sends
\* until it is sent.
UdpAt ==
  /\ recvbuf # NoFrame => \/ npc["udp"] = "r_delete"
                          \/ npc["udp"] = "r_got" /\ tstate["udp"] # "WAIT"
  /\ npc["udp"] = "r_delete" => recvbuf # NoFrame
  /\ npc["udp"] = "r_got" => IF tstate["udp"] = "WAIT" THEN recvmbox = <<>>
                                                      ELSE recvbuf # NoFrame
  /\ sentbuf = "held" => npc["udp"] \in {"s_fill", "s_post", "s_result", "s_delete"}
  /\ npc["udp"] \in {"s_post", "s_result"} => sentbuf = "held"

\* A request of udp_thread is in one place, and udp_thread waits for its end.
ApiAt ==
  /\ hand = Api => npc["udp"] = "s_result" /\ tstate["udp"] = "WAIT"
  /\ \A i \in DOMAIN mbox : mbox[i] = Api =>
       /\ npc["udp"] = "s_result" /\ tstate["udp"] = "WAIT"
       /\ hand # Api /\ \A j \in DOMAIN mbox : mbox[j] = Api => j = i

\* The numbers of the frames at each place of the way, the last place first.
NumbersR == IF npc["udp"] = "r_got" /\ recvbuf # NoFrame THEN {recvbuf.id} ELSE {}
NumbersQ == Numbers(recvmbox, FrameId)
NumbersH == IF IsInpkt(hand) THEN {hand.frame.id} ELSE {}
NumbersM == Numbers(mbox, PostId)
NumbersC == IF cur # NoFrame THEN {cur.id} ELSE {}
NumbersF == Numbers(rxFifo, FrameId)

\* Every number of A is below every number of B.
Below(A, B) == \A a \in A, b \in B : a < b

\* The numbers of the places, each below those of the places before it.
Chained(r, q, h, m, c, f, n) ==
  /\ r \cup q \cup h \cup m \cup c \cup f \subseteq 1 .. n
  /\ Below(r, q) /\ Below(r, h) /\ Below(r, m) /\ Below(r, c) /\ Below(r, f)
  /\ Below(q, h) /\ Below(q, m) /\ Below(q, c) /\ Below(q, f)
  /\ Below(h, m) /\ Below(h, c) /\ Below(h, f)
  /\ Below(m, c) /\ Below(m, f) /\ Below(c, f)

\* A frame that is further on its way arrived earlier.
InOrder ==
  /\ Chained(NumbersR, NumbersQ, NumbersH, NumbersM, NumbersC, NumbersF, frames)
  /\ Ascends(recvmbox, FrameId) /\ Ascends(mbox, PostId) /\ Ascends(rxFifo, FrameId)

\* The inductive invariant of a frame's way.
WayInv ==
  /\ NInv
  /\ NTyped /\ Signals /\ Flags
  /\ TcpipAt /\ InputAt /\ UdpAt /\ ApiAt
  /\ BuffersConserved /\ InOrder

\* At the start nothing is on its way.
LEMMA WayInit == ASSUME NInit PROVE WayInv
<1>1. NInv
  BY NInitInv
<1>2. /\ rxFifo = <<>> /\ ~prs /\ prs = FALSE /\ pts = FALSE /\ rcr = TRUE /\ txBusy = FALSE
      /\ semCtr = 0 /\ cur = NoFrame /\ mbox = <<>> /\ hand = NoMsg /\ recvmbox = <<>>
      /\ recvbuf = NoFrame /\ sentbuf = "none" /\ sendErr = FALSE
      /\ pbufFree = NumPbuf /\ inpktFree = NumInpkt /\ netbufFree = NumNetbuf /\ frames = 0
  BY DEF NInit
<1>3. /\ npc["tcpip"] = "fetch" /\ npc["input"] = "sem" /\ npc["udp"] = "loop"
  <2>1. npc = [t \in NetTask |-> CASE t = "tcpip" -> "fetch" [] t = "dhcp" -> "idle"
                                   [] t = "input" -> "sem" [] t = "udp" -> "loop"]
    BY DEF NInit
  <2> QED
    BY <2>1 DEF NetTask
<1>4. /\ tstate["tcpip"] = "RDY" /\ tstate["udp"] = "RDY"
  BY TasksKnown DEF NInit, MInit
<1>5. /\ NumPbuf \in Nat /\ NumInpkt \in Nat /\ NumNetbuf \in Nat /\ MboxSize \in Nat
      /\ MaxFrames \in Nat
  BY NetworkAssumption
<1>6. NTyped
  BY <1>2, <1>5, EmptySeq DEF NTyped
<1>7. Signals /\ Flags
  <2>1. Signals
    BY <1>2 DEF Signals
  <2>2. Flags
    BY <1>2, Zenon DEF Flags
  <2> QED
    BY <2>1, <2>2
<1>8. TcpipAt /\ InputAt /\ UdpAt /\ ApiAt
  BY <1>2, <1>3, <1>4, PostFacts DEF TcpipAt, InputAt, UdpAt, ApiAt
<1>9. BuffersConserved
  <2>1. /\ Pbufs = NoFrame.pbufs + PbufsIn(FramesOf(<<>>)) + NoFrame.pbufs + PbufsIn(<<>>)
                   + NoFrame.pbufs
    BY <1>2, PostFacts DEF Pbufs
  <2>2. Pbufs = 0
    BY <2>1, BoxedPbufs, PbufsEmpty, FrameFacts
  <2> QED
    BY <1>2, <1>5, <2>2, InpktsEmpty, PostFacts DEF BuffersConserved, Inpkts, Netbufs, Is
<1>10. /\ NumbersR = {} /\ NumbersQ = {} /\ NumbersH = {} /\ NumbersM = {} /\ NumbersC = {}
       /\ NumbersF = {}
  BY <1>2, PostFacts, NumbersEmpty
     DEF NumbersR, NumbersQ, NumbersH, NumbersM, NumbersC, NumbersF
<1>11. InOrder
  BY <1>2, <1>10, NumbersEmpty DEF InOrder, Chained, Below
<1> QED
  BY <1>1, <1>6, <1>7, <1>8, <1>9, <1>11 DEF WayInv

-----------------------------------------------------------------------------
(* Who moves and who waits                                                 *)

\* A task that goes on moves no other.
LEMMA GotoFacts ==
  ASSUME NInv, NEW t \in NetTask, NEW from, NEW to, Goto(t, from, to)
  PROVE  npc[t] = from /\ npc'[t] = to /\ \A u \in NetTask : u # t => npc'[u] = npc[u]
  BY DEF NInv, Places, Goto

\* The same tasks wait.
SameWaits == \A u \in NetTask : tstate'[u] = "WAIT" <=> tstate[u] = "WAIT"

\* Who waits after a step of a task.
LEMMA WaitFacts ==
  ASSUME NInv, NEW t \in NetTask
  PROVE  /\ Step(t) => tstate[t] = "RDY" /\ SameWaits
         /\ Sleep(t) => /\ tstate[t] = "RDY" /\ tstate'[t] = "WAIT"
                        /\ \A u \in NetTask : u # t => tstate'[u] = tstate[u]
         /\ MakeReady(t) => /\ tstate'[t] = "RDY"
                            /\ \A u \in NetTask : u # t => tstate'[u] = tstate[u]
         /\ UNCHANGED mvars => SameWaits
  BY TasksKnown DEF NInv, MInv, MTypeOK, Step, Sleep, MakeReady, Runs, SameWaits, mvars

\* A task that pends on the mutex, or is given it, was not waiting and is not.
LEMMA LockWaits ==
  ASSUME NInv, NEW t \in NetTask, OSMutexPend(t) \/ OSMutexPost(t)
  PROVE  tstate[t] = "RDY" /\ SameWaits
<1>1. tstate[t] = "RDY" /\ tstate \in [NetTask -> States]
  BY TasksKnown DEF OSMutexPend, OSMutexPost, Runs, NInv, MInv, MTypeOK
<1>2. CASE tstate' = tstate
  BY <1>1, <1>2 DEF SameWaits
<1>3. CASE tstate' = [tstate EXCEPT ![t] = "PEND"]
  BY <1>1, <1>3 DEF SameWaits
<1>4. CASE HandOver(t)
  <2>1. waiters # <<>> /\ tstate' = [tstate EXCEPT ![Head(waiters)] = "RDY"]
    BY <1>4 DEF HandOver
  <2>2. Head(waiters) \in NetTask /\ tstate[Head(waiters)] = "PEND"
    <3>1. WaitersSorted /\ waiters \in Seq(Task)
      BY InvSorted DEF NInv, MInv, MTypeOK
    <3>2. 1 \in DOMAIN waiters /\ Head(waiters) = waiters[1]
      BY <2>1, <3>1, LenProperties, EmptySeq
    <3> QED
      BY <3>1, <3>2, TasksKnown DEF WaitersSorted
  <2> QED
    BY <1>1, <2>1, <2>2 DEF SameWaits
<1> QED
  BY <1>1, <1>2, <1>3, <1>4
     DEF OSMutexPend, OSMutexPost, Take, TakeAgain, Block, Unnest, Free, mvars

\* The steps of lwip_dhcp_task, and those of the chip, concern no other task.
LEMMA DhcpApart ==
  ASSUME WayInv, Dhcp \/ DhcpStart
  PROVE  /\ \A u \in NetTask : u # "dhcp" =>
              npc'[u] = npc[u] /\ (tstate'[u] = "WAIT" <=> tstate[u] = "WAIT")
         /\ UNCHANGED <<rxFifo, prs, rcr, input, boxes, udpv, pools, frames>>
<1> DEFINE t == "dhcp"
<1>1. NInv /\ t \in NetTask
  BY DEF WayInv, NetTask
<1>2. \E from, to : Goto(t, from, to)
  BY Zenon DEF Dhcp, DhcpStart, DhcpIdle, DhcpSent, DM9000_SendPacket, TxLock, TxMask, TxStart,
         TxPoll, TxUnmask, TxUnlock
<1>3. \A u \in NetTask : u # t => npc'[u] = npc[u]
  BY <1>1, <1>2, GotoFacts
<1>4. Step(t) \/ Sleep(t) \/ MakeReady(t) \/ OSMutexPend(t) \/ OSMutexPost(t)
  BY DEF Dhcp, DhcpStart, DhcpIdle, DhcpSent, DM9000_SendPacket, TxLock, TxMask, TxStart,
         TxPoll, TxUnmask, TxUnlock, Wake
<1>5. \A u \in NetTask : u # t => (tstate'[u] = "WAIT" <=> tstate[u] = "WAIT")
  BY <1>1, <1>4, WaitFacts, LockWaits DEF SameWaits
<1>6. UNCHANGED <<rxFifo, prs, rcr, input, boxes, udpv, pools, frames>>
  BY DEF Dhcp, DhcpStart, DhcpIdle, DhcpSent, DM9000_SendPacket, TxLock, TxMask, TxStart,
         TxPoll, TxUnmask, TxUnlock, chip, used
<1> QED
  BY <1>3, <1>5, <1>6

\* The steps of the chip.
LEMMA ChipApart ==
  ASSUME WayInv, FrameArrives \/ TransmissionEnds \/ DMA9000_ISRHandler \/ UNCHANGED nvars
  PROVE  /\ npc' = npc
         /\ \A u \in NetTask : u # "input" => (tstate'[u] = "WAIT" <=> tstate[u] = "WAIT")
         /\ UNCHANGED <<cur, boxes, udpv, pools>>
<1>1. NInv /\ "input" \in NetTask
  BY DEF WayInv, NetTask
<1>2. UNCHANGED mvars \/ MakeReady("input")
  BY DEF FrameArrives, TransmissionEnds, DMA9000_ISRHandler, nvars
<1>3. \A u \in NetTask : u # "input" => (tstate'[u] = "WAIT" <=> tstate[u] = "WAIT")
  BY <1>1, <1>2, WaitFacts DEF SameWaits
<1> QED
  BY <1>3 DEF FrameArrives, TransmissionEnds, DMA9000_ISRHandler, nvars, input

\* The transmissions of tcpip_thread.
LEMMA TransmitApart ==
  ASSUME WayInv, DM9000_SendPacket("tcpip")
  PROVE  /\ \A u \in NetTask : u # "tcpip" => npc'[u] = npc[u]
         /\ npc'["tcpip"] \in {"tx_mask", "tx_start", "tx_wait", "tx_unmask", "tx_unlock", "tx_done"}
         /\ tstate["tcpip"] = "RDY" /\ SameWaits
         /\ UNCHANGED <<rxFifo, prs, rcr, input, boxes, udpv, pools, frames>>
<1> DEFINE t == "tcpip"
<1>1. NInv /\ t \in NetTask
  BY DEF WayInv, NetTask
<1>2. \E from : \E to \in {"tx_mask", "tx_start", "tx_wait", "tx_unmask", "tx_unlock", "tx_done"} :
        Goto(t, from, to)
  BY Zenon DEF DM9000_SendPacket, TxLock, TxMask, TxStart, TxPoll, TxUnmask, TxUnlock
<1>3. /\ \A u \in NetTask : u # t => npc'[u] = npc[u]
      /\ npc'[t] \in {"tx_mask", "tx_start", "tx_wait", "tx_unmask", "tx_unlock", "tx_done"}
  BY <1>1, <1>2, GotoFacts
<1>4. Step(t) \/ OSMutexPend(t) \/ OSMutexPost(t)
  BY DEF DM9000_SendPacket, TxLock, TxMask, TxStart, TxPoll, TxUnmask, TxUnlock
<1>5. tstate[t] = "RDY" /\ SameWaits
  BY <1>1, <1>4, WaitFacts, LockWaits
<1>6. UNCHANGED <<rxFifo, prs, rcr, input, boxes, udpv, pools, frames>>
  BY DEF DM9000_SendPacket, TxLock, TxMask, TxStart, TxPoll, TxUnmask, TxUnlock, chip, used
<1> QED
  BY <1>3, <1>5, <1>6

\* The receive task.
LEMMA InputApart ==
  ASSUME WayInv, Input
  PROVE  /\ \A u \in NetTask : u # "input" => npc'[u] = npc[u]
         /\ ~InputDeliver =>
              /\ \A u \in NetTask : u # "input" => (tstate'[u] = "WAIT" <=> tstate[u] = "WAIT")
              /\ UNCHANGED boxes
         /\ UNCHANGED <<recvmbox, udpv, netbufFree, frames, prs>>
<1> DEFINE t == "input"
<1>1. NInv /\ t \in NetTask
  BY DEF WayInv, NetTask
<1>2. \E from, to : Goto(t, from, to)
  BY Zenon DEF Input, InputSem, InputLock, ReadFrame, ReadJunk, ReadNothing, Rearm, CheckFrame,
         InputUnlock, InputDeliver
<1>3. \A u \in NetTask : u # t => npc'[u] = npc[u]
  BY <1>1, <1>2, GotoFacts
<1>4. ~InputDeliver =>
        Step(t) \/ Sleep(t) \/ OSMutexPend(t) \/ OSMutexPost(t)
  BY DEF Input, InputSem, InputLock, ReadFrame, ReadJunk, ReadNothing, Rearm, CheckFrame,
         InputUnlock
<1>5. ~InputDeliver =>
        \A u \in NetTask : u # t => (tstate'[u] = "WAIT" <=> tstate[u] = "WAIT")
  BY <1>1, <1>4, WaitFacts, LockWaits DEF SameWaits
<1>6. /\ ~InputDeliver => UNCHANGED boxes
      /\ UNCHANGED <<recvmbox, udpv, netbufFree, frames, prs>>
  BY DEF Input, InputSem, InputLock, ReadFrame, ReadJunk, ReadNothing, Rearm, CheckFrame,
         InputUnlock, InputDeliver, MboxPost, boxes, pools, chip, used
<1> QED
  BY <1>3, <1>5, <1>6

\* tcpip_thread.
LEMMA TcpipApart ==
  ASSUME WayInv, Tcpip
  PROVE  /\ \A u \in NetTask : u # "tcpip" => npc'[u] = npc[u]
         /\ tstate["tcpip"] = "RDY"
         /\ UNCHANGED <<rxFifo, prs, rcr, input, frames>>
<1> DEFINE t == "tcpip"
<1>1. NInv /\ t \in NetTask
  BY DEF WayInv, NetTask
<1>2. CASE DM9000_SendPacket(t)
  BY <1>2, TransmitApart
<1>3. CASE TcpipFetch \/ RecvUdp \/ TcpipTransmit \/ TcpipSendFails \/ TcpipDone
  <2>1. \E from, to : Goto(t, from, to)
    BY <1>3, Zenon DEF TcpipFetch, RecvUdp, TcpipTransmit, TcpipSendFails, TcpipDone
  <2>2. \A u \in NetTask : u # t => npc'[u] = npc[u]
    BY <1>1, <2>1, GotoFacts
  <2>3. tstate[t] = "RDY"
    BY <1>3 DEF TcpipFetch, RecvUdp, TcpipTransmit, TcpipSendFails, TcpipDone, Step, Sleep, Runs
  <2>4. UNCHANGED <<rxFifo, prs, rcr, input, frames>>
    BY <1>3 DEF TcpipFetch, RecvUdp, TcpipTransmit, TcpipSendFails, TcpipDone, chip, used
  <2> QED
    BY <2>2, <2>3, <2>4
<1> QED
  BY <1>2, <1>3 DEF Tcpip

\* udp_thread.
LEMMA UdpApart ==
  ASSUME WayInv, Udp \/ Ticks
  PROVE  /\ \A u \in NetTask : u # "udp" => npc'[u] = npc[u]
         /\ ~UdpPostApi =>
              /\ \A u \in NetTask : u # "udp" => (tstate'[u] = "WAIT" <=> tstate[u] = "WAIT")
              /\ UNCHANGED <<mbox, hand>>
         /\ UNCHANGED <<rxFifo, prs, rcr, input, frames>>
<1> DEFINE t == "udp"
<1>1. NInv /\ t \in NetTask
  BY DEF WayInv, NetTask
<1>2. \E from, to : Goto(t, from, to)
  BY Zenon DEF Udp, Ticks, UdpNewBuf, UdpFill, UdpPostApi, UdpResult, UdpDelete, UdpNoFlag,
         UdpFetch, UdpDelay, UdpCopy, UdpDeleteReceived, UdpFetchTimeout, UdpDelayEnds
<1>3. \A u \in NetTask : u # t => npc'[u] = npc[u]
  BY <1>1, <1>2, GotoFacts
<1>4. ~UdpPostApi => Step(t) \/ Sleep(t) \/ MakeReady(t)
  BY DEF Udp, Ticks, UdpNewBuf, UdpFill, UdpResult, UdpDelete, UdpNoFlag,
         UdpFetch, UdpDelay, UdpCopy, UdpDeleteReceived, UdpFetchTimeout, UdpDelayEnds, Wake
<1>5. ~UdpPostApi =>
        \A u \in NetTask : u # t => (tstate'[u] = "WAIT" <=> tstate[u] = "WAIT")
  BY <1>1, <1>4, WaitFacts DEF SameWaits
<1>6. /\ ~UdpPostApi => UNCHANGED <<mbox, hand>>
      /\ UNCHANGED <<rxFifo, prs, rcr, input, frames>>
  BY DEF Udp, Ticks, UdpNewBuf, UdpFill, UdpPostApi, UdpResult, UdpDelete, UdpNoFlag,
         UdpFetch, UdpDelay, UdpCopy, UdpDeleteReceived, UdpFetchTimeout, UdpDelayEnds,
         boxes, chip, used
<1> QED
  BY <1>3, <1>5, <1>6

-----------------------------------------------------------------------------
(* Where the tasks are                                                     *)

\* The actors of the network.
LEMMA NoOther ==
  ASSUME [NNext]_nvars
  PROVE  \/ FrameArrives \/ TransmissionEnds \/ DMA9000_ISRHandler \/ UNCHANGED nvars
         \/ Dhcp \/ DhcpStart \/ TcpipTimeout \/ Input \/ Tcpip \/ Udp \/ Ticks
  BY DEF NNext

\* A signal is a frame's: the interrupt gives one for a frame that arrived.
LEMMA SignalsStep == ASSUME WayInv, [NNext]_nvars PROVE Signals'
<1>1. Signals
  BY DEF WayInv
<1>2. CASE FrameArrives
  <2>1. frames' = frames + 1 /\ semCtr' = semCtr /\ frames \in Nat
    BY <1>2 DEF FrameArrives, input, WayInv, NTyped
  <2> QED
    BY <1>1, <2>1 DEF Signals
<1>3. CASE DMA9000_ISRHandler
  <2>1. /\ prs /\ prs' = FALSE /\ frames' = frames /\ frames \in Nat
        /\ semCtr' = semCtr \/ semCtr' = semCtr + 1
    BY <1>3 DEF DMA9000_ISRHandler, used, WayInv, NTyped
  <2> QED
    BY <1>1, <2>1 DEF Signals
<1>4. CASE TransmissionEnds \/ TcpipTimeout \/ UNCHANGED nvars
  <2>1. UNCHANGED <<prs, semCtr, frames>>
    BY <1>4 DEF TransmissionEnds, TcpipTimeout, nvars, chip, input, used
  <2> QED
    BY <1>1, <2>1 DEF Signals
<1>5. CASE Dhcp \/ DhcpStart \/ Tcpip \/ Udp \/ Ticks
  <2>1. UNCHANGED <<prs, semCtr, frames>>
    BY <1>5, DhcpApart, TcpipApart, UdpApart DEF input
  <2> QED
    BY <1>1, <2>1 DEF Signals
<1>6. CASE Input
  <2>1. UNCHANGED <<prs, frames>>
    BY <1>6, InputApart
  <2>2. semCtr' = semCtr \/ (semCtr > 0 /\ semCtr' = semCtr - 1)
    BY <1>6 DEF Input, InputSem, InputLock, ReadFrame, ReadJunk, ReadNothing, Rearm, CheckFrame,
         InputUnlock, InputDeliver, input
  <2>3. frames \in Nat
    BY DEF WayInv, NTyped
  <2> QED
    BY <1>1, <2>1, <2>2, <2>3 DEF Signals
<1> QED
  BY <1>2, <1>3, <1>4, <1>5, <1>6, NoOther

\* The flags stay flags.
LEMMA FlagsStep == ASSUME WayInv, [NNext]_nvars PROVE Flags'
<1>1. Flags
  BY DEF WayInv
<1>2. CASE FrameArrives \/ TransmissionEnds \/ DMA9000_ISRHandler \/ TcpipTimeout \/ UNCHANGED nvars
  BY <1>1, <1>2, Zenon DEF Flags, FrameArrives, TransmissionEnds, DMA9000_ISRHandler,
     TcpipTimeout, nvars, chip, udpv
<1>3. CASE Input
  BY <1>1, <1>3, Zenon DEF Flags, Input, InputSem, InputLock, ReadFrame, ReadJunk, ReadNothing,
     Rearm, CheckFrame, InputUnlock, InputDeliver, chip, udpv
<1>4. CASE Udp \/ Ticks
  BY <1>1, <1>4, Zenon DEF Flags, Udp, Ticks, UdpNewBuf, UdpFill, UdpPostApi, UdpResult,
     UdpDelete, UdpNoFlag, UdpFetch, UdpDelay, UdpCopy, UdpDeleteReceived, UdpFetchTimeout,
     UdpDelayEnds, chip, udpv
<1>5. ASSUME NEW t, DM9000_SendPacket(t) PROVE Flags'
  BY <1>1, <1>5, Zenon DEF Flags, DM9000_SendPacket, TxLock, TxMask, TxStart, TxPoll, TxUnmask,
     TxUnlock, chip, udpv
<1>6. CASE Dhcp \/ DhcpStart
  BY <1>1, <1>5, <1>6, Zenon DEF Flags, Dhcp, DhcpStart, DhcpIdle, DhcpSent, chip, udpv
<1>7. CASE Tcpip
  BY <1>1, <1>5, <1>7, Zenon DEF Flags, Tcpip, TcpipFetch, RecvUdp, TcpipTransmit,
     TcpipSendFails, TcpipDone, chip, udpv
<1> QED
  BY <1>2, <1>3, <1>4, <1>6, <1>7, NoOther

\* Where the receive task is tells whether it holds a frame.
LEMMA InputAtStep == ASSUME WayInv, [NNext]_nvars PROVE InputAt'
<1>1. InputAt /\ NInv /\ {"input", "dhcp", "tcpip", "udp"} \subseteq NetTask /\ NTyped
  BY DEF WayInv, NetTask
<1>2. CASE /\ cur' = cur /\ npc'["input"] = npc["input"]
  BY <1>1, <1>2 DEF InputAt
<1>3. CASE ~Input
  <2>1. CASE FrameArrives \/ TransmissionEnds \/ DMA9000_ISRHandler \/ UNCHANGED nvars
    BY <1>2, <2>1, ChipApart
  <2>2. CASE Dhcp \/ DhcpStart \/ Tcpip \/ Udp \/ Ticks
    BY <1>1, <1>2, <2>2, DhcpApart, TcpipApart, UdpApart DEF input
  <2>3. CASE TcpipTimeout
    BY <1>2, <2>3 DEF TcpipTimeout, input
  <2> QED
    BY <1>3, <2>1, <2>2, <2>3, NoOther
<1>4. CASE ReadFrame
  <2>1. CASE Goto("input", "read", "check") /\ cur' = Head(rxFifo)
    <3>1. Head(rxFifo) \in Real
      BY <1>1, <1>4, HeadTailProperties DEF NTyped, ReadFrame
    <3> QED
      BY <1>1, <2>1, <3>1, GotoFacts, FrameFacts DEF InputAt
  <2>2. ASSUME NEW to \in {"read", "unlock", "spin"}, Goto("input", "read", to), cur' = cur
        PROVE  InputAt'
    BY <1>1, <2>2, GotoFacts DEF InputAt
  <2> QED
    BY <1>4, <2>1, <2>2 DEF ReadFrame
<1>5. CASE CheckFrame
  <2>1. CASE Goto("input", "check", "read") /\ cur' = NoFrame
    BY <1>1, <2>1, GotoFacts DEF InputAt
  <2>2. CASE Goto("input", "check", "unlock") /\ cur' = cur
    BY <1>1, <2>2, GotoFacts DEF InputAt
  <2> QED
    BY <1>5, <2>1, <2>2 DEF CheckFrame
<1>6. CASE InputUnlock
  <2>1. cur' = cur /\ npc["input"] = "unlock"
        /\ npc'["input"] = IF cur = NoFrame THEN "sem" ELSE "deliver"
    BY <1>1, <1>6, GotoFacts DEF InputUnlock, input
  <2> QED
    BY <1>1, <2>1 DEF InputAt
<1>7. CASE InputDeliver
  BY <1>1, <1>7, GotoFacts DEF InputAt, InputDeliver
<1>8. ASSUME NEW from \in {"sem", "lock", "read", "rearm"},
             NEW to \in {"lock", "read", "sem", "rearm", "unlock"},
             Goto("input", from, to), cur' = cur
      PROVE  InputAt'
  BY <1>1, <1>8, GotoFacts DEF InputAt
<1>9. CASE InputSem \/ InputLock \/ ReadJunk \/ ReadNothing \/ Rearm
  BY <1>8, <1>9 DEF InputSem, InputLock, ReadJunk, ReadNothing, Rearm, input
<1> QED
  BY <1>3, <1>4, <1>5, <1>6, <1>7, <1>9 DEF Input

\* Where tcpip_thread is tells whether it may hold a message.
LEMMA TcpipAtStep == ASSUME WayInv, [NNext]_nvars PROVE TcpipAt'
<1> DEFINE t == "tcpip"
<1>1. TcpipAt /\ NInv /\ {"input", "dhcp", "tcpip", "udp"} \subseteq NetTask
  BY DEF WayInv, NetTask
<1>2. CASE /\ hand' = hand /\ mbox' = mbox /\ npc'[t] = npc[t]
           /\ tstate'[t] = "WAIT" => tstate[t] = "WAIT"
  BY <1>1, <1>2 DEF TcpipAt
<1>3. CASE FrameArrives \/ TransmissionEnds \/ DMA9000_ISRHandler \/ UNCHANGED nvars
           \/ Dhcp \/ DhcpStart
  BY <1>1, <1>2, <1>3, ChipApart, DhcpApart DEF boxes
<1>4. CASE (Input /\ ~InputDeliver) \/ ((Udp \/ Ticks) /\ ~UdpPostApi)
  BY <1>1, <1>2, <1>4, InputApart, UdpApart DEF boxes
<1>5. CASE TcpipTimeout
  <2>1. npc[t] = "handle" /\ npc' = npc /\ MakeReady(t)
    BY <1>5 DEF TcpipTimeout, Waits
  <2> QED
    BY <1>1, <2>1, WaitFacts DEF TcpipAt
<1>6. CASE InputDeliver \/ UdpPostApi
  <2>1. npc'[t] = npc[t]
    BY <1>1, <1>6, InputApart, UdpApart DEF Input, Udp
  <2>2. CASE Waits(t, "handle")
    <3>1. tstate'[t] # "WAIT" \/ (UNCHANGED <<mvars, hand, mbox>>)
      <4>1. CASE InputDeliver
        <5>1. MakeReady(t) \/ UNCHANGED <<mvars, hand, mbox>>
          BY <2>2, <4>1 DEF InputDeliver, MboxPost, boxes
        <5> QED
          BY <1>1, <5>1, WaitFacts
      <4>2. CASE UdpPostApi
        BY <1>1, <2>2, <4>2, TasksKnown DEF UdpPostApi, NInv, MInv, MTypeOK
      <4> QED
        BY <1>6, <4>1, <4>2
    <3> QED
      BY <1>1, <1>2, <2>1, <2>2, <3>1, WaitFacts DEF TcpipAt, Waits, SameWaits
  <2>3. CASE ~Waits(t, "handle")
    <3>1. tstate[t] # "WAIT"
      BY <1>1, <2>3 DEF TcpipAt, Waits
    <3>2. hand' = hand /\ tstate'[t] = tstate[t]
      <4>1. CASE InputDeliver
        BY <2>3, <4>1 DEF InputDeliver, MboxPost, boxes, mvars
      <4>2. CASE UdpPostApi
        BY <1>1, <2>3, <4>2, TasksKnown DEF UdpPostApi, NInv, MInv, MTypeOK
      <4> QED
        BY <1>6, <4>1, <4>2
    <3> QED
      BY <1>1, <2>1, <3>1, <3>2 DEF TcpipAt
  <2> QED
    BY <2>2, <2>3
<1>7. CASE TcpipFetch
  <2>1. npc[t] = "fetch" /\ npc'[t] = "handle"
    BY <1>1, <1>7, GotoFacts DEF TcpipFetch
  <2>2. CASE mbox # <<>>
    <3>1. tstate'[t] # "WAIT"
      BY <1>1, <1>7, <2>2, WaitFacts DEF TcpipFetch, SameWaits
    <3> QED
      BY <2>1, <3>1 DEF TcpipAt
  <2>3. CASE mbox = <<>>
    <3>1. hand' = hand /\ mbox' = mbox
      BY <1>7, <2>3 DEF TcpipFetch
    <3> QED
      BY <1>1, <2>1, <2>3, <3>1 DEF TcpipAt
  <2> QED
    BY <2>2, <2>3
<1>8. CASE RecvUdp \/ TcpipDone
  <2>1. npc'[t] = "fetch" /\ hand' = NoMsg
    BY <1>1, <1>8, GotoFacts DEF RecvUdp, TcpipDone
  <2>2. tstate[t] = "RDY" /\ (MakeReady("udp") \/ UNCHANGED mvars)
    BY <1>8 DEF RecvUdp, TcpipDone, Runs
  <2>3. tstate'[t] # "WAIT"
    BY <1>1, <2>2, WaitFacts DEF SameWaits
  <2> QED
    BY <2>1, <2>3 DEF TcpipAt
<1>9. CASE TcpipTransmit \/ TcpipSendFails \/ DM9000_SendPacket(t)
  <2>1. npc'[t] # "fetch" /\ tstate'[t] # "WAIT"
    <3>1. CASE TcpipTransmit \/ TcpipSendFails
      BY <1>1, <3>1, GotoFacts, WaitFacts DEF TcpipTransmit, TcpipSendFails, SameWaits
    <3>2. CASE DM9000_SendPacket(t)
      BY <1>1, <3>2, TransmitApart DEF SameWaits
    <3> QED
      BY <1>9, <3>1, <3>2
  <2> QED
    BY <2>1 DEF TcpipAt
<1> QED
  BY <1>3, <1>4, <1>5, <1>6, <1>7, <1>8, <1>9, NoOther DEF Tcpip

\* A message of type INPKT is a packet, one of type API the request.
LEMMA HandFacts ==
  ASSUME WayInv
  PROVE  /\ hand.type = "INPKT" => hand \in Packets /\ hand.frame \in Real /\ IsInpkt(hand)
         /\ hand.type = "API" <=> hand = Api
         /\ hand = Api \/ hand \in {NoMsg, Timer} => ~IsInpkt(hand) /\ hand.frame = NoFrame
         /\ IsInpkt(hand) <=> hand.type = "INPKT"
<1>1. hand \in Packets \/ hand = Api \/ hand = NoMsg \/ hand = Timer
  BY DEF WayInv, NTyped, Posts
<1> QED
  BY <1>1, PostFacts DEF IsInpkt

\* Where udp_thread is tells which buffers it holds.
LEMMA UdpAtStep == ASSUME WayInv, [NNext]_nvars PROVE UdpAt'
<1> DEFINE t == "udp"
<1>1. UdpAt /\ NInv /\ {"input", "dhcp", "tcpip", "udp"} \subseteq NetTask /\ NTyped
  BY DEF WayInv, NetTask
<1>2. CASE /\ UNCHANGED <<recvbuf, recvmbox, sentbuf>> /\ npc'[t] = npc[t]
           /\ tstate'[t] = "WAIT" <=> tstate[t] = "WAIT"
  BY <1>1, <1>2 DEF UdpAt
<1>3. CASE FrameArrives \/ TransmissionEnds \/ DMA9000_ISRHandler \/ UNCHANGED nvars
           \/ Dhcp \/ DhcpStart
  BY <1>1, <1>2, <1>3, ChipApart, DhcpApart DEF boxes, udpv
<1>4. CASE TcpipTimeout
  <2>1. npc' = npc /\ MakeReady("tcpip") /\ UNCHANGED <<recvbuf, recvmbox, sentbuf>>
    BY <1>4 DEF TcpipTimeout, udpv
  <2> QED
    BY <1>1, <1>2, <2>1, WaitFacts
<1>5. CASE Input
  <2>1. npc'[t] = npc[t] /\ UNCHANGED <<recvbuf, recvmbox, sentbuf>>
    BY <1>1, <1>5, InputApart DEF udpv
  <2>2. tstate'[t] = "WAIT" <=> tstate[t] = "WAIT"
    <3>1. CASE ~InputDeliver
      BY <1>1, <1>5, <3>1, InputApart
    <3>2. CASE InputDeliver
      <4>1. MakeReady("tcpip") \/ UNCHANGED mvars
        BY <3>2 DEF InputDeliver, MboxPost
      <4> QED
        BY <1>1, <4>1, WaitFacts DEF SameWaits
    <3> QED
      BY <3>1, <3>2
  <2> QED
    BY <1>2, <2>1, <2>2
<1>6. CASE Tcpip
  <2>1. npc'[t] = npc[t]
    BY <1>1, <1>6, TcpipApart
  <2>2. CASE TcpipFetch \/ TcpipTransmit \/ TcpipSendFails \/ DM9000_SendPacket("tcpip")
    <3>1. UNCHANGED <<recvbuf, recvmbox, sentbuf>>
      BY <2>2, TransmitApart DEF TcpipFetch, TcpipTransmit, TcpipSendFails, boxes, udpv
    <3>2. tstate'[t] = "WAIT" <=> tstate[t] = "WAIT"
      BY <1>1, <2>2, WaitFacts, TransmitApart
         DEF TcpipFetch, TcpipTransmit, TcpipSendFails, SameWaits
    <3> QED
      BY <1>2, <2>1, <3>1, <3>2
  <2>3. CASE TcpipDone
    <3>1. UNCHANGED <<recvbuf, recvmbox, sentbuf>>
      BY <2>3 DEF TcpipDone, udpv
    <3>2. CASE hand.type = "API"
      <4>1. npc[t] = "s_result"
        BY <3>2, HandFacts DEF WayInv, ApiAt
      <4> QED
        BY <1>1, <2>1, <3>1, <4>1 DEF UdpAt
    <3>3. CASE hand.type # "API"
      BY <1>1, <1>2, <2>1, <2>3, <3>1, <3>3, WaitFacts DEF TcpipDone, SameWaits
    <3> QED
      BY <3>2, <3>3
  <2>4. CASE RecvUdp
    <3>1. hand.frame # NoFrame
      BY <2>4, HandFacts, FrameFacts DEF RecvUdp
    <3>2. sentbuf' = sentbuf
      BY <2>4 DEF RecvUdp
    <3>3. CASE Waits(t, "r_got") /\ recvbuf' = hand.frame /\ MakeReady(t) /\ recvmbox' = recvmbox
      BY <1>1, <2>1, <3>1, <3>2, <3>3, WaitFacts DEF UdpAt, Waits
    <3>4. CASE /\ ~Waits(t, "r_got") /\ recvmbox' = Queued(recvmbox, hand.frame)
               /\ UNCHANGED <<mvars, recvbuf>>
      BY <1>1, <2>1, <3>2, <3>4 DEF UdpAt, Waits, mvars
    <3>5. CASE UNCHANGED <<mvars, recvbuf, recvmbox>>
      BY <1>1, <1>2, <2>1, <3>2, <3>5, WaitFacts DEF SameWaits
    <3> QED
      BY <2>4, <3>3, <3>4, <3>5 DEF RecvUdp
  <2> QED
    BY <1>6, <2>2, <2>3, <2>4 DEF Tcpip
<1>7. CASE UdpNewBuf
  BY <1>1, <1>7, GotoFacts DEF UdpNewBuf, UdpAt
<1>8. CASE UdpFill
  <2>1. UNCHANGED <<recvbuf, sentbuf>> /\ npc[t] = "s_fill"
        /\ npc'[t] = IF sentbuf = "held" THEN "s_post" ELSE "undefined"
    BY <1>1, <1>8, GotoFacts DEF UdpFill, udpv
  <2> QED
    BY <1>1, <2>1 DEF UdpAt
<1>9. CASE UdpPostApi \/ UdpNoFlag \/ UdpDelay \/ UdpDelayEnds
  <2>1. UNCHANGED <<recvbuf, sentbuf>>
        /\ <<npc[t], npc'[t]>> \in {<<"s_post", "s_result">>, <<"loop", "r_fetch">>,
                                    <<"r_delay", "delayed">>, <<"delayed", "loop">>}
    BY <1>1, <1>9, GotoFacts DEF UdpPostApi, UdpNoFlag, UdpDelay, UdpDelayEnds, udpv
  <2> QED
    BY <1>1, <2>1 DEF UdpAt
<1>10. CASE UdpResult
  <2>1. recvbuf' = recvbuf /\ npc[t] = "s_result" /\ npc'[t] = "s_delete"
    BY <1>1, <1>10, GotoFacts DEF UdpResult
  <2> QED
    BY <1>1, <2>1 DEF UdpAt
<1>11. CASE UdpDelete
  <2>1. recvbuf' = recvbuf /\ npc[t] = "s_delete" /\ npc'[t] \in {"r_fetch", "undefined"}
        /\ sentbuf' # "held"
    BY <1>1, <1>11, GotoFacts DEF UdpDelete
  <2> QED
    BY <1>1, <2>1 DEF UdpAt
<1>12. CASE UdpFetch
  <2>1. npc[t] = "r_fetch" /\ npc'[t] = "r_got" /\ sentbuf' = sentbuf
    BY <1>1, <1>12, GotoFacts DEF UdpFetch
  <2>2. CASE recvmbox # <<>>
    <3>1. recvbuf' # NoFrame /\ tstate'[t] # "WAIT"
      <4>1. Head(recvmbox) \in Orders
        BY <1>1, <2>2, HeadTailProperties DEF NTyped
      <4> QED
        BY <1>1, <1>12, <2>2, <4>1, WaitFacts, FrameFacts DEF UdpFetch, SameWaits
    <3> QED
      BY <1>1, <2>1, <3>1 DEF UdpAt
  <2>3. CASE recvmbox = <<>>
    <3>1. recvbuf' = recvbuf /\ recvmbox' = recvmbox /\ tstate'[t] = "WAIT"
      BY <1>1, <1>12, <2>3, WaitFacts DEF UdpFetch
    <3> QED
      BY <1>1, <2>1, <2>3, <3>1 DEF UdpAt
  <2> QED
    BY <2>2, <2>3
<1>13. CASE UdpFetchTimeout
  <2>1. /\ npc[t] = "r_got" /\ npc'[t] = "r_delay" /\ tstate[t] = "WAIT"
        /\ UNCHANGED <<recvbuf, sentbuf>>
    BY <1>1, <1>13, GotoFacts DEF UdpFetchTimeout, Wake, udpv
  <2> QED
    BY <1>1, <2>1 DEF UdpAt
<1>14. CASE UdpCopy
  <2>1. /\ npc[t] = "r_got" /\ npc'[t] = "r_delete" /\ tstate[t] = "RDY"
        /\ UNCHANGED <<recvbuf, sentbuf>>
    BY <1>1, <1>14, GotoFacts, WaitFacts DEF UdpCopy
  <2> QED
    BY <1>1, <2>1 DEF UdpAt
<1>15. CASE UdpDeleteReceived
  <2>1. npc[t] = "r_delete" /\ npc'[t] = "loop" /\ recvbuf' = NoFrame /\ sentbuf' = sentbuf
    BY <1>1, <1>15, GotoFacts DEF UdpDeleteReceived
  <2> QED
    BY <1>1, <2>1 DEF UdpAt
<1> QED
  BY <1>3, <1>4, <1>5, <1>6, <1>7, <1>8, <1>9, <1>10, <1>11, <1>12, <1>13, <1>14, <1>15, NoOther
     DEF Udp, Ticks

\* The request of udp_thread stays the only one until it is answered.
LEMMA ApiAtStep == ASSUME WayInv, [NNext]_nvars PROVE ApiAt'
<1> DEFINE t == "udp"
           Asks == npc[t] = "s_result" /\ tstate[t] = "WAIT"
           NoApi == hand # Api /\ \A i \in DOMAIN mbox : mbox[i] # Api
<1>1. ApiAt /\ NInv /\ {"input", "dhcp", "tcpip", "udp"} \subseteq NetTask /\ NTyped
  BY DEF WayInv, NetTask
<1>2. ~Asks => NoApi
  BY <1>1 DEF ApiAt
<1>3. CASE UNCHANGED <<hand, mbox>> /\ npc'[t] = npc[t] /\ (tstate'[t] = "WAIT" <=> tstate[t] = "WAIT")
  BY <1>1, <1>3 DEF ApiAt
<1>4. CASE NoApi /\ (hand' # Api /\ \A i \in DOMAIN mbox' : mbox'[i] # Api)
  BY <1>4 DEF ApiAt
<1>5. CASE FrameArrives \/ TransmissionEnds \/ DMA9000_ISRHandler \/ UNCHANGED nvars
           \/ Dhcp \/ DhcpStart
  BY <1>1, <1>3, <1>5, ChipApart, DhcpApart DEF boxes
<1>6. CASE Input /\ ~InputDeliver
  BY <1>1, <1>3, <1>6, InputApart DEF boxes
<1>7. CASE (Udp \/ Ticks) /\ ~UdpPostApi
  <2>1. ~Asks
    <3>1. CASE Udp /\ ~UdpPostApi
      <4>1. tstate[t] = "RDY"
        BY <3>1 DEF Udp, UdpNewBuf, UdpFill, UdpResult, UdpDelete, UdpNoFlag,
                    UdpFetch, UdpDelay, UdpCopy, UdpDeleteReceived, Step, Sleep, Runs
      <4> QED
        BY <4>1
    <3>2. CASE Ticks
      BY <1>1, <3>2, GotoFacts DEF Ticks, UdpFetchTimeout, UdpDelayEnds
    <3> QED
      BY <1>7, <3>1, <3>2
  <2>2. UNCHANGED <<hand, mbox>>
    BY <1>7, UdpApart
  <2> QED
    BY <1>2, <1>4, <2>1, <2>2
<1>8. CASE TcpipTimeout
  <2>1. /\ hand' = Timer /\ mbox' = mbox /\ npc' = npc /\ MakeReady("tcpip")
    BY <1>8 DEF TcpipTimeout
  <2>2. tstate'[t] = tstate[t]
    BY <1>1, <2>1, WaitFacts
  <2> QED
    BY <1>1, <2>1, <2>2, PostFacts DEF ApiAt
<1>9. CASE InputDeliver
  <2>1. npc'[t] = npc[t]
    BY <1>1, <1>9, InputApart DEF Input
  <2>2. (tstate'[t] = "WAIT" <=> tstate[t] = "WAIT")
    <3>1. MakeReady("tcpip") \/ UNCHANGED mvars
      BY <1>9 DEF InputDeliver, MboxPost
    <3> QED
      BY <1>1, <3>1, WaitFacts DEF SameWaits
  <2>3. Inpkt(cur) \in Posts /\ Inpkt(cur) # Api
    <3>1. cur \in Real
      BY <1>1, <1>9, GotoFacts DEF WayInv, InputAt, NTyped, InputDeliver
    <3> QED
      BY <3>1, PostFacts
  <2>4. \/ UNCHANGED <<hand, mbox>>
        \/ hand' = Inpkt(cur) /\ mbox' = mbox
        \/ hand' = hand /\ mbox' = Append(mbox, Inpkt(cur))
    BY <1>9 DEF InputDeliver, MboxPost, Queued, boxes
  <2>5. CASE hand' = Inpkt(cur) /\ mbox' = mbox
    BY <1>1, <2>1, <2>2, <2>3, <2>5 DEF ApiAt
  <2>6. CASE hand' = hand /\ mbox' = Append(mbox, Inpkt(cur))
    <3>1. /\ Len(mbox) \in Nat /\ DOMAIN mbox = 1 .. Len(mbox)
          /\ mbox' \in Seq(Posts) /\ Len(mbox') = Len(mbox) + 1
          /\ \A i \in 1 .. Len(mbox) : mbox'[i] = mbox[i]
          /\ mbox'[Len(mbox) + 1] = Inpkt(cur)
      BY <1>1, <2>3, <2>6, AppendProperties, LenProperties DEF NTyped
    <3>2. \A i \in DOMAIN mbox' : mbox'[i] = Api => i \in DOMAIN mbox /\ mbox[i] = Api
      BY <2>3, <3>1, LenProperties
    <3> QED
      BY <1>1, <2>1, <2>2, <2>6, <3>2 DEF ApiAt
  <2> QED
    BY <1>3, <2>1, <2>2, <2>4, <2>5, <2>6
<1>10. CASE UdpPostApi
  <2>1. npc[t] = "s_post" /\ npc'[t] = "s_result" /\ tstate'[t] = "WAIT"
    BY <1>1, <1>10, GotoFacts, TasksKnown DEF UdpPostApi, NInv, MInv, MTypeOK
  <2>2. NoApi
    BY <1>2, <2>1
  <2>3. CASE hand' = Api /\ mbox' = mbox
    BY <2>1, <2>2, <2>3 DEF ApiAt
  <2>4. CASE hand' = hand /\ mbox' = Append(mbox, Api)
    <3>1. /\ Len(mbox) \in Nat /\ DOMAIN mbox = 1 .. Len(mbox)
          /\ mbox' \in Seq(Posts) /\ Len(mbox') = Len(mbox) + 1
          /\ \A i \in 1 .. Len(mbox) : mbox'[i] = mbox[i]
      BY <1>1, <2>4, AppendProperties, LenProperties, PostFacts DEF NTyped
    <3>2. \A i \in DOMAIN mbox' : mbox'[i] = Api => i = Len(mbox) + 1
      BY <2>2, <3>1, LenProperties
    <3> QED
      BY <2>1, <2>2, <2>4, <3>2 DEF ApiAt
  <2> QED
    BY <1>10, <2>3, <2>4 DEF UdpPostApi, Queued
<1>11. CASE TcpipFetch
  <2>1. npc'[t] = npc[t] /\ npc["tcpip"] = "fetch" /\ hand = NoMsg
    BY <1>1, <1>11, TcpipApart, GotoFacts DEF Tcpip, TcpipFetch, WayInv, TcpipAt
  <2>2. tstate'[t] = "WAIT" <=> tstate[t] = "WAIT"
    BY <1>1, <1>11, WaitFacts DEF TcpipFetch, SameWaits
  <2>3. CASE mbox # <<>>
    <3>1. hand' = mbox[1] /\ mbox' = Tail(mbox)
      BY <1>11, <2>3 DEF TcpipFetch
    <3>2. /\ Len(mbox) \in Nat \ {0} /\ DOMAIN mbox = 1 .. Len(mbox)
          /\ DOMAIN mbox' = 1 .. (Len(mbox) - 1)
          /\ \A i \in 1 .. (Len(mbox) - 1) : mbox'[i] = mbox[i + 1]
      BY <1>1, <2>3, <3>1, HeadTailProperties, LenProperties, EmptySeq DEF NTyped
    <3>3. 1 \in DOMAIN mbox /\ \A i \in DOMAIN mbox' : i + 1 \in DOMAIN mbox /\ i + 1 # 1
      BY <3>2
    <3>4. hand' = Api => Asks /\ \A i \in DOMAIN mbox' : mbox'[i] # Api
      BY <1>1, <3>1, <3>2, <3>3 DEF ApiAt
    <3>5. ASSUME NEW i \in DOMAIN mbox', mbox'[i] = Api
          PROVE  Asks /\ hand' # Api /\ \A j \in DOMAIN mbox' : mbox'[j] = Api => j = i
      <4>1. Asks /\ \A j \in DOMAIN mbox : mbox[j] = Api => j = i + 1
        BY <1>1, <3>2, <3>3, <3>5 DEF ApiAt
      <4>2. \A j \in DOMAIN mbox' : mbox'[j] = Api => j + 1 = i + 1
        BY <3>2, <3>3, <4>1
      <4> QED
        BY <3>2, <3>4, <3>5, <4>1, <4>2
    <3> QED
      BY <2>1, <2>2, <3>4, <3>5 DEF ApiAt
  <2>4. CASE mbox = <<>>
    BY <1>3, <1>11, <2>1, <2>2, <2>4 DEF TcpipFetch
  <2> QED
    BY <2>3, <2>4
<1>12. CASE TcpipDone
  <2>1. npc'[t] = npc[t] /\ hand' = NoMsg /\ mbox' = mbox
    BY <1>1, <1>12, TcpipApart DEF Tcpip, TcpipDone
  <2>2. CASE hand = Api
    BY <1>1, <2>1, <2>2, PostFacts DEF ApiAt
  <2>3. CASE hand # Api
    <3>1. tstate'[t] = tstate[t]
      BY <1>1, <1>12, <2>3, HandFacts DEF TcpipDone, mvars
    <3> QED
      BY <1>1, <2>1, <3>1, PostFacts DEF ApiAt
  <2> QED
    BY <2>2, <2>3
<1>13. CASE RecvUdp
  <2>1. npc'[t] = npc[t] /\ hand' = NoMsg /\ mbox' = mbox
    BY <1>1, <1>13, TcpipApart DEF Tcpip, RecvUdp
  <2>2. CASE Waits(t, "r_got")
    BY <1>2, <2>1, <2>2, PostFacts DEF ApiAt, Waits
  <2>3. CASE ~Waits(t, "r_got")
    <3>1. tstate'[t] = tstate[t]
      BY <1>13, <2>3 DEF RecvUdp, mvars
    <3> QED
      BY <1>1, <2>1, <3>1, PostFacts DEF ApiAt
  <2> QED
    BY <2>2, <2>3
<1>14. CASE TcpipTransmit \/ TcpipSendFails \/ DM9000_SendPacket("tcpip")
  <2>1. npc'[t] = npc[t]
    BY <1>1, <1>14, TcpipApart DEF Tcpip
  <2>2. UNCHANGED <<hand, mbox>>
    BY <1>14, TransmitApart DEF TcpipTransmit, TcpipSendFails, boxes
  <2>3. tstate'[t] = "WAIT" <=> tstate[t] = "WAIT"
    BY <1>1, <1>14, TransmitApart, WaitFacts DEF TcpipTransmit, TcpipSendFails, SameWaits
  <2> QED
    BY <1>3, <2>1, <2>2, <2>3
<1> QED
  BY <1>5, <1>6, <1>7, <1>8, <1>9, <1>10, <1>11, <1>12, <1>13, <1>14, NoOther DEF Tcpip

-----------------------------------------------------------------------------
(* How numbers move along the way                                          *)

\* How a number moves from a place of the way to the next.
LEMMA ChainFacts ==
  ASSUME NEW r, NEW q, NEW h, NEW m, NEW c, NEW f, NEW n \in Nat,
         Chained(r, q, h, m, c, f, n)
  PROVE  /\ \A r1, q1, h1, m1, c1, f1 :
              /\ r1 \subseteq r /\ q1 \subseteq q /\ h1 \subseteq h
              /\ m1 \subseteq m /\ c1 \subseteq c /\ f1 \subseteq f
              => Chained(r1, q1, h1, m1, c1, f1, n)
         /\ Chained(r, q, h, m, c, f \cup {n + 1}, n + 1)
         /\ \A x, f1 : c = {} /\ f = f1 \cup {x} /\ Below({x}, f1) => Chained(r, q, h, m, {x}, f1, n)
         /\ \A x : c = {x} => Chained(r, q, h, m \cup {x}, {}, f, n)
         /\ \A x : h = {} /\ m = {} /\ c = {x} => Chained(r, q, {x}, {}, {}, f, n)
         /\ \A x, m1 : h = {} /\ m = m1 \cup {x} /\ Below({x}, m1) => Chained(r, q, {x}, m1, c, f, n)
         /\ \A x : h = {x} => Chained(r, q \cup {x}, {}, m, c, f, n)
         /\ \A x : r = {} /\ q = {} /\ h = {x} => Chained({x}, {}, {}, m, c, f, n)
         /\ \A x, q1 : r = {} /\ q = q1 \cup {x} /\ Below({x}, q1) => Chained({x}, q1, h, m, c, f, n)
<1>1. \A r1, q1, h1, m1, c1, f1 :
              /\ r1 \subseteq r /\ q1 \subseteq q /\ h1 \subseteq h
              /\ m1 \subseteq m /\ c1 \subseteq c /\ f1 \subseteq f
              => Chained(r1, q1, h1, m1, c1, f1, n)
  BY DEF Chained, Below
<1>2. Chained(r, q, h, m, c, f \cup {n + 1}, n + 1)
  BY DEF Chained, Below
<1>3. \A x, f1 : c = {} /\ f = f1 \cup {x} /\ Below({x}, f1) => Chained(r, q, h, m, {x}, f1, n)
  BY DEF Chained, Below
<1>4. \A x : c = {x} => Chained(r, q, h, m \cup {x}, {}, f, n)
  BY DEF Chained, Below
<1>5. \A x : h = {} /\ m = {} /\ c = {x} => Chained(r, q, {x}, {}, {}, f, n)
  BY DEF Chained, Below
<1>6. \A x, m1 : h = {} /\ m = m1 \cup {x} /\ Below({x}, m1) => Chained(r, q, {x}, m1, c, f, n)
  BY DEF Chained, Below
<1>7. \A x : h = {x} => Chained(r, q \cup {x}, {}, m, c, f, n)
  BY DEF Chained, Below
<1>8. \A x : r = {} /\ q = {} /\ h = {x} => Chained({x}, {}, {}, m, c, f, n)
  BY DEF Chained, Below
<1>9. \A x, q1 : r = {} /\ q = q1 \cup {x} /\ Below({x}, q1) => Chained({x}, q1, h, m, c, f, n)
  BY DEF Chained, Below
<1> QED
  BY <1>1, <1>2, <1>3, <1>4, <1>5, <1>6, <1>7, <1>8, <1>9

\* The entries of a queue that grows or shrinks by one.
LEMMA FramesInFacts ==
  ASSUME NEW S, NEW q \in Seq(S)
  PROVE  /\ \A x \in S : FramesIn(Append(q, x)) = FramesIn(q) \cup {x}
         /\ q # <<>> => FramesIn(q) = FramesIn(Tail(q)) \cup {Head(q)}
         /\ \A i \in DOMAIN q : q[i] \in S
<1>1. Len(q) \in Nat /\ DOMAIN q = 1 .. Len(q) /\ \A i \in DOMAIN q : q[i] \in S
  BY LenProperties
<1>2. ASSUME NEW x \in S PROVE FramesIn(Append(q, x)) = FramesIn(q) \cup {x}
  <2> DEFINE r == Append(q, x)
             k == Len(q)
  <2>1. DOMAIN r = 1 .. (k + 1) /\ (\A i \in 1 .. k : r[i] = q[i]) /\ r[k + 1] = x
    BY AppendProperties, LenProperties
  <2>2. \A i \in 1 .. (k + 1) : i \in 1 .. k \/ i = k + 1
    BY <1>1
  <2>3. k + 1 \in 1 .. (k + 1) /\ 1 .. k \subseteq 1 .. (k + 1)
    BY <1>1
  <2> HIDE DEF r, k
  <2>4. FramesIn(r) = {r[i] : i \in 1 .. (k + 1)} /\ FramesIn(q) = {q[i] : i \in 1 .. k}
    BY <1>1, <2>1 DEF FramesIn, k
  <2> QED
    BY <2>1, <2>2, <2>3, <2>4 DEF r
<1>3. ASSUME q # <<>> PROVE FramesIn(q) = FramesIn(Tail(q)) \cup {Head(q)}
  <2> DEFINE r == Tail(q)
             k == Len(q)
             h == Head(q)
  <2>1. k \in Nat \ {0} /\ DOMAIN r = 1 .. (k - 1) /\ (\A i \in 1 .. (k - 1) : r[i] = q[i + 1])
        /\ h = q[1]
    BY <1>3, HeadTailProperties, LenProperties, EmptySeq
  <2> HIDE DEF r, k, h
  <2>2. FramesIn(r) = {r[i] : i \in 1 .. (k - 1)} /\ FramesIn(q) = {q[i] : i \in 1 .. k}
    BY <1>1, <2>1 DEF FramesIn, k
  <2>3. ASSUME NEW i \in 1 .. k PROVE q[i] \in FramesIn(r) \cup {h}
    <3>1. CASE i # 1
      <4>1. i - 1 \in 1 .. (k - 1) /\ r[i - 1] = q[i]
        BY <2>1, <3>1
      <4> QED
        BY <2>2, <4>1
    <3> QED
      BY <2>1, <3>1
  <2>4. ASSUME NEW i \in 1 .. (k - 1) PROVE r[i] \in FramesIn(q)
    <3>1. i + 1 \in 1 .. k /\ r[i] = q[i + 1]
      BY <2>1
    <3> QED
      BY <2>2, <3>1
  <2>5. 1 \in 1 .. k
    BY <2>1
  <2> QED
    BY <2>1, <2>2, <2>3, <2>4, <2>5 DEF r, h
<1> QED
  BY <1>1, <1>2, <1>3

-----------------------------------------------------------------------------
(* What the steps do to the frames and the buffers                         *)

\* What the invariant gives every step.
LEMMA DataFacts ==
  ASSUME WayInv
  PROVE  /\ NInv /\ NTyped /\ BuffersConserved /\ InOrder
         /\ recvmbox \in Seq(Real) /\ recvbuf \in Real \cup {NoFrame}
         /\ Len(recvmbox) \in Nat /\ InpktsIn(mbox) \in Nat
         /\ NumPbuf \in Nat /\ NumInpkt \in Nat /\ NumNetbuf \in Nat /\ MboxSize \in Nat
         /\ MaxFrames \in Nat
         /\ "input" \in NetTask /\ "tcpip" \in NetTask /\ "udp" \in NetTask
<1>1. NInv /\ NTyped /\ BuffersConserved /\ InOrder
  BY DEF WayInv
<1>2. /\ NumPbuf \in Nat /\ NumInpkt \in Nat /\ NumNetbuf \in Nat /\ MboxSize \in Nat
      /\ MaxFrames \in Nat
  BY NetworkAssumption
<1>3. /\ recvmbox \in Seq(Real) /\ recvbuf \in Real \cup {NoFrame}
      /\ Len(recvmbox) \in Nat /\ InpktsIn(mbox) \in Nat
  <2>1. Orders \subseteq Real /\ recvmbox \in Seq(Orders) /\ mbox \in Seq(Posts)
        /\ recvbuf \in Orders \cup {NoFrame}
    BY <1>1, FrameFacts DEF NTyped
  <2>2. Len(recvmbox) \in Nat /\ \A i \in 1 .. Len(recvmbox) : recvmbox[i] \in Real
    BY <2>1, LenProperties
  <2> QED
    BY <2>1, <2>2, LenProperties, InpktsCounted
<1> QED
  BY <1>1, <1>2, <1>3 DEF NetTask

\* No frame gets on its way, none is delivered, and the invariant is kept.
Kept == /\ NTyped' /\ BuffersConserved' /\ InOrder'
        /\ FramesOnWay' \subseteq FramesOnWay \cup {NoFrame} /\ got' = got

\* The frames and the messages stay where they are.
LEMMA StillOrder ==
  ASSUME WayInv, UNCHANGED <<rxFifo, cur, boxes, recvbuf, got, frames>>,
         npc'["udp"] = "r_got" => npc["udp"] = "r_got"
  PROVE  InOrder' /\ FramesOnWay' \subseteq FramesOnWay \cup {NoFrame}
<1>1. InOrder /\ frames \in Nat
  BY DataFacts DEF NTyped
<1>2. /\ NumbersR' \subseteq NumbersR /\ NumbersQ' = NumbersQ /\ NumbersH' = NumbersH
      /\ NumbersM' = NumbersM /\ NumbersC' = NumbersC /\ NumbersF' = NumbersF
  BY DEF boxes, NumbersR, NumbersQ, NumbersH, NumbersM, NumbersC, NumbersF
<1>3. Chained(NumbersR, NumbersQ, NumbersH, NumbersM, NumbersC, NumbersF, frames)'
  BY <1>1, <1>2, ChainFacts DEF InOrder
<1>4. InOrder'
  BY <1>1, <1>3 DEF InOrder, boxes
<1>5. FramesOnWay' \subseteq FramesOnWay \cup {NoFrame}
  BY DEF FramesOnWay, boxes
<1> QED
  BY <1>4, <1>5

\* Nothing of the frames' way changes.
LEMMA StillKept ==
  ASSUME WayInv, UNCHANGED <<rxFifo, cur, boxes, recvbuf, sentbuf, got, pools, frames>>,
         npc'["udp"] = "r_got" => npc["udp"] = "r_got"
  PROVE  Kept
<1>1. NTyped' /\ BuffersConserved'
  BY DataFacts DEF NTyped, BuffersConserved, Pbufs, Inpkts, Netbufs, boxes, pools
<1> QED
  BY <1>1, StillOrder DEF Kept

\* The counts of what the buffers are held by.
LEMMA CountFacts ==
  ASSUME WayInv
  PROVE  /\ Is(cur # NoFrame) \in Nat /\ Is(IsInpkt(hand)) \in Nat
         /\ Is(recvbuf # NoFrame) \in Nat /\ Is(sentbuf = "held") \in Nat
         /\ InpktsIn(mbox) \in Nat /\ Len(recvmbox) \in Nat
         /\ pbufFree \in Nat /\ inpktFree \in Nat /\ netbufFree \in Nat
  BY DataFacts DEF Is, NTyped

\* The chains of pbufs on their way.
LEMMA HeldChains ==
  ASSUME WayInv
  PROVE  /\ cur.pbufs \in Nat /\ PbufsIn(FramesOf(mbox)) \in Nat /\ hand.frame.pbufs \in Nat
         /\ PbufsIn(recvmbox) \in Nat /\ recvbuf.pbufs \in Nat /\ pbufFree \in Nat
<1>1. pbufFree \in Nat
  BY CountFacts
<1>2. cur \in Real \cup {NoFrame} /\ recvbuf \in Real \cup {NoFrame}
  BY DataFacts DEF NTyped
<1>3. hand.frame \in Real \cup {NoFrame}
  BY DataFacts, PostFacts DEF NTyped, Posts
<1>4. \A f \in Real \cup {NoFrame} : f.pbufs \in Nat
  BY FrameFacts, NetworkAssumption DEF HaveChains
<1>5. PbufsIn(FramesOf(mbox)) \in Nat
  BY DataFacts, BoxedPbufs DEF NTyped
<1>6. PbufsIn(recvmbox) \in Nat
  BY DataFacts, PbufsBounded DEF NTyped
<1> QED
  BY <1>1, <1>2, <1>3, <1>4, <1>5, <1>6

\* The fields keep their types when those that change do.
LEMMA TypesKept ==
  ASSUME WayInv, UNCHANGED <<rxFifo, sentbuf, frames>>, cur' = cur \/ cur' = NoFrame,
         hand' = hand \/ hand' \in Posts \cup {NoMsg, Timer},
         mbox' = mbox \/ (mbox' \in Seq(Posts) /\ Len(mbox') <= MboxSize),
         recvmbox' = recvmbox \/ (recvmbox' \in Seq(Orders) /\ Len(recvmbox') <= MboxSize),
         recvbuf' = recvbuf \/ recvbuf' \in Orders \cup {NoFrame},
         pbufFree' \in Nat, inpktFree' \in Nat, netbufFree' \in Nat
  PROVE  NTyped'
<1>1. NTyped
  BY DataFacts
<1>2. rxFifo' \in Seq(Real) /\ sentbuf' \in {"none", "held", "freed"}
  BY <1>1 DEF NTyped
<1>3. cur' \in Real \cup {NoFrame} /\ hand' \in Posts \cup {NoMsg, Timer}
  BY <1>1 DEF NTyped
<1>4. mbox' \in Seq(Posts) /\ Len(mbox') <= MboxSize
  BY <1>1 DEF NTyped
<1>5. recvmbox' \in Seq(Orders) /\ Len(recvmbox') <= MboxSize
  BY <1>1 DEF NTyped
<1>6. recvbuf' \in Orders \cup {NoFrame}
  BY <1>1 DEF NTyped
<1>7. frames' \in Nat /\ frames' <= MaxFrames
  BY <1>1 DEF NTyped
<1> QED
  BY <1>2, <1>3, <1>4, <1>5, <1>6, <1>7 DEF NTyped

\* What is taken from the pools is counted.
LEMMA HeldTyped ==
  ASSUME WayInv
  PROVE  /\ Pbufs \in Nat /\ Inpkts \in Nat /\ Netbufs \in Nat
         /\ pbufFree \in Nat /\ inpktFree \in Nat /\ netbufFree \in Nat
<1>1. /\ Is(cur # NoFrame) \in Nat /\ Is(IsInpkt(hand)) \in Nat
      /\ Is(recvbuf # NoFrame) \in Nat /\ Is(sentbuf = "held") \in Nat
  BY DEF Is
<1>2. InpktsIn(mbox) \in Nat /\ Len(recvmbox) \in Nat
  BY CountFacts
<1> HIDE DEF Is, IsInpkt
<1>3. Inpkts \in Nat
  BY <1>1, <1>2 DEF Inpkts
<1>4. Netbufs \in Nat
  BY <1>1, <1>2 DEF Netbufs
<1>5. Pbufs \in Nat
  BY HeldChains DEF Pbufs
<1>6. pbufFree \in Nat /\ inpktFree \in Nat /\ netbufFree \in Nat
  BY CountFacts
<1> QED
  BY <1>3, <1>4, <1>5, <1>6

\* The pools and what is taken from them change by the same numbers.
LEMMA Conserved ==
  ASSUME WayInv, pbufFree' + Pbufs' = pbufFree + Pbufs,
         inpktFree' + Inpkts' = inpktFree + Inpkts,
         netbufFree' + Netbufs' = netbufFree + Netbufs
  PROVE  BuffersConserved'
<1>1. BuffersConserved
  BY DataFacts
<1> QED
  BY <1>1 DEF BuffersConserved

\* A frame arrives.
LEMMA ArriveData ==
  ASSUME WayInv, FrameArrives
  PROVE  /\ NTyped' /\ BuffersConserved' /\ InOrder' /\ got' = got
         /\ \E k \in Kinds, n \in 1 .. MaxChain :
              FramesOnWay' = FramesOnWay \cup {[kind |-> k, id |-> frames + 1, pbufs |-> n]}
<1>0. /\ MaxChain \in Nat \ {0}
      /\ \E k \in Kinds : \E n \in Chains(k) :
           rxFifo' = Append(rxFifo, [kind |-> k, id |-> frames + 1, pbufs |-> n])
  BY NetworkAssumption DEF FrameArrives
<1>1. PICK k \in Kinds, n \in 1 .. MaxChain :
        rxFifo' = Append(rxFifo, [kind |-> k, id |-> frames + 1, pbufs |-> n])
  BY <1>0 DEF Chains
<1> DEFINE f == [kind |-> k, id |-> frames + 1, pbufs |-> n]
<1>2. /\ UNCHANGED <<npc, cur, boxes, udpv, pools>>
      /\ frames < MaxFrames /\ frames' = frames + 1
  BY DEF FrameArrives, input
<1>3. f \in Real /\ f.id = frames + 1
  <2>1. frames \in Nat /\ MaxFrames \in Nat
    BY DataFacts DEF NTyped
  <2>2. frames + 1 \in 1 .. MaxFrames
    BY <1>2, <2>1
  <2>3. f = [kind |-> k, id |-> frames + 1, pbufs |-> n] /\ f.id = frames + 1
    OBVIOUS
  <2>4. \A i \in 1 .. MaxFrames : [kind |-> k, id |-> i, pbufs |-> n] \in Real
    <3>1. k \in {"order", "arp", "bad", "junk"}
      BY NetworkAssumption, Zenon
    <3> QED
      BY <3>1 DEF Real
  <2> QED
    BY <2>2, <2>3, <2>4, Zenon
<1> HIDE DEF f
<1>4. rxFifo' = Append(rxFifo, f) /\ rxFifo' \in Seq(Real)
  BY <1>1, <1>3, DataFacts, AppendProperties DEF f, NTyped
<1>5. NTyped'
  <2>1. NTyped /\ MaxFrames \in Nat
    BY DataFacts
  <2>2. frames' \in Nat /\ frames' <= MaxFrames
    BY <1>2, <2>1 DEF NTyped
  <2> QED
    BY <1>2, <1>4, <2>1, <2>2 DEF NTyped, boxes, udpv, pools
<1>6. BuffersConserved'
  <2>1. Pbufs' = Pbufs /\ Inpkts' = Inpkts /\ Netbufs' = Netbufs
    BY <1>2 DEF Pbufs, Inpkts, Netbufs, boxes, udpv
  <2> QED
    BY <1>2, <2>1, Conserved DEF pools
<1>7. /\ NumbersF' = NumbersF \cup {frames + 1}
      /\ Ascends(rxFifo, FrameId)'
  <2>1. FrameId \in [Real -> Nat] /\ FrameId[f] = frames + 1 /\ frames \in Nat
    BY <1>3, FrameFacts, DataFacts DEF NTyped
  <2>2. \A y \in Numbers(rxFifo, FrameId) : y < FrameId[f]
    BY <2>1, DataFacts DEF InOrder, Chained, NumbersF
  <2>3. Ascends(rxFifo, FrameId) /\ rxFifo \in Seq(Real)
    BY DataFacts DEF InOrder, NTyped
  <2> QED
    BY <1>3, <1>4, <2>1, <2>2, <2>3, NumbersAppend DEF NumbersF
<1>8. /\ NumbersR' = NumbersR /\ NumbersQ' = NumbersQ /\ NumbersH' = NumbersH
      /\ NumbersM' = NumbersM /\ NumbersC' = NumbersC
  BY <1>2 DEF boxes, udpv, NumbersR, NumbersQ, NumbersH, NumbersM, NumbersC
<1>9. InOrder'
  <2>1. InOrder /\ frames \in Nat
    BY DataFacts DEF NTyped
  <2>2. Chained(NumbersR, NumbersQ, NumbersH, NumbersM, NumbersC, NumbersF \cup {frames + 1},
                frames + 1)
    BY <2>1, ChainFacts DEF InOrder
  <2> QED
    BY <1>2, <1>7, <1>8, <2>1, <2>2 DEF InOrder, boxes
<1>10. FramesOnWay' = FramesOnWay \cup {f}
  <2>1. FramesIn(rxFifo') = FramesIn(rxFifo) \cup {f}
    BY <1>3, <1>4, DataFacts, FramesInFacts DEF NTyped
  <2> QED
    BY <1>2, <2>1 DEF FramesOnWay, boxes, udpv
<1> QED
  BY <1>2, <1>5, <1>6, <1>9, <1>10 DEF f, udpv

\* The frame of the receive task.
LEMMA CurFacts ==
  ASSUME WayInv
  PROVE  /\ npc["input"] \in {"check", "deliver"} => cur \in Real /\ cur # NoFrame
         /\ npc["input"] = "read" => cur = NoFrame
  BY DataFacts DEF WayInv, InputAt, NTyped

\* The chip is read.
LEMMA ReadData == ASSUME WayInv, ReadFrame PROVE Kept
<1>1. /\ rxFifo # <<>> /\ npc["input"] = "read" /\ npc'["udp"] = npc["udp"]
      /\ UNCHANGED <<boxes, udpv, inpktFree, netbufFree, frames>>
  BY DataFacts, GotoFacts DEF ReadFrame, used
<1>2. cur = NoFrame /\ rxFifo \in Seq(Real)
  BY <1>1, CurFacts, DataFacts DEF NTyped
<1> DEFINE f == Head(rxFifo)
<1>3. /\ f \in Real /\ Tail(rxFifo) \in Seq(Real)
      /\ FramesIn(rxFifo) = FramesIn(Tail(rxFifo)) \cup {f}
  BY <1>1, <1>2, HeadTailProperties, FramesInFacts
<1>4. FrameId[f] = f.id /\ f.id # 0 /\ f # NoFrame
  BY <1>3, FrameFacts
<1>5. /\ Numbers(rxFifo, FrameId) = Numbers(Tail(rxFifo), FrameId) \cup {f.id}
      /\ Ascends(Tail(rxFifo), FrameId)
      /\ Below({f.id}, Numbers(Tail(rxFifo), FrameId))
  BY <1>1, <1>2, <1>4, DataFacts, NumbersTail DEF InOrder, Below
<1> HIDE DEF f
<1>6. /\ NumbersR' = NumbersR /\ NumbersQ' = NumbersQ /\ NumbersH' = NumbersH
      /\ NumbersM' = NumbersM /\ NumbersC = {}
  BY <1>1, <1>2 DEF boxes, udpv, NumbersR, NumbersQ, NumbersH, NumbersM, NumbersC
<1>10. f.pbufs \in Nat /\ NoFrame.pbufs = 0
  BY <1>3, FrameFacts, NetworkAssumption DEF HaveChains
<1>7. CASE /\ pbufFree >= f.pbufs /\ pbufFree' = pbufFree - f.pbufs
           /\ cur' = f /\ rxFifo' = Tail(rxFifo)
  <2>1. NTyped'
    <3>1. NTyped
      BY DataFacts
    <3>2. pbufFree' \in Nat /\ inpktFree' \in Nat /\ netbufFree' \in Nat
      BY <1>1, <1>7, <1>10, <3>1 DEF NTyped
    <3>3. rxFifo' \in Seq(Real) /\ cur' \in Real \cup {NoFrame}
      BY <1>3, <1>7
    <3> QED
      BY <1>1, <3>1, <3>2, <3>3 DEF NTyped, boxes, udpv
  <2>2. BuffersConserved'
    <3>1. cur.pbufs = 0 /\ cur'.pbufs = f.pbufs
      BY <1>2, <1>7, <1>10
    <3>2. Inpkts' = Inpkts /\ Netbufs' = Netbufs
      BY <1>1 DEF Inpkts, Netbufs, boxes, udpv
    <3>3. Pbufs' = Pbufs + f.pbufs /\ Pbufs \in Int
      <4>1. Pbufs = 0 + PbufsIn(FramesOf(mbox)) + hand.frame.pbufs + PbufsIn(recvmbox)
                      + recvbuf.pbufs
        BY <3>1 DEF Pbufs
      <4>2. Pbufs' = f.pbufs + PbufsIn(FramesOf(mbox)) + hand.frame.pbufs + PbufsIn(recvmbox)
                       + recvbuf.pbufs
        BY <1>1, <3>1 DEF Pbufs, boxes, udpv
      <4> QED
        BY <1>10, <4>1, <4>2, HeldChains
    <3>4. pbufFree' + Pbufs' = pbufFree + Pbufs
      <4>1. pbufFree' = pbufFree - f.pbufs /\ f.pbufs \in Nat
        BY <1>7, <1>10
      <4> QED
        BY <3>3, <4>1, HeldTyped
    <3> QED
      BY <1>1, <1>7, <3>2, <3>4, Conserved
  <2>3. NumbersC' = {f.id} /\ NumbersF' = Numbers(Tail(rxFifo), FrameId)
    BY <1>4, <1>7 DEF NumbersC, NumbersF
  <2>4. InOrder'
    <3>1. Chained(NumbersR, NumbersQ, NumbersH, NumbersM, {f.id}, Numbers(Tail(rxFifo), FrameId),
                  frames)
      BY <1>5, <1>6, DataFacts, ChainFacts DEF InOrder, NTyped, NumbersF
    <3> QED
      BY <1>1, <1>5, <1>6, <1>7, <2>3, <3>1, DataFacts DEF InOrder, boxes
  <2>5. FramesOnWay' \subseteq FramesOnWay
    BY <1>1, <1>3, <1>7 DEF FramesOnWay, boxes, udpv
  <2> QED
    BY <1>1, <2>1, <2>2, <2>4, <2>5 DEF Kept, udpv
<1>8. CASE UNCHANGED <<pbufFree, cur>> /\ rxFifo' = Tail(rxFifo)
  <2>1. NTyped'
    BY <1>1, <1>3, <1>8, DataFacts DEF NTyped, boxes, udpv
  <2>2. BuffersConserved'
    BY <1>1, <1>8, DataFacts
       DEF BuffersConserved, Pbufs, Inpkts, Netbufs, boxes, udpv
  <2>3. NumbersC' = {} /\ NumbersF' \subseteq NumbersF
    BY <1>2, <1>5, <1>8 DEF NumbersC, NumbersF
  <2>4. InOrder'
    <3>1. Chained(NumbersR, NumbersQ, NumbersH, NumbersM, NumbersC', NumbersF', frames)
      BY <1>6, <2>3, DataFacts, ChainFacts DEF InOrder, NTyped
    <3> QED
      BY <1>1, <1>5, <1>6, <1>8, <2>3, <3>1, DataFacts DEF InOrder, boxes
  <2>5. FramesOnWay' \subseteq FramesOnWay
    BY <1>1, <1>3, <1>8 DEF FramesOnWay, boxes, udpv
  <2> QED
    BY <1>1, <2>1, <2>2, <2>4, <2>5 DEF Kept, udpv
<1>9. CASE UNCHANGED <<rxFifo, pbufFree, cur>>
  BY <1>1, <1>9, StillKept DEF udpv, pools
<1> QED
  BY <1>7, <1>8, <1>9 DEF ReadFrame, ChainFree, f

\* At most some of the numbers leave the way.
LEMMA FewerInOrder ==
  ASSUME WayInv, UNCHANGED <<recvmbox, mbox, rxFifo, frames>>,
         NumbersR' \subseteq NumbersR, NumbersH' \subseteq NumbersH, NumbersC' \subseteq NumbersC
  PROVE  InOrder'
<1>1. InOrder /\ frames \in Nat
  BY DataFacts DEF NTyped
<1>2. NumbersQ' = NumbersQ /\ NumbersM' = NumbersM /\ NumbersF' = NumbersF
  BY DEF NumbersQ, NumbersM, NumbersF
<1>3. Chained(NumbersR', NumbersQ, NumbersH', NumbersM, NumbersC', NumbersF, frames)
  BY <1>1 DEF InOrder, Chained, Below
<1>4. Chained(NumbersR, NumbersQ, NumbersH, NumbersM, NumbersC, NumbersF, frames)'
  BY <1>2, <1>3
<1> QED
  BY <1>1, <1>4 DEF InOrder

\* A frame is checked.
LEMMA CheckData == ASSUME WayInv, CheckFrame PROVE Kept
<1>1. /\ npc["input"] = "check" /\ npc'["udp"] = npc["udp"]
      /\ UNCHANGED <<rxFifo, boxes, udpv, inpktFree, netbufFree, frames>>
  BY DataFacts, GotoFacts DEF CheckFrame, used, chip
<1>2. CASE cur' = NoFrame /\ pbufFree' = pbufFree + cur.pbufs
  <2>1. NTyped'
    <3>1. pbufFree' \in Nat /\ inpktFree' \in Nat /\ netbufFree' \in Nat
      BY <1>1, <1>2, HeldChains, HeldTyped
    <3> QED
      BY <1>1, <1>2, <3>1, TypesKept DEF boxes, udpv
  <2>2. BuffersConserved'
    <3>1. cur'.pbufs = 0
      BY <1>2, FrameFacts
    <3>2. Inpkts' = Inpkts /\ Netbufs' = Netbufs
      BY <1>1 DEF Inpkts, Netbufs, boxes, udpv
    <3>3. Pbufs' = Pbufs - cur.pbufs /\ Pbufs \in Int
      BY <1>1, <3>1, HeldChains DEF Pbufs, boxes, udpv
    <3>4. pbufFree' + Pbufs' = pbufFree + Pbufs
      BY <1>2, <3>3, HeldChains, HeldTyped
    <3> QED
      BY <1>1, <3>2, <3>4, Conserved
  <2>3. InOrder'
    <3>1. NumbersR' = NumbersR /\ NumbersH' = NumbersH /\ NumbersC' = {}
      BY <1>1, <1>2 DEF boxes, udpv, NumbersR, NumbersH, NumbersC
    <3> QED
      BY <1>1, <3>1, FewerInOrder DEF boxes
  <2>4. FramesOnWay' \subseteq FramesOnWay \cup {NoFrame}
    BY <1>1, <1>2 DEF FramesOnWay, boxes, udpv
  <2> QED
    BY <1>1, <2>1, <2>2, <2>3, <2>4 DEF Kept, udpv
<1>3. CASE UNCHANGED <<cur, pbufFree>>
  BY <1>1, <1>3, StillKept DEF udpv, pools
<1> QED
  BY <1>2, <1>3 DEF CheckFrame

\* A frame is handed to tcpip_thread, queued for it or dropped.
LEMMA DeliverData == ASSUME WayInv, InputDeliver PROVE Kept
<1>1. /\ npc["input"] = "deliver" /\ npc'["udp"] = npc["udp"] /\ cur' = NoFrame
      /\ UNCHANGED <<rxFifo, recvmbox, udpv, netbufFree, frames>>
  BY DataFacts, GotoFacts DEF InputDeliver, used, chip, MboxPost, boxes
<1> DEFINE m == Inpkt(cur)
<1>2. /\ cur \in Real /\ cur # NoFrame /\ FrameId[cur] = cur.id /\ cur.id \in Nat \ {0}
      /\ m \in Packets /\ m \in Posts /\ IsInpkt(m) /\ m.frame = cur /\ PostId[m] = cur.id
      /\ m \in Posts \cup {NoMsg, Timer} /\ PostId \in [Posts -> Nat]
  BY <1>1, CurFacts, FrameFacts, PostFacts
<1>3. cur'.pbufs = 0 /\ m.frame.pbufs = cur.pbufs
  BY <1>1, <1>2, FrameFacts
<1>4. /\ NumbersR' = NumbersR /\ NumbersQ' = NumbersQ /\ NumbersF' = NumbersF
      /\ NumbersC = {cur.id} /\ NumbersC' = {}
  BY <1>1, <1>2 DEF udpv, NumbersR, NumbersQ, NumbersF, NumbersC
<1>5. Chained(NumbersR, NumbersQ, NumbersH, NumbersM, NumbersC, NumbersF, frames) /\ frames \in Nat
      /\ Ascends(recvmbox, FrameId) /\ Ascends(mbox, PostId) /\ Ascends(rxFifo, FrameId)
  BY DataFacts DEF InOrder, NTyped
<1> HIDE DEF m
<1>6. CASE /\ inpktFree > 0 /\ inpktFree' = inpktFree - 1 /\ pbufFree' = pbufFree
           /\ Waits("tcpip", "handle") /\ hand' = m /\ mbox' = mbox
  <2>1. hand = NoMsg /\ mbox = <<>> /\ ~IsInpkt(hand) /\ hand.frame = NoFrame
    BY <1>6, PostFacts DEF WayInv, TcpipAt, Waits
  <2>2. NTyped'
    <3>1. pbufFree' \in Nat /\ inpktFree' \in Nat /\ netbufFree' \in Nat
      BY <1>1, <1>6, CountFacts
    <3> QED
      BY <1>1, <1>2, <1>6, <3>1, TypesKept DEF udpv
  <2>3. BuffersConserved'
    <3>1. Is(IsInpkt(hand)) = 0 /\ Is(IsInpkt(hand))' = 1
      BY <1>2, <1>6, <2>1 DEF Is
    <3>2. Inpkts' = Inpkts + 1 /\ Netbufs' = Netbufs
      BY <1>1, <1>6, <3>1, CountFacts DEF Inpkts, Netbufs, udpv
    <3>3. Pbufs' = Pbufs
      <4>1. hand.frame.pbufs = 0 /\ hand'.frame.pbufs = cur.pbufs
        BY <1>3, <1>6, <2>1, FrameFacts
      <4> QED
        BY <1>1, <1>3, <1>6, <4>1, HeldChains DEF Pbufs, udpv
    <3>4. inpktFree' + Inpkts' = inpktFree + Inpkts
      BY <1>6, <3>2, HeldTyped
    <3> QED
      BY <1>1, <1>6, <3>2, <3>3, <3>4, Conserved
  <2>4. InOrder'
    <3>1. NumbersH = {} /\ NumbersM = {} /\ NumbersH' = {cur.id} /\ NumbersM' = {}
      BY <1>2, <1>6, <2>1, NumbersEmpty DEF NumbersH, NumbersM
    <3>2. Chained(NumbersR, NumbersQ, {cur.id}, {}, {}, NumbersF, frames)
      BY <1>4, <1>5, <3>1, ChainFacts
    <3> QED
      BY <1>1, <1>4, <1>5, <1>6, <3>1, <3>2 DEF InOrder
  <2>5. FramesOnWay' \subseteq FramesOnWay \cup {NoFrame}
    BY <1>1, <1>2, <1>6 DEF FramesOnWay, udpv
  <2> QED
    BY <1>1, <2>2, <2>3, <2>4, <2>5 DEF Kept, udpv
<1>7. CASE /\ inpktFree > 0 /\ inpktFree' = inpktFree - 1 /\ pbufFree' = pbufFree
           /\ Len(mbox) < MboxSize /\ hand' = hand /\ mbox' = Append(mbox, m)
  <2>1. /\ mbox \in Seq(Posts) /\ mbox' \in Seq(Posts) /\ Len(mbox') = Len(mbox) + 1
        /\ Len(mbox) \in Nat /\ InpktsIn(mbox') = InpktsIn(mbox) + 1
        /\ PbufsIn(FramesOf(mbox')) = PbufsIn(FramesOf(mbox)) + cur.pbufs
    BY <1>2, <1>3, <1>7, DataFacts, QueueStep DEF NTyped, Is
  <2>2. NTyped'
    <3>1. pbufFree' \in Nat /\ inpktFree' \in Nat /\ netbufFree' \in Nat
      BY <1>1, <1>7, CountFacts
    <3>2. Len(mbox') <= MboxSize
      BY <1>7, <2>1, NetworkAssumption
    <3> QED
      BY <1>1, <1>7, <2>1, <3>1, <3>2, TypesKept DEF udpv
  <2>3. BuffersConserved'
    <3>1. Inpkts' = (InpktsIn(mbox) + 1) + Is(IsInpkt(hand)) /\ Netbufs' = Netbufs
      BY <1>1, <1>7, <2>1 DEF Inpkts, Netbufs, udpv
    <3>2. Inpkts' = Inpkts + 1
      BY <3>1, CountFacts DEF Inpkts
    <3>3. Pbufs' = Pbufs
      <4>1. Pbufs' = 0 + (PbufsIn(FramesOf(mbox)) + cur.pbufs) + hand.frame.pbufs
                       + PbufsIn(recvmbox) + recvbuf.pbufs
        BY <1>1, <1>3, <1>7, <2>1 DEF Pbufs, udpv
      <4> QED
        BY <4>1, HeldChains DEF Pbufs
    <3>4. inpktFree' = inpktFree - 1 /\ pbufFree' = pbufFree /\ netbufFree' = netbufFree
      BY <1>1, <1>7
    <3>5. inpktFree' + Inpkts' = inpktFree + Inpkts
      BY <3>2, <3>4, HeldTyped
    <3> QED
      BY <3>1, <3>3, <3>4, <3>5, Conserved
  <2>4. NumbersM' = NumbersM \cup {cur.id} /\ Ascends(mbox, PostId)'
    <3>1. \A y \in Numbers(mbox, PostId) : y < PostId[m]
      BY <1>2, <1>4, <1>5 DEF Chained, Below, NumbersM
    <3> QED
      BY <1>2, <1>5, <1>7, <2>1, <3>1, NumbersAppend DEF NumbersM
  <2>5. InOrder'
    <3>1. Chained(NumbersR, NumbersQ, NumbersH, NumbersM \cup {cur.id}, {}, NumbersF, frames)
      BY <1>4, <1>5, ChainFacts
    <3>2. NumbersH' = NumbersH
      BY <1>7 DEF NumbersH
    <3> QED
      BY <1>1, <1>4, <1>5, <2>4, <3>1, <3>2 DEF InOrder
  <2>6. FramesOnWay' \subseteq FramesOnWay \cup {NoFrame}
    <3>1. FramesIn(mbox') = FramesIn(mbox) \cup {m}
      BY <1>2, <1>7, <2>1, FramesInFacts
    <3> QED
      BY <1>1, <1>2, <1>7, <3>1 DEF FramesOnWay, udpv
  <2> QED
    BY <1>1, <2>2, <2>3, <2>5, <2>6 DEF Kept, udpv
<1>8. CASE pbufFree' = pbufFree + cur.pbufs /\ inpktFree' = inpktFree /\ UNCHANGED boxes
  <2>1. NTyped'
    <3>1. pbufFree' \in Nat /\ inpktFree' \in Nat /\ netbufFree' \in Nat
      BY <1>1, <1>8, HeldChains, HeldTyped
    <3> QED
      BY <1>1, <1>8, <3>1, TypesKept DEF boxes, udpv
  <2>2. BuffersConserved'
    <3>1. Inpkts' = Inpkts /\ Netbufs' = Netbufs
      BY <1>1, <1>8 DEF Inpkts, Netbufs, boxes, udpv
    <3>2. Pbufs' = Pbufs - cur.pbufs /\ Pbufs \in Int
      BY <1>1, <1>3, <1>8, HeldChains DEF Pbufs, boxes, udpv
    <3>3. pbufFree' + Pbufs' = pbufFree + Pbufs
      BY <1>8, <3>2, HeldChains, HeldTyped
    <3> QED
      BY <1>1, <1>8, <3>1, <3>3, Conserved
  <2>3. InOrder'
    <3>1. NumbersH' = NumbersH
      BY <1>8 DEF boxes, NumbersH
    <3> QED
      BY <1>1, <1>4, <1>8, <3>1, FewerInOrder DEF boxes
  <2>4. FramesOnWay' \subseteq FramesOnWay \cup {NoFrame}
    BY <1>1, <1>8 DEF FramesOnWay, boxes, udpv
  <2> QED
    BY <1>1, <2>1, <2>2, <2>3, <2>4 DEF Kept, udpv
<1> QED
  BY <1>6, <1>7, <1>8 DEF InputDeliver, MboxTakes, MboxPost, Queued, m, boxes

\* tcpip_thread fetches a message.
LEMMA FetchData == ASSUME WayInv, TcpipFetch PROVE Kept
<1>1. /\ npc["tcpip"] = "fetch" /\ npc'["udp"] = npc["udp"]
      /\ UNCHANGED <<rxFifo, cur, recvmbox, udpv, pools, frames>>
  BY DataFacts, GotoFacts DEF TcpipFetch, used, chip, input
<1>2. hand = NoMsg /\ ~IsInpkt(hand) /\ NumbersH = {}
  BY <1>1, PostFacts DEF WayInv, TcpipAt, NumbersH
<1>3. CASE mbox = <<>>
  BY <1>1, <1>3, StillKept DEF TcpipFetch, udpv, boxes
<1>4. CASE mbox # <<>>
  <2> DEFINE m == Head(mbox)
             q == Tail(mbox)
  <2>1. hand' = m /\ mbox' = q
    BY <1>4 DEF TcpipFetch
  <2>2. /\ mbox \in Seq(Posts) /\ m \in Posts /\ q \in Seq(Posts) /\ Len(q) = Len(mbox) - 1
        /\ Len(mbox) \in Nat /\ Len(q) \in Nat
        /\ InpktsIn(mbox) = InpktsIn(q) + Is(IsInpkt(m)) /\ InpktsIn(q) \in Nat
        /\ PbufsIn(FramesOf(mbox)) = PbufsIn(FramesOf(q)) + m.frame.pbufs
        /\ FramesIn(mbox) = FramesIn(q) \cup {m}
    BY <1>4, DataFacts, FetchStep, FramesInFacts, InpktsCounted, LenProperties DEF NTyped
  <2>9. /\ PbufsIn(FramesOf(q)) \in Nat /\ m.frame.pbufs \in Nat
        /\ hand.frame.pbufs = 0
    <3>1. m.frame \in Real \cup {NoFrame} /\ hand.frame = NoFrame
      BY <1>2, <2>2, PostFacts DEF Posts
    <3> QED
      <4>1. m.frame.pbufs \in Nat
        BY <3>1, FrameFacts, NetworkAssumption DEF HaveChains
      <4>2. hand.frame.pbufs = 0
        BY <3>1, FrameFacts
      <4> QED
        BY <2>2, <4>1, <4>2, BoxedPbufs
  <2>3. /\ Numbers(mbox, PostId) = Numbers(q, PostId) \cup ({PostId[m]} \ {0})
        /\ Ascends(q, PostId)
        /\ PostId[m] # 0 => Below({PostId[m]}, Numbers(q, PostId))
    BY <1>4, <2>2, DataFacts, NumbersTail DEF InOrder, Below
  <2> HIDE DEF m, q
  <2>4. NTyped'
    BY <1>1, <2>1, <2>2, DataFacts DEF NTyped, udpv, pools
  <2>5. BuffersConserved'
    <3>1. Is(IsInpkt(hand)) = 0 /\ Is(IsInpkt(hand))' = Is(IsInpkt(m)) /\ Is(IsInpkt(m)) \in Nat
      BY <1>2, <2>1 DEF Is
    <3>2. Inpkts' = Inpkts /\ Netbufs' = Netbufs
      <4>1. InpktsIn(mbox) = InpktsIn(q) + Is(IsInpkt(m)) /\ InpktsIn(q) \in Nat
        BY <2>2
      <4> HIDE DEF Is
      <4>2. Inpkts = InpktsIn(q) + Is(IsInpkt(m)) + 0 /\ Inpkts' = InpktsIn(q) + Is(IsInpkt(m))
        BY <1>1, <2>1, <3>1, <4>1 DEF Inpkts, udpv
      <4>3. Netbufs' = Netbufs
        BY <1>1 DEF Netbufs, udpv
      <4> QED
        BY <3>1, <4>1, <4>2, <4>3
    <3>3. Pbufs' = Pbufs
      <4>1. Pbufs = cur.pbufs + (PbufsIn(FramesOf(q)) + m.frame.pbufs) + 0 + PbufsIn(recvmbox)
                      + recvbuf.pbufs
        BY <2>2, <2>9 DEF Pbufs
      <4>2. Pbufs' = cur.pbufs + PbufsIn(FramesOf(q)) + m.frame.pbufs + PbufsIn(recvmbox)
                       + recvbuf.pbufs
        BY <1>1, <2>1 DEF Pbufs, udpv
      <4> QED
        BY <2>9, <4>1, <4>2, HeldChains
    <3> QED
      BY <1>1, <3>2, <3>3, DataFacts DEF BuffersConserved, pools
  <2>6. InOrder'
    <3>1. /\ NumbersR' = NumbersR /\ NumbersQ' = NumbersQ /\ NumbersF' = NumbersF
          /\ NumbersC' = NumbersC /\ NumbersM' = Numbers(q, PostId)
      BY <1>1, <2>1 DEF udpv, NumbersR, NumbersQ, NumbersF, NumbersC, NumbersM
    <3>2. Chained(NumbersR, NumbersQ, NumbersH, NumbersM, NumbersC, NumbersF, frames)
          /\ frames \in Nat /\ Ascends(recvmbox, FrameId) /\ Ascends(rxFifo, FrameId)
      BY DataFacts DEF InOrder, NTyped
    <3>3. CASE m \in Packets
      <4>1. m.frame.id # 0 /\ PostId[m] = m.frame.id /\ NumbersH' = {m.frame.id}
        BY <2>1, <3>3, FrameFacts, PostFacts DEF NumbersH
      <4>2. Chained(NumbersR, NumbersQ, {m.frame.id}, Numbers(q, PostId), NumbersC, NumbersF, frames)
        BY <1>2, <2>3, <3>2, <4>1, ChainFacts DEF NumbersM
      <4> QED
        BY <1>1, <2>1, <2>3, <3>1, <3>2, <4>1, <4>2 DEF InOrder
    <3>4. CASE m = Api
      <4>1. NumbersH' = {} /\ NumbersM' \subseteq NumbersM
        BY <2>1, <2>3, <3>1, <3>4, PostFacts DEF NumbersH, NumbersM
      <4>2. Chained(NumbersR, NumbersQ, NumbersH', NumbersM', NumbersC, NumbersF, frames)
        BY <3>2, <4>1, ChainFacts
      <4> QED
        BY <1>1, <2>1, <2>3, <3>1, <3>2, <4>2 DEF InOrder
    <3> QED
      BY <2>2, <3>3, <3>4 DEF Posts
  <2>7. FramesOnWay' \subseteq FramesOnWay \cup {NoFrame}
    BY <1>1, <2>1, <2>2 DEF FramesOnWay, udpv
  <2> QED
    BY <1>1, <2>4, <2>5, <2>6, <2>7 DEF Kept, udpv
<1> QED
  BY <1>3, <1>4

\* What tcpip_thread holds is replaced by what is no packet.
LEMMA HandReplaced ==
  ASSUME WayInv, UNCHANGED <<rxFifo, cur, mbox, recvmbox, udpv, netbufFree, frames>>,
         npc'["udp"] = npc["udp"], hand' \in {NoMsg, Timer, Api},
         IF IsInpkt(hand)
           THEN pbufFree' = pbufFree + hand.frame.pbufs /\ inpktFree' = inpktFree + 1
           ELSE UNCHANGED <<pbufFree, inpktFree>>
  PROVE  Kept
<1>1. ~IsInpkt(hand)' /\ hand'.frame = NoFrame /\ hand' \in Posts \cup {NoMsg, Timer}
  BY PostFacts
<1>2. NTyped'
  <2>1. pbufFree' \in Nat /\ inpktFree' \in Nat /\ netbufFree' \in Nat
    BY HeldChains, HeldTyped
  <2> QED
    BY <1>1, <2>1, TypesKept DEF udpv
<1>3. BuffersConserved'
  <2>1. Is(IsInpkt(hand))' = 0
    BY <1>1 DEF Is
  <2>5. hand'.frame.pbufs = 0
    BY <1>1, FrameFacts
  <2>2. Netbufs' = Netbufs
    BY DEF Netbufs, udpv
  <2>3. CASE IsInpkt(hand)
    <3>1. Is(IsInpkt(hand)) = 1
      BY <2>3 DEF Is
    <3>2. Inpkts' = Inpkts - 1 /\ Inpkts \in Int
      BY <2>1, <3>1, CountFacts DEF Inpkts
    <3>3. Pbufs' = Pbufs - hand.frame.pbufs /\ Pbufs \in Int
      BY <2>5, HeldChains DEF Pbufs, udpv
    <3>4. /\ pbufFree' = pbufFree + hand.frame.pbufs /\ inpktFree' = inpktFree + 1
          /\ netbufFree' = netbufFree
      BY <2>3
    <3>5. pbufFree' + Pbufs' = pbufFree + Pbufs
      BY <3>3, <3>4, HeldChains, HeldTyped
    <3>6. inpktFree' + Inpkts' = inpktFree + Inpkts
      BY <3>2, <3>4, HeldTyped
    <3> QED
      BY <2>2, <3>4, <3>5, <3>6, Conserved
  <2>4. CASE ~IsInpkt(hand)
    <3>1. Is(IsInpkt(hand)) = 0
      BY <2>4 DEF Is
    <3>2. Inpkts' = Inpkts
      BY <2>1, <3>1 DEF Inpkts
    <3>3. Pbufs' = Pbufs
      <4>1. hand.frame = NoFrame
        BY <2>4, DataFacts, PostFacts DEF NTyped, Posts
      <4> QED
        BY <2>5, <4>1, FrameFacts DEF Pbufs, udpv
    <3> QED
      BY <2>2, <2>4, <3>2, <3>3, DataFacts DEF BuffersConserved
  <2> QED
    BY <2>3, <2>4
<1>4. InOrder'
  <2>1. NumbersR' = NumbersR /\ NumbersC' = NumbersC /\ NumbersH' = {}
    BY <1>1 DEF NumbersR, NumbersC, NumbersH, udpv
  <2> QED
    BY <2>1, FewerInOrder
<1>5. FramesOnWay' \subseteq FramesOnWay \cup {NoFrame}
  BY <1>1 DEF FramesOnWay, udpv
<1> QED
  BY <1>2, <1>3, <1>4, <1>5 DEF Kept, udpv

\* A timer of tcpip_thread.
LEMMA TimeoutData == ASSUME WayInv, TcpipTimeout PROVE Kept
<1>1. hand = NoMsg /\ ~IsInpkt(hand)
  BY PostFacts DEF TcpipTimeout, Waits, WayInv, TcpipAt
<1>2. /\ UNCHANGED <<rxFifo, cur, mbox, recvmbox, udpv, pools, frames>>
      /\ npc' = npc /\ hand' = Timer
  BY DEF TcpipTimeout, chip, input
<1> QED
  BY <1>1, <1>2, HandReplaced DEF pools

\* tcpip_thread ends a request and frees a packet.
LEMMA DoneData == ASSUME WayInv, TcpipDone PROVE Kept
<1>1. /\ UNCHANGED <<rxFifo, cur, mbox, recvmbox, udpv, netbufFree, frames>>
      /\ npc'["udp"] = npc["udp"] /\ hand' = NoMsg
  BY DataFacts, GotoFacts DEF TcpipDone, chip, input, used
<1>2. IF IsInpkt(hand)
        THEN pbufFree' = pbufFree + hand.frame.pbufs /\ inpktFree' = inpktFree + 1
        ELSE UNCHANGED <<pbufFree, inpktFree>>
  BY DEF TcpipDone, IsInpkt
<1> QED
  BY <1>1, <1>2, HandReplaced

\* A datagram is handed to udp_thread, queued for it or dropped.
LEMMA RecvData == ASSUME WayInv, RecvUdp PROVE Kept
<1> DEFINE f == hand.frame
<1>1. /\ npc'["udp"] = npc["udp"] /\ hand' = NoMsg /\ inpktFree' = inpktFree + 1
      /\ UNCHANGED <<rxFifo, cur, mbox, sentbuf, got, frames>>
  BY DataFacts, GotoFacts DEF RecvUdp, used, chip, input
<1>2. /\ IsInpkt(hand) /\ f \in Real /\ f \in Orders /\ f # NoFrame
      /\ FrameId[f] = f.id /\ f.id \in Nat \ {0} /\ FrameId \in [Real -> Nat]
  <2>1. hand.type = "INPKT" /\ f \in Real /\ f \in Orders /\ IsInpkt(hand)
    BY HandFacts, FrameFacts DEF RecvUdp
  <2> QED
    BY <2>1, FrameFacts
<1>11. hand.frame.pbufs = f.pbufs /\ hand'.frame.pbufs = 0
  BY <1>1, PostFacts, FrameFacts
<1>3. /\ ~IsInpkt(hand)' /\ hand'.frame = NoFrame /\ hand' \in Posts \cup {NoMsg, Timer}
      /\ Is(IsInpkt(hand)) = 1 /\ Is(IsInpkt(hand))' = 0
  BY <1>1, <1>2, PostFacts DEF Is
<1>4. /\ NumbersM' = NumbersM /\ NumbersC' = NumbersC /\ NumbersF' = NumbersF
      /\ NumbersH = {f.id} /\ NumbersH' = {}
  BY <1>1, <1>2, <1>3 DEF NumbersM, NumbersC, NumbersF, NumbersH
<1>5. Chained(NumbersR, NumbersQ, NumbersH, NumbersM, NumbersC, NumbersF, frames) /\ frames \in Nat
      /\ Ascends(recvmbox, FrameId) /\ Ascends(mbox, PostId) /\ Ascends(rxFifo, FrameId)
  BY DataFacts DEF InOrder, NTyped
<1>6. Inpkts' = Inpkts - 1 /\ Inpkts \in Int
  BY <1>1, <1>3, CountFacts DEF Inpkts
<1>7. inpktFree' + Inpkts' = inpktFree + Inpkts
  BY <1>1, <1>6, CountFacts
<1> HIDE DEF f
<1>8. CASE /\ netbufFree > 0 /\ netbufFree' = netbufFree - 1 /\ pbufFree' = pbufFree
           /\ Waits("udp", "r_got") /\ recvbuf' = f /\ recvmbox' = recvmbox
  <2>1. recvbuf = NoFrame /\ recvmbox = <<>> /\ npc["udp"] = "r_got"
    BY <1>8 DEF WayInv, UdpAt, Waits
  <2>2. NTyped'
    <3>1. pbufFree' \in Nat /\ inpktFree' \in Nat /\ netbufFree' \in Nat
      BY <1>1, <1>8, CountFacts
    <3> QED
      BY <1>1, <1>2, <1>3, <1>8, <3>1, TypesKept
  <2>3. BuffersConserved'
    <3>1. Is(recvbuf # NoFrame) = 0 /\ Is(recvbuf # NoFrame)' = 1
      BY <1>2, <1>8, <2>1 DEF Is
    <3>2. Netbufs' = Netbufs + 1 /\ Netbufs \in Int
      BY <1>1, <1>8, <3>1, CountFacts DEF Netbufs
    <3>3. Pbufs' = Pbufs
      <4>1. recvbuf.pbufs = 0 /\ recvbuf'.pbufs = f.pbufs
        BY <1>8, <2>1, FrameFacts
      <4> QED
        BY <1>1, <1>8, <1>11, <4>1, HeldChains DEF Pbufs
    <3>4. netbufFree' + Netbufs' = netbufFree + Netbufs
      BY <1>8, <3>2, CountFacts
    <3> QED
      BY <1>8, <1>7, <3>3, <3>4, Conserved
  <2>4. InOrder'
    <3>1. NumbersR = {} /\ NumbersQ = {} /\ NumbersR' = {f.id} /\ NumbersQ' = {}
      BY <1>1, <1>2, <1>8, <2>1, NumbersEmpty DEF NumbersR, NumbersQ
    <3>2. Chained({f.id}, {}, {}, NumbersM, NumbersC, NumbersF, frames)
      BY <1>4, <1>5, <3>1, ChainFacts
    <3> QED
      BY <1>1, <1>4, <1>5, <1>8, <3>1, <3>2 DEF InOrder
  <2>5. FramesOnWay' \subseteq FramesOnWay \cup {NoFrame}
    BY <1>1, <1>3, <1>8 DEF FramesOnWay, f
  <2> QED
    BY <1>1, <2>2, <2>3, <2>4, <2>5 DEF Kept
<1>9. CASE /\ netbufFree > 0 /\ netbufFree' = netbufFree - 1 /\ pbufFree' = pbufFree
           /\ Len(recvmbox) < MboxSize /\ recvmbox' = Append(recvmbox, f) /\ recvbuf' = recvbuf
  <2>1. /\ recvmbox \in Seq(Orders) /\ recvmbox' \in Seq(Orders)
        /\ Len(recvmbox') = Len(recvmbox) + 1 /\ Len(recvmbox) \in Nat
    BY <1>2, <1>9, DataFacts, AppendProperties DEF NTyped
  <2>9. PbufsIn(recvmbox') = PbufsIn(recvmbox) + f.pbufs
    BY <1>2, <1>9, <2>1, FrameFacts, PbufsAppend
  <2>8. /\ netbufFree > 0 /\ netbufFree' = netbufFree - 1 /\ pbufFree' = pbufFree
        /\ Len(recvmbox) < MboxSize /\ recvbuf' = recvbuf
    BY <1>9
  <2>2. NTyped'
    <3>1. pbufFree' \in Nat /\ inpktFree' \in Nat /\ netbufFree' \in Nat
      BY <1>1, <2>8, CountFacts
    <3>2. Len(recvmbox') <= MboxSize
      BY <2>1, <2>8, NetworkAssumption
    <3> QED
      BY <1>1, <1>3, <2>1, <2>8, <3>1, <3>2, TypesKept
  <2>3. BuffersConserved'
    <3>1. Netbufs' = Netbufs + 1 /\ Netbufs \in Int
      <4>1. Netbufs' = (Len(recvmbox) + 1) + Is(recvbuf # NoFrame) + Is(sentbuf = "held")
        BY <1>1, <2>1, <2>8 DEF Netbufs
      <4>2. Netbufs = Len(recvmbox) + Is(recvbuf # NoFrame) + Is(sentbuf = "held")
        BY DEF Netbufs
      <4>3. Netbufs \in Nat
        BY HeldTyped
      <4>4. /\ Len(recvmbox) \in Nat /\ Is(recvbuf # NoFrame) \in Nat
            /\ Is(sentbuf = "held") \in Nat
        BY CountFacts
      <4> QED
        BY <4>1, <4>2, <4>3, <4>4
    <3>2. Pbufs' = Pbufs
      <4>1. Pbufs' = cur.pbufs + PbufsIn(FramesOf(mbox)) + 0 + (PbufsIn(recvmbox) + f.pbufs)
                       + recvbuf.pbufs
        BY <1>1, <1>11, <2>8, <2>9 DEF Pbufs
      <4>2. Pbufs = cur.pbufs + PbufsIn(FramesOf(mbox)) + f.pbufs + PbufsIn(recvmbox)
                      + recvbuf.pbufs
        BY <1>11 DEF Pbufs
      <4>3. f.pbufs \in Nat
        BY <1>11, HeldChains
      <4> QED
        BY <4>1, <4>2, <4>3, HeldChains
    <3>3. netbufFree' + Netbufs' = netbufFree + Netbufs
      BY <2>8, <3>1, CountFacts
    <3> QED
      BY <1>7, <2>8, <3>2, <3>3, Conserved
  <2>4. NumbersQ' = NumbersQ \cup {f.id} /\ Ascends(recvmbox, FrameId)'
    <3>1. \A y \in Numbers(recvmbox, FrameId) : y < FrameId[f]
      BY <1>2, <1>4, <1>5 DEF Chained, Below, NumbersQ
    <3>2. recvmbox \in Seq(Real)
      BY DataFacts
    <3> QED
      BY <1>2, <1>5, <1>9, <3>1, <3>2, NumbersAppend DEF NumbersQ
  <2>5. InOrder'
    <3>1. Chained(NumbersR, NumbersQ \cup {f.id}, {}, NumbersM, NumbersC, NumbersF, frames)
      BY <1>4, <1>5, ChainFacts
    <3>2. NumbersR' = NumbersR
      BY <1>1, <1>9 DEF NumbersR
    <3> QED
      BY <1>1, <1>4, <1>5, <2>4, <3>1, <3>2 DEF InOrder
  <2>6. FramesOnWay' \subseteq FramesOnWay \cup {NoFrame}
    <3>1. FramesIn(recvmbox') = FramesIn(recvmbox) \cup {f}
      BY <1>2, <1>9, <2>1, FramesInFacts
    <3> QED
      BY <1>1, <1>3, <1>9, <3>1 DEF FramesOnWay, f
  <2> QED
    BY <1>1, <2>2, <2>3, <2>5, <2>6 DEF Kept
<1>10. CASE pbufFree' = pbufFree + hand.frame.pbufs /\ UNCHANGED <<recvbuf, recvmbox, netbufFree>>
  <2>1. NTyped'
    <3>1. pbufFree' \in Nat /\ inpktFree' \in Nat /\ netbufFree' \in Nat
      BY <1>1, <1>10, HeldChains, HeldTyped
    <3> QED
      BY <1>1, <1>3, <1>10, <3>1, TypesKept
  <2>2. BuffersConserved'
    <3>1. Netbufs' = Netbufs
      BY <1>1, <1>10 DEF Netbufs
    <3>2. Pbufs' = Pbufs - hand.frame.pbufs /\ Pbufs \in Int
      BY <1>1, <1>10, <1>11, HeldChains DEF Pbufs
    <3>3. pbufFree' + Pbufs' = pbufFree + Pbufs
      BY <1>10, <3>2, HeldChains, HeldTyped
    <3> QED
      BY <1>10, <1>7, <3>1, <3>3, Conserved
  <2>3. InOrder'
    <3>1. NumbersR' = NumbersR
      BY <1>1, <1>10 DEF NumbersR
    <3> QED
      BY <1>1, <1>4, <1>10, <3>1, FewerInOrder
  <2>4. FramesOnWay' \subseteq FramesOnWay \cup {NoFrame}
    BY <1>1, <1>3, <1>10 DEF FramesOnWay
  <2> QED
    BY <1>1, <2>1, <2>2, <2>3, <2>4 DEF Kept
<1> QED
  BY <1>8, <1>9, <1>10 DEF RecvUdp, Queued, f

\* udp_thread takes a netbuf to send, or gives it back.
LEMMA SendKept ==
  ASSUME WayInv,
         UNCHANGED <<rxFifo, cur, boxes, recvbuf, got, pbufFree, inpktFree, frames>>,
         npc'["udp"] = "r_got" => npc["udp"] = "r_got",
         sentbuf' \in {"none", "held", "freed"}, netbufFree' \in Nat,
         netbufFree' + Netbufs' = netbufFree + Netbufs
  PROVE  Kept
<1>1. NTyped'
  BY DataFacts DEF NTyped, boxes
<1>2. Pbufs' = Pbufs /\ Inpkts' = Inpkts
  BY DEF Pbufs, Inpkts, boxes
<1>3. BuffersConserved'
  BY <1>2, DataFacts DEF BuffersConserved
<1> QED
  BY <1>1, <1>3, StillOrder DEF Kept

\* udp_thread takes a netbuf to send, and gives it back.
LEMMA UdpSendData ==
  ASSUME WayInv, UdpNewBuf \/ UdpResult \/ UdpDelete
  PROVE  Kept
<1>1. UNCHANGED <<rxFifo, cur, boxes, recvbuf, got, pbufFree, inpktFree, frames>>
  BY DEF UdpNewBuf, UdpResult, UdpDelete, chip, input, used
<1>2. /\ npc'["udp"] = "r_got" => npc["udp"] = "r_got"
      /\ UdpNewBuf => npc["udp"] = "loop"
      /\ UdpResult => npc["udp"] = "s_result"
  BY DataFacts, GotoFacts DEF UdpNewBuf, UdpResult, UdpDelete
<1>3. netbufFree \in Nat /\ sentbuf \in {"none", "held", "freed"}
  BY DataFacts DEF NTyped
<1> DEFINE a == Len(recvmbox) + Is(recvbuf # NoFrame)
<1>10. a \in Nat /\ Netbufs = a + Is(sentbuf = "held") /\ Netbufs' = a + Is(sentbuf = "held")'
  <2>1. recvmbox' = recvmbox /\ Is(recvbuf # NoFrame)' = Is(recvbuf # NoFrame)
    BY <1>1 DEF boxes
  <2> QED
    BY <2>1, CountFacts DEF Netbufs
<1> HIDE DEF a
<1>4. CASE UNCHANGED <<sentbuf, netbufFree>>
  BY <1>1, <1>2, <1>4, StillKept DEF pools
<1>5. CASE /\ sentbuf # "held"
           /\ IF netbufFree > 0 THEN netbufFree' = netbufFree - 1 /\ sentbuf' = "held"
                                ELSE sentbuf' = "none" /\ netbufFree' = netbufFree
  <2>1. Netbufs = a /\ Netbufs' = a + IF netbufFree > 0 THEN 1 ELSE 0
    BY <1>3, <1>5, <1>10 DEF Is
  <2>2. /\ sentbuf' \in {"none", "held", "freed"} /\ netbufFree' \in Nat
        /\ netbufFree' + Netbufs' = netbufFree + Netbufs
    BY <1>3, <1>5, <1>10, <2>1
  <2> QED
    BY <1>1, <1>2, <2>2, SendKept
<1>6. CASE sentbuf = "held" /\ sentbuf' \in {"none", "freed"} /\ netbufFree' = netbufFree + 1
  <2>1. Netbufs = a + 1 /\ Netbufs' = a
    BY <1>6, <1>10 DEF Is
  <2>2. /\ sentbuf' \in {"none", "held", "freed"} /\ netbufFree' \in Nat
        /\ netbufFree' + Netbufs' = netbufFree + Netbufs
    BY <1>3, <1>6, <1>10, <2>1
  <2> QED
    BY <1>1, <1>2, <2>2, SendKept
<1>7. CASE UdpNewBuf
  <2>1. sentbuf # "held"
    BY <1>2, <1>7 DEF WayInv, UdpAt
  <2> QED
    BY <1>5, <1>7, <2>1 DEF UdpNewBuf
<1>8. CASE UdpResult
  <2>1. sentbuf = "held"
    BY <1>2, <1>8 DEF WayInv, UdpAt
  <2> QED
    BY <1>4, <1>6, <1>8, <2>1 DEF UdpResult
<1>9. CASE UdpDelete
  BY <1>4, <1>6, <1>9 DEF UdpDelete
<1> QED
  BY <1>7, <1>8, <1>9

\* The request of udp_thread is no frame.
LEMMA PostApiData == ASSUME WayInv, UdpPostApi PROVE Kept
<1>1. /\ npc["udp"] = "s_post" /\ npc'["udp"] = "s_result"
      /\ UNCHANGED <<rxFifo, cur, recvmbox, udpv, pools, frames>>
  BY DataFacts, GotoFacts DEF UdpPostApi, chip, input, used
<1>2. /\ Api \in Posts /\ ~IsInpkt(Api) /\ Api.frame = NoFrame /\ PostId[Api] = 0
      /\ PostId \in [Posts -> Nat]
  BY PostFacts
<1>3. /\ NumbersR' = {} /\ NumbersR = {} /\ NumbersC' = NumbersC
  BY <1>1 DEF udpv, NumbersR, NumbersC
<1>4. CASE Waits("tcpip", "handle") /\ hand' = Api /\ mbox' = mbox
  <2>1. hand = NoMsg /\ ~IsInpkt(hand)
    BY <1>4, PostFacts DEF WayInv, TcpipAt, Waits
  <2>2. NTyped'
    BY <1>1, <1>2, <1>4, DataFacts DEF NTyped, udpv, pools
  <2>3. BuffersConserved'
    <3>1. Is(IsInpkt(hand)) = 0 /\ Is(IsInpkt(hand))' = 0 /\ hand'.frame = hand.frame
      BY <1>2, <1>4, <2>1, PostFacts DEF Is
    <3> QED
      BY <1>1, <1>4, <3>1, DataFacts DEF BuffersConserved, Pbufs, Inpkts, Netbufs, udpv, pools
  <2>4. InOrder'
    <3>1. NumbersH' = {}
      BY <1>2, <1>4 DEF NumbersH
    <3> QED
      BY <1>1, <1>3, <1>4, <3>1, FewerInOrder
  <2>5. FramesOnWay' \subseteq FramesOnWay \cup {NoFrame}
    BY <1>1, <1>2, <1>4 DEF FramesOnWay, udpv
  <2> QED
    BY <1>1, <2>2, <2>3, <2>4, <2>5 DEF Kept, udpv
<1>5. CASE Len(mbox) < MboxSize /\ hand' = hand /\ mbox' = Append(mbox, Api)
  <2>1. /\ mbox \in Seq(Posts) /\ mbox' \in Seq(Posts) /\ Len(mbox') = Len(mbox) + 1
        /\ Len(mbox) \in Nat /\ InpktsIn(mbox') = InpktsIn(mbox)
        /\ PbufsIn(FramesOf(mbox')) = PbufsIn(FramesOf(mbox))
    <3>1. mbox \in Seq(Posts) /\ PbufsIn(FramesOf(mbox)) \in Nat /\ Api.frame.pbufs = 0
      BY <1>2, DataFacts, HeldChains, FrameFacts DEF NTyped
    <3>2. InpktsIn(mbox) \in Nat /\ Is(IsInpkt(Api)) = 0
      BY <1>2, CountFacts DEF Is
    <3> QED
      BY <1>2, <1>5, <3>1, <3>2, QueueStep
  <2>2. NTyped'
    BY <1>1, <1>5, <2>1, DataFacts DEF NTyped, udpv, pools
  <2>3. BuffersConserved'
    BY <1>1, <1>5, <2>1, DataFacts DEF BuffersConserved, Pbufs, Inpkts, Netbufs, udpv, pools
  <2>4. NumbersM' = NumbersM /\ Ascends(mbox, PostId)'
    <3>1. Ascends(mbox, PostId)
      BY DataFacts DEF InOrder
    <3>2. mbox \in Seq(Posts) /\ mbox' = Append(mbox, Api)
      BY <1>5, <2>1
    <3>3. /\ Numbers(Append(mbox, Api), PostId) = Numbers(mbox, PostId) \cup ({0} \ {0})
          /\ Ascends(Append(mbox, Api), PostId)
      BY <1>2, <3>1, <3>2, NumbersAppend
    <3> QED
      BY <3>2, <3>3 DEF NumbersM
  <2>5. InOrder'
    <3>1. NumbersQ' = NumbersQ /\ NumbersF' = NumbersF /\ NumbersH' = NumbersH /\ NumbersR' = NumbersR
      BY <1>1, <1>3, <1>5 DEF NumbersQ, NumbersF, NumbersH
    <3> QED
      BY <1>1, <1>3, <2>4, <3>1, DataFacts DEF InOrder
  <2>6. FramesOnWay' \subseteq FramesOnWay \cup {NoFrame}
    <3>1. FramesIn(mbox') = FramesIn(mbox) \cup {Api}
      BY <1>2, <1>5, <2>1, FramesInFacts
    <3> QED
      BY <1>1, <1>2, <1>5, <3>1 DEF FramesOnWay, udpv
  <2> QED
    BY <1>1, <2>2, <2>3, <2>5, <2>6 DEF Kept, udpv
<1> QED
  BY <1>4, <1>5 DEF UdpPostApi, MboxTakes, Queued

\* udp_thread fetches a datagram.
LEMMA UdpFetchData == ASSUME WayInv, UdpFetch PROVE Kept
<1>1. /\ npc["udp"] = "r_fetch" /\ npc'["udp"] = "r_got"
      /\ UNCHANGED <<rxFifo, cur, mbox, hand, sentbuf, got, pools, frames>>
  BY DataFacts, GotoFacts DEF UdpFetch, chip, input, used
<1>2. recvbuf = NoFrame /\ NumbersR = {}
  BY <1>1 DEF WayInv, UdpAt, NumbersR
<1>3. /\ NumbersM' = NumbersM /\ NumbersC' = NumbersC /\ NumbersF' = NumbersF /\ NumbersH' = NumbersH
  BY <1>1 DEF NumbersM, NumbersC, NumbersF, NumbersH
<1>4. Chained(NumbersR, NumbersQ, NumbersH, NumbersM, NumbersC, NumbersF, frames) /\ frames \in Nat
      /\ Ascends(recvmbox, FrameId) /\ Ascends(mbox, PostId) /\ Ascends(rxFifo, FrameId)
  BY DataFacts DEF InOrder, NTyped
<1>5. CASE recvmbox = <<>>
  <2>1. UNCHANGED <<recvbuf, recvmbox>>
    BY <1>5 DEF UdpFetch
  <2>2. NTyped' /\ BuffersConserved'
    BY <1>1, <2>1, DataFacts DEF NTyped, BuffersConserved, Pbufs, Inpkts, Netbufs, pools
  <2>3. InOrder'
    <3>1. NumbersR' = {}
      BY <1>2, <2>1 DEF NumbersR
    <3> QED
      BY <1>1, <1>3, <2>1, <3>1, FewerInOrder
  <2>4. FramesOnWay' \subseteq FramesOnWay \cup {NoFrame}
    BY <1>1, <1>2, <2>1 DEF FramesOnWay
  <2> QED
    BY <1>1, <2>2, <2>3, <2>4 DEF Kept
<1>6. CASE recvmbox # <<>>
  <2> DEFINE f == Head(recvmbox)
             q == Tail(recvmbox)
  <2>1. recvbuf' = f /\ recvmbox' = q
    BY <1>6 DEF UdpFetch
  <2>2. /\ recvmbox \in Seq(Orders) /\ f \in Orders /\ q \in Seq(Orders)
        /\ Len(q) = Len(recvmbox) - 1 /\ Len(recvmbox) \in Nat /\ Len(q) \in Nat
        /\ FramesIn(recvmbox) = FramesIn(q) \cup {f}
    BY <1>6, DataFacts, HeadTailProperties, FramesInFacts, LenProperties DEF NTyped
  <2>9. /\ PbufsIn(recvmbox) = PbufsIn(q) + f.pbufs /\ PbufsIn(q) \in Nat
        /\ f.pbufs \in Nat /\ recvbuf.pbufs = 0
    <3>1. PbufsIn(recvmbox) = PbufsIn(q) + f.pbufs
      BY <1>6, <2>2, FrameFacts, PbufsTail DEF q, f
    <3>2. PbufsIn(q) \in Nat
      BY <2>2, PbufsBounded
    <3>3. f.pbufs \in Nat /\ recvbuf.pbufs = 0
      BY <1>2, <2>2, FrameFacts, NetworkAssumption DEF HaveChains
    <3> QED
      BY <3>1, <3>2, <3>3
  <2>3. FrameId[f] = f.id /\ f.id # 0 /\ f # NoFrame
    BY <2>2, FrameFacts
  <2>4. /\ Numbers(recvmbox, FrameId) = Numbers(q, FrameId) \cup {f.id}
        /\ Ascends(q, FrameId)
        /\ Below({f.id}, Numbers(q, FrameId))
    BY <1>4, <1>6, <2>2, <2>3, NumbersTail DEF Below
  <2> HIDE DEF f, q
  <2>5. NTyped'
    BY <1>1, <2>1, <2>2, DataFacts DEF NTyped, pools
  <2>6. BuffersConserved'
    <3>1. Is(recvbuf # NoFrame) = 0 /\ Is(recvbuf # NoFrame)' = 1
      BY <1>2, <2>1, <2>3 DEF Is
    <3>2. Inpkts' = Inpkts /\ Netbufs' = Netbufs
      BY <1>1, <2>1, <2>2, <3>1, CountFacts DEF Inpkts, Netbufs
    <3>3. Pbufs' = Pbufs
      BY <1>1, <2>1, <2>9, HeldChains DEF Pbufs
    <3> QED
      BY <1>1, <3>2, <3>3, DataFacts DEF BuffersConserved, pools
  <2>7. InOrder'
    <3>1. NumbersR' = {f.id} /\ NumbersQ' = Numbers(q, FrameId)
      BY <1>1, <2>1, <2>3 DEF NumbersR, NumbersQ
    <3>2. Chained({f.id}, Numbers(q, FrameId), NumbersH, NumbersM, NumbersC, NumbersF, frames)
      BY <1>2, <1>4, <2>4, ChainFacts DEF NumbersQ
    <3> QED
      BY <1>1, <1>3, <1>4, <2>1, <2>4, <3>1, <3>2 DEF InOrder
  <2>8. FramesOnWay' \subseteq FramesOnWay \cup {NoFrame}
    BY <1>1, <2>1, <2>2 DEF FramesOnWay
  <2> QED
    BY <1>1, <2>5, <2>6, <2>7, <2>8 DEF Kept
<1> QED
  BY <1>5, <1>6

\* udp_thread deletes the netbuf it received.
LEMMA DeleteReceivedData == ASSUME WayInv, UdpDeleteReceived PROVE Kept
<1>1. /\ npc["udp"] = "r_delete" /\ npc'["udp"] = "loop" /\ recvbuf' = NoFrame
      /\ pbufFree' = pbufFree + recvbuf.pbufs /\ netbufFree' = netbufFree + 1
      /\ UNCHANGED <<rxFifo, cur, boxes, sentbuf, got, inpktFree, frames>>
  BY DataFacts, GotoFacts DEF UdpDeleteReceived, chip, input, used
<1>2. recvbuf # NoFrame
  BY <1>1 DEF WayInv, UdpAt
<1>3. NTyped'
  <2>1. pbufFree' \in Nat /\ inpktFree' \in Nat /\ netbufFree' \in Nat
    BY <1>1, HeldChains, HeldTyped
  <2> QED
    BY <1>1, <2>1, TypesKept DEF boxes
<1>4. BuffersConserved'
  <2>1. Is(recvbuf # NoFrame) = 1 /\ Is(recvbuf # NoFrame)' = 0
    BY <1>1, <1>2 DEF Is
  <2>2. Inpkts' = Inpkts
    BY <1>1 DEF Inpkts, boxes
  <2>3. Netbufs' = Netbufs - 1 /\ Netbufs \in Int
    <3>1. Netbufs' = Len(recvmbox) + 0 + Is(sentbuf = "held")
      BY <1>1, <2>1 DEF Netbufs, boxes
    <3>2. Netbufs = Len(recvmbox) + 1 + Is(sentbuf = "held")
      BY <2>1 DEF Netbufs
    <3>3. Len(recvmbox) \in Nat /\ Is(sentbuf = "held") \in Nat
      BY CountFacts
    <3> HIDE DEF Is
    <3> QED
      BY <3>1, <3>2, <3>3
  <2>4. Pbufs' = Pbufs - recvbuf.pbufs /\ Pbufs \in Int
    BY <1>1, FrameFacts, HeldChains DEF Pbufs, boxes
  <2>5. pbufFree' + Pbufs' = pbufFree + Pbufs
    BY <1>1, <2>4, HeldChains, HeldTyped
  <2>6. netbufFree' + Netbufs' = netbufFree + Netbufs
    BY <1>1, <2>3, HeldTyped
  <2> QED
    BY <1>1, <2>2, <2>5, <2>6, Conserved
<1>5. InOrder'
  <2>1. NumbersR' = {} /\ NumbersH' = NumbersH /\ NumbersC' = NumbersC
    BY <1>1 DEF NumbersR, NumbersH, NumbersC, boxes
  <2> QED
    BY <1>1, <2>1, FewerInOrder DEF boxes
<1>6. FramesOnWay' \subseteq FramesOnWay \cup {NoFrame}
  BY <1>1 DEF FramesOnWay, boxes
<1> QED
  BY <1>1, <1>3, <1>4, <1>5, <1>6 DEF Kept

\* The text of a datagram is copied.
LEMMA CopyData ==
  ASSUME WayInv, UdpCopy
  PROVE  /\ NTyped' /\ BuffersConserved' /\ InOrder'
         /\ npc["udp"] = "r_got" /\ npc'["udp"] = "r_delete" /\ recvbuf \in Orders
         /\ UNCHANGED <<rxFifo, cur, boxes, recvbuf>> /\ got' = Append(got, recvbuf.id)
<1>1. /\ npc["udp"] = "r_got" /\ npc'["udp"] = "r_delete" /\ tstate["udp"] = "RDY"
      /\ UNCHANGED <<rxFifo, cur, boxes, recvbuf, sentbuf, pools, frames>>
      /\ got' = Append(got, recvbuf.id)
  BY DataFacts, GotoFacts DEF UdpCopy, chip, input, used, Step, Runs
<1>2. recvbuf \in Orders
  BY <1>1, DataFacts DEF WayInv, UdpAt, NTyped
<1>3. NTyped' /\ BuffersConserved'
  BY <1>1, DataFacts DEF NTyped, BuffersConserved, Pbufs, Inpkts, Netbufs, boxes, pools
<1>4. InOrder'
  <2>1. /\ NumbersR' = {} /\ NumbersQ' = NumbersQ /\ NumbersH' = NumbersH
        /\ NumbersM' = NumbersM /\ NumbersC' = NumbersC /\ NumbersF' = NumbersF
    BY <1>1 DEF boxes, NumbersR, NumbersQ, NumbersH, NumbersM, NumbersC, NumbersF
  <2> QED
    BY <1>1, <2>1, FewerInOrder DEF boxes
<1> QED
  BY <1>1, <1>2, <1>3, <1>4

\* Every step but the first and the last of a frame's way keeps the frames.
LEMMA KeptStep == ASSUME WayInv, [NNext]_nvars PROVE FrameArrives \/ UdpCopy \/ Kept
<1>1. CASE TransmissionEnds \/ DMA9000_ISRHandler \/ UNCHANGED nvars
  <2>1. npc' = npc /\ UNCHANGED <<cur, boxes, udpv, pools>>
    BY <1>1, ChipApart
  <2>2. UNCHANGED <<rxFifo, frames>>
    BY <1>1 DEF TransmissionEnds, DMA9000_ISRHandler, nvars, chip, used
  <2> QED
    BY <2>1, <2>2, StillKept DEF udpv
<1>2. CASE Dhcp \/ DhcpStart
  <2>1. npc'["udp"] = npc["udp"] /\ UNCHANGED <<rxFifo, input, boxes, udpv, pools, frames>>
    BY <1>2, DhcpApart DEF NetTask
  <2> QED
    BY <2>1, StillKept DEF udpv, input
<1>3. CASE Input
  <2>1. CASE InputSem \/ InputLock \/ ReadJunk \/ ReadNothing \/ Rearm \/ InputUnlock
    <3>1. npc'["udp"] = npc["udp"]
      BY <1>3, InputApart DEF NetTask
    <3>2. UNCHANGED <<rxFifo, cur, boxes, udpv, pools, frames>>
      BY <2>1 DEF InputSem, InputLock, ReadJunk, ReadNothing, Rearm, InputUnlock, chip, input, used
    <3> QED
      BY <3>1, <3>2, StillKept DEF udpv
  <2> QED
    BY <1>3, <2>1, ReadData, CheckData, DeliverData DEF Input
<1>4. CASE Tcpip
  <2>1. CASE DM9000_SendPacket("tcpip")
    <3>1. npc'["udp"] = npc["udp"] /\ UNCHANGED <<rxFifo, input, boxes, udpv, pools, frames>>
      BY <2>1, TransmitApart DEF NetTask
    <3> QED
      BY <3>1, StillKept DEF udpv, input
  <2>2. CASE TcpipTransmit \/ TcpipSendFails
    <3>1. npc'["udp"] = npc["udp"]
      BY <1>4, TcpipApart DEF NetTask
    <3>2. UNCHANGED <<rxFifo, cur, boxes, recvbuf, sentbuf, got, pools, frames>>
      BY <2>2 DEF TcpipTransmit, TcpipSendFails, chip, input, used, udpv
    <3> QED
      BY <3>1, <3>2, StillKept
  <2> QED
    BY <1>4, <2>1, <2>2, FetchData, RecvData, DoneData DEF Tcpip
<1>5. CASE UdpFill \/ UdpNoFlag \/ UdpDelay \/ Ticks
  <2>1. npc'["udp"] # "r_got"
    BY <1>5, DataFacts, GotoFacts DEF UdpFill, UdpNoFlag, UdpDelay, Ticks, UdpFetchTimeout,
       UdpDelayEnds
  <2>2. UNCHANGED <<rxFifo, cur, boxes, udpv, pools, frames>>
    BY <1>5 DEF UdpFill, UdpNoFlag, UdpDelay, Ticks, UdpFetchTimeout, UdpDelayEnds, chip, input,
       used
  <2> QED
    BY <2>1, <2>2, StillKept DEF udpv
<1>6. CASE Udp
  BY <1>5, <1>6, UdpSendData, PostApiData, UdpFetchData, DeleteReceivedData DEF Udp
<1> QED
  BY <1>1, <1>2, <1>3, <1>4, <1>5, <1>6, TimeoutData, NoOther

\* Every step keeps the invariant.
LEMMA WayStep == ASSUME WayInv, [NNext]_nvars PROVE WayInv'
<1>1. NInv'
  BY NNextInv DEF WayInv
<1>2. NTyped' /\ BuffersConserved' /\ InOrder'
  BY KeptStep, ArriveData, CopyData DEF Kept
<1> QED
  BY <1>1, <1>2, SignalsStep, FlagsStep, InputAtStep, TcpipAtStep, UdpAtStep, ApiAtStep DEF WayInv

\* The invariant of a frame's way from the chip (dm9000.c:340-418) through the
\* mailboxes (sys_arch.c:50-130) to udp_thread (udp_u.c:66-86).
THEOREM WayInvCorrect == NSpec => []WayInv
  BY WayInit, WayStep, PTL DEF NSpec

\* No error path forgets a buffer or frees it twice.
THEOREM BuffersConservedCorrect == NSpec => []BuffersConserved
<1>1. WayInv => BuffersConserved
  BY DEF WayInv
<1> QED
  BY <1>1, WayInvCorrect, PTL

-----------------------------------------------------------------------------
(* The order of the orders                                                 *)

\* The frames on the way that udp_thread does not hold.
Coming == FramesIn(recvmbox) \cup {hand.frame} \cup {m.frame : m \in FramesIn(mbox)}
            \cup {cur} \cup FramesIn(rxFifo)
ComingIds == {f.id : f \in {g \in Coming : g.kind = "order"}}

\* Whoever has a number in a queue is among the numbers of the queue.
LEMMA InNumbers ==
  ASSUME NEW q, NEW number, NEW i \in DOMAIN q, number[q[i]] # 0
  PROVE  number[q[i]] \in Numbers(q, number)
  BY DEF Numbers

\* An order that comes is numbered at its place.
LEMMA ComingNumbered ==
  ASSUME WayInv, NEW f \in Coming, f.kind = "order"
  PROVE  f.id \in NumbersQ \cup NumbersH \cup NumbersM \cup NumbersC \cup NumbersF
<1>1. f # NoFrame
  BY FrameFacts
<1>2. \A q \in Seq(Real) : f \in FramesIn(q) => f.id \in Numbers(q, FrameId)
  <2> SUFFICES ASSUME NEW q \in Seq(Real), f \in FramesIn(q) PROVE f.id \in Numbers(q, FrameId)
    OBVIOUS
  <2>1. PICK i \in DOMAIN q : f = q[i]
    BY DEF FramesIn
  <2>2. f \in Real
    BY <2>1, FramesInFacts
  <2>3. FrameId[q[i]] = f.id /\ f.id # 0
    BY <2>1, <2>2, FrameFacts
  <2> QED
    BY <2>3, InNumbers
<1>3. CASE f \in FramesIn(recvmbox)
  BY <1>2, <1>3, DataFacts DEF NumbersQ
<1>4. CASE f \in FramesIn(rxFifo)
  BY <1>2, <1>4, DataFacts DEF NTyped, NumbersF
<1>5. CASE f = hand.frame
  <2>1. hand \in Packets \/ hand.frame = NoFrame
    BY DataFacts, PostFacts DEF NTyped, Posts
  <2>2. IsInpkt(hand)
    BY <1>1, <1>5, <2>1, PostFacts
  <2> QED
    BY <1>5, <2>2 DEF NumbersH
<1>6. CASE f = cur
  BY <1>1, <1>6 DEF NumbersC
<1>7. CASE \E m \in FramesIn(mbox) : f = m.frame
  <2>1. PICK i \in DOMAIN mbox : f = mbox[i].frame
    BY <1>7 DEF FramesIn
  <2>2. mbox[i] \in Posts
    BY DataFacts, FramesInFacts DEF NTyped
  <2>3. mbox[i] \in Packets
    BY <1>1, <2>1, <2>2, PostFacts DEF Posts
  <2>4. PostId[mbox[i]] = f.id /\ f.id # 0
    BY <2>1, <2>3, PostFacts, FrameFacts
  <2> QED
    BY <2>4, InNumbers DEF NumbersM
<1> QED
  BY <1>3, <1>4, <1>5, <1>6, <1>7 DEF Coming

\* The orders on the way: those that come, and before them the one that is
\* about to be copied.
LEMMA OrderIdsAre ==
  ASSUME WayInv
  PROVE  /\ frames \in Nat /\ frames <= MaxFrames /\ MaxFrames \in Nat
         /\ OrderIds \subseteq 1 .. frames
         /\ npc["udp"] # "r_got" => OrderIds = ComingIds
         /\ npc["udp"] = "r_got" /\ recvbuf \in Orders =>
              /\ OrderIds = {recvbuf.id} \cup ComingIds
              /\ \A i \in ComingIds : recvbuf.id < i
<1>1. Chained(NumbersR, NumbersQ, NumbersH, NumbersM, NumbersC, NumbersF, frames)
      /\ frames \in Nat /\ frames <= MaxFrames /\ MaxFrames \in Nat
  BY DataFacts DEF InOrder, NTyped
<1>2. FramesOnWay = (IF npc["udp"] = "r_got" THEN {recvbuf} ELSE {}) \cup Coming
  BY Zenon DEF FramesOnWay, Coming
<1>3. ComingIds \subseteq NumbersQ \cup NumbersH \cup NumbersM \cup NumbersC \cup NumbersF
  BY ComingNumbered DEF ComingIds
<1>4. ComingIds \subseteq 1 .. frames
  BY <1>1, <1>3 DEF Chained
<1>5. npc["udp"] # "r_got" => OrderIds = ComingIds
  BY <1>2 DEF OrderIds, ComingIds
<1>6. npc["udp"] = "r_got" /\ recvbuf.kind # "order" => OrderIds = ComingIds
  BY <1>2 DEF OrderIds, ComingIds
<1>7. npc["udp"] = "r_got" /\ recvbuf.kind = "order" => OrderIds = {recvbuf.id} \cup ComingIds
  BY <1>2 DEF OrderIds, ComingIds
<1>8. recvbuf.kind = "order" <=> recvbuf \in Orders
  BY DataFacts, FrameFacts DEF NTyped, Orders
<1>9. npc["udp"] = "r_got" /\ recvbuf \in Orders =>
        recvbuf.id \in 1 .. frames /\ \A i \in ComingIds : recvbuf.id < i
  <2> SUFFICES ASSUME npc["udp"] = "r_got", recvbuf \in Orders
               PROVE  recvbuf.id \in 1 .. frames /\ \A i \in ComingIds : recvbuf.id < i
    OBVIOUS
  <2>1. recvbuf.id \in NumbersR
    BY FrameFacts DEF NumbersR
  <2> QED
    BY <1>1, <1>3, <2>1 DEF Chained, Below
<1> QED
  BY <1>1, <1>4, <1>5, <1>6, <1>7, <1>8, <1>9

\* The list of the orders on the way is the ascending one.
LEMMA AscendingIs ==
  ASSUME NEW n \in Nat, NEW S, S \subseteq 1 .. n
  PROVE  IsAscending(Ascending(S), S)
<1>1. PICK q : IsAscending(q, S)
  BY AscendingExists
<1>2. /\ q \in [1 .. Cardinality(S) -> S]
      /\ \A i, j \in DOMAIN q : i < j => q[i] < q[j]
  BY <1>1 DEF IsAscending
<1> QED
  BY <1>2 DEF Ascending, IsAscending

\* What an order of one more frame, the loss of orders and the copy of the
\* oldest one do to that list.
LEMMA WireSteps ==
  ASSUME NEW n \in Nat, NEW S, S \subseteq 1 .. n, NEW U, U \subseteq 1 .. n + 1
  PROVE  /\ U = S \cup {n + 1} => Ascending(U) = Append(Ascending(S), n + 1)
         /\ U \subseteq S => PartOf(Ascending(U), Ascending(S))
         /\ \A x \in S : U = S \ {x} /\ (\A y \in U : x < y) =>
              /\ Ascending(S) # <<>> /\ x = Head(Ascending(S)) /\ Ascending(U) = Tail(Ascending(S))
<1> DEFINE p == Ascending(S)
           r == Ascending(U)
<1>1. IsAscending(p, S) /\ IsAscending(r, U)
  <2>1. n + 1 \in Nat
    OBVIOUS
  <2> QED
    BY <2>1, AscendingIs
<1>5. n + 1 \in Nat /\ S \subseteq Nat
  OBVIOUS
<1> HIDE DEF p, r
<1>2. ASSUME U = S \cup {n + 1} PROVE r = Append(p, n + 1)
  <2>1. \A y \in S : y < n + 1
    OBVIOUS
  <2>2. IsAscending(Append(p, n + 1), S \cup {n + 1})
    BY <1>1, <1>5, <2>1, AscendingAppend
  <2> QED
    BY <1>1, <1>2, <1>5, <2>2, AscendingUnique
<1>3. ASSUME U \subseteq S PROVE PartOf(r, p)
  BY <1>1, <1>3, AscendingPart
<1>4. ASSUME NEW x \in S, U = S \ {x}, \A y \in U : x < y
      PROVE  p # <<>> /\ x = Head(p) /\ r = Tail(p)
  <2>1. p # <<>> /\ Head(p) = x /\ IsAscending(Tail(p), S \ {x})
    BY <1>1, <1>4, AscendingTail
  <2> QED
    BY <1>1, <1>4, <2>1, AscendingUnique
<1> QED
  BY <1>2, <1>3, <1>4 DEF p, r

\* A step of the network is one of the wire, or none.
LEMMA WireStep == ASSUME WayInv, [NNext]_nvars, WayInv' PROVE [Wire!DNext]_(Wire!dvars)
<1>1. /\ frames \in Nat /\ frames <= MaxFrames /\ OrderIds \subseteq 1 .. frames
      /\ NoFrame.kind # "order"
  BY OrderIdsAre, FrameFacts
<1>2. CASE FrameArrives
  <2>1. PICK k \in Kinds, n \in 1 .. MaxChain :
          FramesOnWay' = FramesOnWay \cup {[kind |-> k, id |-> frames + 1, pbufs |-> n]}
    BY <1>2, ArriveData
  <2>2. got' = got /\ frames + 1 \in 1 .. MaxFrames
    BY <1>1, <1>2, ArriveData, FrameFacts DEF FrameArrives
  <2>3. CASE k = "order"
    <3>1. OrderIds' = OrderIds \cup {frames + 1}
      <4> DEFINE f == [kind |-> "order", id |-> frames + 1, pbufs |-> n]
      <4>1. f.kind = "order" /\ f.id = frames + 1 /\ FramesOnWay' = FramesOnWay \cup {f}
        BY <2>1, <2>3
      <4> HIDE DEF f
      <4> QED
        BY <4>1 DEF OrderIds
    <3>2. OrderIds' \subseteq 1 .. frames + 1
      BY <1>1, <3>1
    <3>3. OrdersOnWay' = Append(OrdersOnWay, frames + 1)
      BY <1>1, <3>1, <3>2, WireSteps DEF OrdersOnWay
    <3> QED
      BY <2>2, <3>3 DEF Wire!DNext, Wire!Send
  <2>4. CASE k # "order"
    <3>1. OrderIds' = OrderIds
      <4> DEFINE f == [kind |-> k, id |-> frames + 1, pbufs |-> n]
      <4>1. f.kind # "order" /\ FramesOnWay' = FramesOnWay \cup {f}
        BY <2>1, <2>4
      <4> HIDE DEF f
      <4> QED
        BY <4>1 DEF OrderIds
    <3> QED
      BY <2>2, <3>1 DEF OrdersOnWay, Wire!dvars
  <2> QED
    BY <2>3, <2>4
<1>3. CASE UdpCopy
  <2>1. /\ npc["udp"] = "r_got" /\ npc'["udp"] = "r_delete" /\ recvbuf \in Orders
        /\ UNCHANGED <<rxFifo, cur, boxes, recvbuf>> /\ got' = Append(got, recvbuf.id)
    BY <1>3, CopyData
  <2> DEFINE x == recvbuf.id
  <2>2. OrderIds = {x} \cup ComingIds /\ \A i \in ComingIds : x < i
    BY <2>1, OrderIdsAre
  <2>3. OrderIds' = ComingIds
    <3>1. ComingIds' = ComingIds
      BY <2>1 DEF ComingIds, Coming, boxes
    <3>2. OrderIds' = ComingIds'
      BY <2>1 DEF OrderIds, ComingIds, FramesOnWay, Coming
    <3> QED
      BY <3>1, <3>2
  <2> HIDE DEF x
  <2>4. x \in OrderIds /\ OrderIds' = OrderIds \ {x} /\ \A y \in OrderIds' : x < y
    <3>1. x \notin ComingIds
      BY <1>1, <2>2
    <3> QED
      BY <2>2, <2>3, <3>1
  <2>5. OrderIds' \subseteq 1 .. frames + 1
    BY <1>1, <2>4
  <2>6. OrdersOnWay # <<>> /\ x = Head(OrdersOnWay) /\ OrdersOnWay' = Tail(OrdersOnWay)
    BY <1>1, <2>4, <2>5, WireSteps DEF OrdersOnWay
  <2> QED
    BY <2>1, <2>6 DEF x, Wire!DNext, Wire!Receive
<1>4. CASE Kept
  <2>1. OrderIds' \subseteq OrderIds /\ got' = got
    BY <1>1, <1>4 DEF Kept, OrderIds
  <2>2. OrderIds' \subseteq 1 .. frames + 1
    BY <1>1, <2>1
  <2>3. PartOf(OrdersOnWay', OrdersOnWay)
    BY <1>1, <2>1, <2>2, WireSteps DEF OrdersOnWay
  <2> QED
    BY <2>1, <2>3, Zenon DEF Wire!DNext, Wire!Lose, PartOf
<1> QED
  BY <1>2, <1>3, <1>4, KeptStep

\* The wire starts empty.
LEMMA WireInit == ASSUME NInit PROVE Wire!DInit
<1>1. got = <<>> /\ WayInv /\ npc["udp"] # "r_got"
  <2>1. npc = [t \in NetTask |-> CASE t = "tcpip" -> "fetch" [] t = "dhcp" -> "idle"
                                   [] t = "input" -> "sem" [] t = "udp" -> "loop"]
        /\ got = <<>>
    BY DEF NInit
  <2> QED
    BY <2>1, WayInit DEF NetTask
<1>2. OrderIds \subseteq {}
  <2>1. OrderIds \subseteq 1 .. frames /\ frames = 0
    BY <1>1, OrderIdsAre DEF NInit
  <2> QED
    BY <2>1
<1>3. IsAscending(OrdersOnWay, {})
  BY <1>2, AscendingIs DEF OrdersOnWay
<1>4. OrdersOnWay = <<>>
  <2>1. IsAscending(<<>>, {})
    BY FS_EmptySet DEF IsAscending
  <2> QED
    BY <1>3, <2>1, AscendingUnique
<1> QED
  BY <1>1, <1>4 DEF Wire!DInit

\* Orders reach udp_thread in the order of their arrival, none twice: the way
\* through the chip, the tasks and the mailboxes implements module Datagrams.
THEOREM OrdersInOrderCorrect == NSpec => OrdersInOrder
<1>1. NInit => Wire!DInit
  BY WireInit
<1>2. WayInv /\ WayInv' /\ [NNext]_nvars => [Wire!DNext]_(Wire!dvars)
  BY WireStep
<1> QED
  BY <1>1, <1>2, WayInvCorrect, PTL DEF NSpec, OrdersInOrder, Wire!DSpec

\* The sets of the type invariant.
LEMMA FramesAndMessages ==
  /\ NoFrame \in Frames /\ Real \subseteq Frames /\ Orders \subseteq Frames
  /\ Posts \cup {NoMsg, Timer} \subseteq Messages
<1>1. NoFrame \in Frames /\ Real \subseteq Frames /\ Orders \subseteq Frames
  <2>1. /\ NoFrame = [kind |-> "none", id |-> 0, pbufs |-> 0]
        /\ MaxFrames \in Nat /\ MaxChain \in Nat
    BY FrameFacts, NetworkAssumption DEF NoFrame, NoMsg
  <2>2. NoFrame \in Frames
    BY <2>1 DEF Frames
  <2>3. Real \subseteq Frames
    BY <2>1 DEF Frames, Real
  <2> QED
    BY <2>2, <2>3, FrameFacts
<1>2. /\ NoMsg = [type |-> "NONE", frame |-> NoFrame]
      /\ Api = [type |-> "API", frame |-> NoFrame]
      /\ Timer = [type |-> "TIMER", frame |-> NoFrame]
  BY DEF NoFrame, NoMsg, Api, Timer
<1>3. NoMsg \in Messages /\ Api \in Messages /\ Timer \in Messages
  BY <1>1, <1>2 DEF Messages
<1>4. Packets \subseteq Messages
  BY <1>1 DEF Packets, Messages
<1> QED
  BY <1>1, <1>3, <1>4 DEF Posts

\* A sequence over a set is one over a larger set.
LEMMA LargerSeq ==
  ASSUME NEW S, NEW T, S \subseteq T, NEW q \in Seq(S)
  PROVE  q \in Seq(T)
<1>1. Len(q) \in Nat /\ q = [i \in 1 .. Len(q) |-> q[i]] /\ \A i \in 1 .. Len(q) : q[i] \in T
  BY LenProperties
<1> QED
  BY <1>1

\* The invariant implies the types.
LEMMA WayTypeOK == ASSUME WayInv PROVE NTypeOK
<1>1. NTyped /\ NInv /\ BuffersConserved
  BY DataFacts
<1>2. MTypeOK
  BY <1>1 DEF NInv, MInv
<1>3. {prs, pts, imr, rcr, txBusy, sendErr} \subseteq BOOLEAN
  <2>1. /\ prs \in BOOLEAN /\ pts \in BOOLEAN /\ imr \in BOOLEAN /\ rcr \in BOOLEAN
        /\ txBusy \in BOOLEAN /\ sendErr \in BOOLEAN
    BY <1>1, Zenon DEF WayInv, NInv, Flags
  <2> QED
    BY <2>1, Zenon
<1>4. semCtr \in 0 .. MaxFrames
  BY <1>1, FrameFacts DEF WayInv, Signals, NTyped
<1>5. /\ rxFifo \in Seq(Frames) /\ cur \in Frames /\ mbox \in Seq(Messages)
      /\ hand \in Messages /\ recvmbox \in Seq(Frames) /\ recvbuf \in Frames
  <2>1. /\ rxFifo \in Seq(Real) /\ cur \in Real \cup {NoFrame} /\ mbox \in Seq(Posts)
        /\ hand \in Posts \cup {NoMsg, Timer} /\ recvmbox \in Seq(Orders)
        /\ recvbuf \in Orders \cup {NoFrame}
    BY <1>1 DEF NTyped
  <2>2. /\ Posts \subseteq Messages /\ Real \subseteq Frames /\ Orders \subseteq Frames
        /\ NoFrame \in Frames /\ NoMsg \in Messages /\ Timer \in Messages
    BY FramesAndMessages
  <2>3. rxFifo \in Seq(Frames) /\ mbox \in Seq(Messages) /\ recvmbox \in Seq(Frames)
    BY <2>1, <2>2, LargerSeq
  <2>4. cur \in Frames /\ recvbuf \in Frames
    BY <2>1, <2>2, Zenon
  <2>5. hand \in Messages
    BY <2>1, <2>2, Zenon
  <2> QED
    BY <2>3, <2>4, <2>5
<1>6. /\ pbufFree \in 0 .. NumPbuf /\ inpktFree \in 0 .. NumInpkt /\ netbufFree \in 0 .. NumNetbuf
  <2>1. Pbufs \in Nat /\ Inpkts \in Nat /\ Netbufs \in Nat
    BY HeldTyped
  <2>2. pbufFree + Pbufs = NumPbuf /\ inpktFree + Inpkts = NumInpkt /\ netbufFree + Netbufs = NumNetbuf
    BY <1>1 DEF BuffersConserved
  <2>3. pbufFree \in Nat /\ inpktFree \in Nat /\ netbufFree \in Nat
    BY CountFacts
  <2> QED
    BY <2>1, <2>2, <2>3, NetworkAssumption
<1> QED
  BY <1>1, <1>2, <1>3, <1>4, <1>5, <1>6 DEF NTypeOK, NTyped

\* The state of the network has the types of its parts in the code: mailboxes of
\* MAX_QUEUE_ENTRIES (sys_arch.h), pools of their sizes (lwipopts.h), one signal
\* of the semaphore for each frame at most.
THEOREM NTypeOKCorrect == NSpec => []NTypeOK
<1>1. WayInv => NTypeOK
  BY WayTypeOK
<1> QED
  BY <1>1, WayInvCorrect, PTL

-----------------------------------------------------------------------------
(* The mailbox of tcpip_thread is empty                                    *)

\* A sender never blocks at the chip, and the receive task neither, until it
\* forgets to unlock it.
Held ==
  /\ owner # "udp"
  /\ \A t \in {"tcpip", "dhcp"} : owner = t => OnChip(t) /\ tstate[t] = "RDY"
  /\ rcr => nest <= 1 /\ (owner = "input" => OnChip("input") /\ tstate["input"] = "RDY")

\* After that it owns the chip for ever, and the junk stays the first in it.
Forgotten ==
  ~rcr => /\ owner = "input" /\ npc["input"] \in {"sem", "lock", "read"}
          /\ rxFifo # <<>> /\ Head(rxFifo).kind = "junk"

\* Only then a message ever lies in the mailbox, a request of udp_thread that
\* tcpip_thread, which waits for the chip, does not fetch any more.
Unfetched ==
  /\ mbox = <<>> \/ mbox = <<Api>>
  /\ mbox # <<>> => /\ ~rcr /\ tstate["tcpip"] = "PEND"
                    /\ npc["udp"] = "s_result" /\ tstate["udp"] = "WAIT"

\* The inductive invariant of the mailbox.
BoxInv == WayInv /\ Held /\ Forgotten /\ Unfetched

\* At the start the chip is free and the mailbox empty.
LEMMA BoxInit == ASSUME NInit PROVE BoxInv
<1>1. WayInv
  BY WayInit
<1>2. owner = None /\ nest = 0 /\ rcr = TRUE /\ mbox = <<>>
  BY DEF NInit, MInit
<1>3. None \notin {"tcpip", "dhcp", "input", "udp"}
  BY TasksKnown, MutexAssumption
<1>4. Held /\ Forgotten /\ Unfetched
  BY <1>2, <1>3 DEF Held, Forgotten, Unfetched
<1> QED
  BY <1>1, <1>4 DEF BoxInv

\* The priorities of the tasks.
LEMMA PrioFacts ==
  ASSUME NInv
  PROVE  /\ tstate \in [NetTask -> States] /\ prio \in [NetTask -> Nat]
         /\ prio["tcpip"] <= 3 /\ prio["dhcp"] <= 4 /\ prio["input"] <= 4
         /\ owner # "udp" => prio["udp"] = 6
         /\ owner # "input" => prio["input"] = 4
         /\ owner # None /\ tstate["tcpip"] = "PEND" => prio[owner] <= 3
         /\ tstate["tcpip"] = "PEND" => owner \in NetTask /\ owner # "tcpip"
         /\ owner \in NetTask \cup {None} /\ None \notin NetTask /\ nest \in Nat
         /\ (nest = 0) <=> (owner = None)
<1>1. MInv /\ Task = NetTask /\ BasePrio = NetPrio /\ None \notin NetTask
  BY TasksKnown, MutexAssumption, NetworkAssumption DEF NInv
<1>2. /\ BasePrio["tcpip"] = 3 /\ BasePrio["dhcp"] = 4 /\ BasePrio["input"] = 4
      /\ BasePrio["udp"] = 6
  BY <1>1 DEF NetPrio, NetTask
<1>3. {"tcpip", "dhcp", "input", "udp"} = NetTask
  BY DEF NetTask
<1>4. /\ tstate \in [NetTask -> States] /\ prio \in [NetTask -> Nat]
      /\ owner \in NetTask \cup {None} /\ nest \in Nat /\ ((nest = 0) <=> (owner = None))
  BY <1>1, MutexAssumption DEF MInv, MTypeOK
<1>5. \A t \in NetTask : prio[t] <= BasePrio[t] /\ (t # owner => prio[t] = BasePrio[t])
  BY <1>1, <1>2, <1>3 DEF MInv, Inherits
<1>6. ASSUME tstate["tcpip"] = "PEND"
      PROVE  owner \in NetTask /\ owner # "tcpip" /\ prio[owner] <= 3
  <2>1. "tcpip" \in Range(waiters)
    BY <1>1, <1>3, <1>6 DEF MInv, ListExact
  <2>2. waiters # <<>>
    BY <2>1 DEF Range
  <2>3. owner # None
    BY <1>1, <2>2 DEF MInv, ListExact
  <2>4. owner \in NetTask /\ owner # "tcpip"
    BY <1>1, <1>4, <1>6, <2>3 DEF MInv, OwnerKnown
  <2>5. prio[owner] <= BasePrio["tcpip"]
    BY <1>1, <2>1, <2>4 DEF MInv, Inherits
  <2> QED
    BY <1>2, <2>4, <2>5
<1> QED
  BY <1>1, <1>2, <1>3, <1>4, <1>5, <1>6

\* A task pends on the mutex: it takes it, owns it already, or waits.
LEMMA PendCases ==
  ASSUME NInv, NEW t \in NetTask, OSMutexPend(t)
  PROVE  /\ tstate[t] = "RDY"
         /\ \/ owner = None /\ owner' = t /\ nest' = 1 /\ tstate' = tstate
            \/ owner = t /\ owner' = t /\ tstate' = tstate
            \/ /\ owner # None /\ owner # t /\ owner' = owner /\ nest' = nest
               /\ tstate'[t] = "PEND" /\ \A u \in NetTask : u # t => tstate'[u] = tstate[u]
<1>1. tstate[t] = "RDY"
  BY DEF OSMutexPend, Runs
<1>2. CASE Take(t)
  BY <1>1, <1>2, PrioFacts DEF Take
<1>3. CASE TakeAgain(t)
  BY <1>1, <1>3 DEF TakeAgain
<1>4. CASE Block(t)
  <2>1. /\ nest > 0 /\ owner # t /\ owner' = owner /\ nest' = nest
        /\ tstate' = [tstate EXCEPT ![t] = "PEND"]
    BY <1>4 DEF Block
  <2> QED
    BY <1>1, <2>1, PrioFacts
<1> QED
  BY <1>2, <1>3, <1>4 DEF OSMutexPend

\* The owner gives the mutex up: it is free, or the first waiter's.
LEMMA PostCases ==
  ASSUME NInv, NEW t \in NetTask, OSMutexPost(t), owner = t, nest <= 1
  PROVE  \/ owner' = None /\ nest' = 0 /\ tstate' = tstate
         \/ \E h \in NetTask : /\ owner' = h /\ nest' = 1 /\ h # t
                               /\ npc[h] \in {"tx_mask", "read"} /\ h # "udp"
                               /\ tstate'[h] = "RDY"
                               /\ \A u \in NetTask : u # h => tstate'[u] = tstate[u]
<1>1. nest = 1 /\ tstate[t] = "RDY" /\ tstate \in [NetTask -> States]
  BY PrioFacts DEF OSMutexPost, Runs
<1>2. CASE Free
  BY <1>2 DEF Free
<1>3. CASE HandOver(t)
  <2> DEFINE h == Head(waiters)
  <2>1. waiters # <<>> /\ tstate' = [tstate EXCEPT ![h] = "RDY"] /\ owner' = h /\ nest' = 1
    BY <1>1, <1>3 DEF HandOver
  <2>2. h \in NetTask /\ tstate[h] = "PEND"
    <3>1. WaitersSorted /\ waiters \in Seq(Task)
      BY InvSorted DEF NInv, MInv, MTypeOK
    <3>2. 1 \in DOMAIN waiters /\ h = waiters[1]
      BY <2>1, <3>1, LenProperties, EmptySeq
    <3> QED
      BY <3>1, <3>2, TasksKnown DEF WaitersSorted
  <2>3. npc[h] \in {"tx_mask", "read"} /\ h # "udp" /\ h # t
    BY <1>1, <2>2, TasksKnown DEF NInv, Places
  <2> HIDE DEF h
  <2> QED
    BY <1>1, <2>1, <2>2, <2>3
<1> QED
  BY <1>1, <1>2, <1>3 DEF OSMutexPost, Unnest

\* A step of a task that neither locks the chip nor unlocks it.
LEMMA HeldMoves ==
  ASSUME Held, NEW t \in NetTask, UNCHANGED <<owner, nest, rcr>>,
         \A u \in NetTask : u # t => npc'[u] = npc[u],
         \A u \in NetTask : u # t /\ tstate[u] = "RDY" => tstate'[u] = "RDY",
         owner = t => \/ OnChip(t)' /\ tstate'[t] = "RDY"
                      \/ t = "input" /\ ~rcr
  PROVE  Held'
<1>1. {"tcpip", "dhcp", "input", "udp"} = NetTask
  BY DEF NetTask
<1>2. \A u \in NetTask : u # t => (OnChip(u)' <=> OnChip(u))
  BY DEF OnChip
<1> QED
  BY <1>1, <1>2 DEF Held

\* A sender or the receive task asks for the chip.
LEMMA HeldLock ==
  ASSUME BoxInv, NEW t \in {"tcpip", "dhcp", "input"}, NEW from, NEW to,
         OSMutexPend(t), Goto(t, from, to), from \in {"tx_lock", "lock"},
         to \in {"tx_mask", "read"}, UNCHANGED rcr
  PROVE  Held'
<1>1. NInv /\ Held /\ Forgotten /\ t \in NetTask /\ {"tcpip", "dhcp", "input", "udp"} = NetTask
  BY DEF BoxInv, WayInv, NetTask
<1>2. npc[t] = from /\ npc'[t] = to /\ \A u \in NetTask : u # t => npc'[u] = npc[u]
  BY <1>1, GotoFacts
<1>3. OnChip(t)' /\ ~OnChip(t)
  BY <1>2 DEF OnChip
<1>4. \A u \in NetTask : u # t => (OnChip(u)' <=> OnChip(u))
  BY <1>2 DEF OnChip
<1>5. tstate[t] = "RDY"
  BY <1>1, PendCases
<1>6. CASE owner' = t /\ nest' = 1 /\ tstate' = tstate
  BY <1>1, <1>3, <1>4, <1>5, <1>6 DEF Held
<1>7. CASE owner = t /\ owner' = t /\ tstate' = tstate
  <2>1. t = "input" /\ ~rcr
    BY <1>1, <1>3, <1>7 DEF Held
  <2> QED
    BY <1>7, <2>1 DEF Held
<1>8. CASE /\ owner # t /\ owner' = owner /\ nest' = nest
           /\ \A u \in NetTask : u # t => tstate'[u] = tstate[u]
  BY <1>1, <1>4, <1>8 DEF Held
<1> QED
  BY <1>1, <1>6, <1>7, <1>8, PendCases

\* The owner gives the chip up.
LEMMA HeldUnlock ==
  ASSUME BoxInv, NEW t \in {"tcpip", "dhcp", "input"}, NEW from, NEW to,
         OSMutexPost(t), Goto(t, from, to), from \in {"tx_unlock", "unlock"}, UNCHANGED rcr
  PROVE  Held' /\ rcr /\ owner = t
<1>1. NInv /\ Held /\ Forgotten /\ t \in NetTask /\ {"tcpip", "dhcp", "input", "udp"} = NetTask
      /\ None \notin NetTask
  BY PrioFacts DEF BoxInv, WayInv, NetTask
<1>2. npc[t] = from /\ npc'[t] = to /\ \A u \in NetTask : u # t => npc'[u] = npc[u]
  BY <1>1, GotoFacts
<1>3. owner = t
  <2>1. tstate[t] # "PEND" /\ OnChip(t)
    BY <1>2 DEF OSMutexPost, Runs, OnChip
  <2> QED
    BY <1>1, <2>1, TasksKnown DEF NInv, ChipIsLocked
<1>4. rcr /\ nest <= 1
  BY <1>1, <1>2, <1>3 DEF Forgotten, Held
<1>5. CASE owner' = None /\ nest' = 0
  BY <1>1, <1>3, <1>4, <1>5 DEF Held
<1>6. ASSUME NEW h \in NetTask, owner' = h, nest' = 1, h # t, npc[h] \in {"tx_mask", "read"},
             h # "udp", tstate'[h] = "RDY"
      PROVE  Held'
  <2>1. OnChip(h)'
    BY <1>2, <1>6 DEF OnChip
  <2> QED
    BY <1>1, <1>6, <2>1 DEF Held
<1> QED
  BY <1>1, <1>3, <1>4, <1>5, <1>6, PostCases

\* What every task does between the two keeps the chip held or free.
LEMMA HeldStep == ASSUME BoxInv, [NNext]_nvars PROVE Held'
<1>1. NInv /\ WayInv /\ Held /\ Forgotten /\ {"tcpip", "dhcp", "input", "udp"} = NetTask
      /\ tstate \in [NetTask -> States]
  BY PrioFacts DEF BoxInv, WayInv, NetTask
<1>2. CASE FrameArrives \/ TransmissionEnds \/ DMA9000_ISRHandler \/ TcpipTimeout \/ UNCHANGED nvars
  <2>1. npc' = npc /\ UNCHANGED <<owner, nest, rcr>>
        /\ \/ UNCHANGED mvars
           \/ MakeReady("input")
           \/ MakeReady("tcpip")
    BY <1>2 DEF FrameArrives, TransmissionEnds, DMA9000_ISRHandler, TcpipTimeout, nvars, chip,
                MakeReady, mvars
  <2>2. \A u \in NetTask : tstate[u] = "RDY" => tstate'[u] = "RDY"
    BY <1>1, <2>1 DEF MakeReady, mvars
  <2>3. \A u \in NetTask : OnChip(u)' <=> OnChip(u)
    BY <2>1 DEF OnChip
  <2> QED
    BY <1>1, <2>1, <2>2, <2>3 DEF Held
<1>3. ASSUME NEW t \in {"tcpip", "dhcp"}, DM9000_SendPacket(t) PROVE Held'
  <2>1. CASE TxLock(t)
    BY <2>1, HeldLock DEF TxLock, chip
  <2>2. CASE TxUnlock(t)
    BY <2>2, HeldUnlock DEF TxUnlock, chip
  <2>3. ASSUME NEW from \in {"tx_mask", "tx_start", "tx_wait", "tx_unmask"},
               NEW to \in {"tx_start", "tx_wait", "tx_unmask", "tx_unlock"},
               Step(t), Goto(t, from, to), UNCHANGED rcr
        PROVE  Held'
    <3>1. npc'[t] = to /\ \A u \in NetTask : u # t => npc'[u] = npc[u]
      BY <1>1, <2>3, GotoFacts
    <3>2. UNCHANGED <<owner, nest, tstate>> /\ tstate[t] = "RDY"
      BY <2>3 DEF Step, Runs, mvars
    <3>3. OnChip(t)'
      BY <3>1 DEF OnChip
    <3> QED
      BY <1>1, <2>3, <3>1, <3>2, <3>3, HeldMoves
  <2>4. CASE TxMask(t) \/ TxStart(t) \/ TxPoll(t) \/ TxUnmask(t)
    BY <2>3, <2>4 DEF TxMask, TxStart, TxPoll, TxUnmask
  <2> QED
    BY <1>3, <2>1, <2>2, <2>4 DEF DM9000_SendPacket
<1>4. ASSUME NEW t \in NetTask, NEW from, NEW to, Goto(t, from, to), owner # t \/ (t = "input" /\ ~rcr),
             Step(t) \/ Sleep(t) \/ MakeReady(t), UNCHANGED rcr
      PROVE  Held'
  <2>1. \A u \in NetTask : u # t => npc'[u] = npc[u]
    BY <1>1, <1>4, GotoFacts
  <2>2. UNCHANGED <<owner, nest>> /\ \A u \in NetTask : u # t => tstate'[u] = tstate[u]
    BY <1>1, <1>4 DEF Step, Sleep, MakeReady, mvars
  <2> QED
    BY <1>1, <1>4, <2>1, <2>2, HeldMoves
<1>5. CASE DhcpIdle \/ DhcpSent \/ DhcpStart
  <2>1. PICK from \in {"idle", "tx_done", "waiting"}, to \in {"waiting", "idle", "tx_lock"} :
          Goto("dhcp", from, to)
    BY <1>5 DEF DhcpIdle, DhcpSent, DhcpStart
  <2>2. owner # "dhcp"
    BY <1>1, <2>1 DEF Held, OnChip, Goto
  <2>3. (Step("dhcp") \/ Sleep("dhcp") \/ MakeReady("dhcp")) /\ UNCHANGED rcr
    BY <1>5 DEF DhcpIdle, DhcpSent, DhcpStart, Wake, chip
  <2> QED
    BY <1>1, <1>4, <2>1, <2>2, <2>3
<1>6. CASE TcpipFetch \/ TcpipTransmit \/ TcpipSendFails
  <2>1. PICK from \in {"fetch", "handle"}, to \in {"handle", "tx_lock", "tx_done"} :
          Goto("tcpip", from, to)
    BY <1>6 DEF TcpipFetch, TcpipTransmit, TcpipSendFails
  <2>2. owner # "tcpip"
    BY <1>1, <2>1 DEF Held, OnChip, Goto
  <2>3. (Step("tcpip") \/ Sleep("tcpip")) /\ UNCHANGED rcr
    BY <1>6 DEF TcpipFetch, TcpipTransmit, TcpipSendFails, chip
  <2> QED
    BY <1>1, <1>4, <2>1, <2>2, <2>3
<1>7. CASE RecvUdp \/ TcpipDone
  <2>1. PICK from \in {"handle", "tx_done"} : Goto("tcpip", from, "fetch")
    BY <1>7 DEF RecvUdp, TcpipDone
  <2>2. owner # "tcpip" /\ \A u \in NetTask : u # "tcpip" => npc'[u] = npc[u]
    BY <1>1, <2>1, GotoFacts DEF Held, OnChip, Goto
  <2>3. UNCHANGED rcr /\ (UNCHANGED mvars \/ MakeReady("udp"))
    BY <1>7 DEF RecvUdp, TcpipDone, chip
  <2>4. UNCHANGED <<owner, nest>> /\ \A u \in NetTask : tstate[u] = "RDY" => tstate'[u] = "RDY"
    BY <1>1, <2>3 DEF MakeReady, mvars
  <2> QED
    BY <1>1, <2>2, <2>3, <2>4, HeldMoves
<1>8. CASE Udp \/ Ticks
  <2>1. \A u \in NetTask : u # "udp" => npc'[u] = npc[u]
    BY <1>1, <1>8, UdpApart
  <2>2. UNCHANGED rcr /\ owner # "udp"
    BY <1>1, <1>8, UdpApart DEF Held
  <2>3. UNCHANGED <<owner, nest>>
        /\ \A u \in NetTask : u # "udp" /\ tstate[u] = "RDY" => tstate'[u] = "RDY"
    <3>1. CASE UdpPostApi
      <4>1. UNCHANGED <<owner, nest>>
            /\ \/ tstate' = [tstate EXCEPT !["tcpip"] = "RDY", !["udp"] = "WAIT"]
               \/ tstate' = [tstate EXCEPT !["udp"] = "WAIT"]
        BY <3>1 DEF UdpPostApi
      <4> QED
        BY <1>1, <4>1
    <3>2. CASE ~UdpPostApi
      <4>1. Step("udp") \/ Sleep("udp") \/ MakeReady("udp")
        BY <1>8, <3>2 DEF Udp, Ticks, UdpNewBuf, UdpFill, UdpResult, UdpDelete, UdpNoFlag,
           UdpFetch, UdpDelay, UdpCopy, UdpDeleteReceived, UdpFetchTimeout, UdpDelayEnds, Wake
      <4> QED
        BY <1>1, <4>1 DEF Step, Sleep, MakeReady, mvars
    <3> QED
      BY <3>1, <3>2
  <2> QED
    BY <1>1, <2>1, <2>2, <2>3, HeldMoves
<1>9. CASE Input
  <2>1. CASE InputLock
    BY <2>1, HeldLock DEF InputLock, chip
  <2>2. CASE InputUnlock
    <3>1. PICK to \in {"sem", "deliver"} : Goto("input", "unlock", to)
      BY <2>2 DEF InputUnlock
    <3> QED
      BY <2>2, <3>1, HeldUnlock DEF InputUnlock, chip
  <2>3. CASE InputSem
    <3>1. /\ Goto("input", "sem", "lock") /\ UNCHANGED rcr
          /\ Step("input") \/ Sleep("input")
      BY <2>3 DEF InputSem, chip
    <3>2. owner # "input" \/ ~rcr
      BY <1>1, <3>1 DEF Held, OnChip, Goto
    <3> QED
      BY <1>1, <1>4, <3>1, <3>2
  <2>4. CASE InputDeliver
    <3>1. Goto("input", "deliver", "lock") /\ UNCHANGED rcr
          /\ (UNCHANGED mvars \/ MakeReady("tcpip"))
      BY <2>4 DEF InputDeliver, chip, MboxPost
    <3>2. owner # "input" \/ ~rcr
      BY <1>1, <3>1 DEF Held, OnChip, Goto
    <3>3. UNCHANGED <<owner, nest>> /\ \A u \in NetTask : tstate[u] = "RDY" => tstate'[u] = "RDY"
      BY <1>1, <3>1 DEF MakeReady, mvars
    <3>4. \A u \in NetTask : u # "input" => npc'[u] = npc[u]
      BY <1>1, <3>1, GotoFacts
    <3> QED
      BY <1>1, <3>1, <3>2, <3>3, <3>4, HeldMoves
  <2>5. CASE ReadJunk
    <3>1. /\ Goto("input", "read", "sem") /\ Step("input") /\ rcr' = FALSE
      BY <2>5 DEF ReadJunk
    <3>2. \A u \in NetTask : u # "input" => npc'[u] = npc[u]
      BY <1>1, <3>1, GotoFacts
    <3>3. \A u \in {"tcpip", "dhcp"} : OnChip(u)' <=> OnChip(u)
      BY <1>1, <3>2 DEF OnChip
    <3> QED
      BY <1>1, <3>1, <3>3 DEF Held, Step, mvars
  <2>6. CASE ReadFrame \/ ReadNothing \/ Rearm \/ CheckFrame
    <3>1. PICK from, to \in {"check", "read", "unlock", "spin", "rearm"} : Goto("input", from, to)
      BY <2>6 DEF ReadFrame, ReadNothing, Rearm, CheckFrame
    <3>2. Step("input") /\ UNCHANGED rcr
      BY <2>6 DEF ReadFrame, ReadNothing, Rearm, CheckFrame, chip
    <3>3. OnChip("input")' /\ \A u \in NetTask : u # "input" => npc'[u] = npc[u]
      BY <1>1, <3>1, GotoFacts DEF OnChip
    <3>4. UNCHANGED <<owner, nest, tstate>> /\ tstate["input"] = "RDY"
      BY <3>2 DEF Step, Runs, mvars
    <3> QED
      BY <1>1, <3>2, <3>3, <3>4, HeldMoves
  <2> QED
    BY <1>9, <2>1, <2>2, <2>3, <2>4, <2>5, <2>6 DEF Input
<1> QED
  BY <1>2, <1>3, <1>5, <1>6, <1>7, <1>8, <1>9, NoOther DEF Dhcp, Tcpip

\* While the chip is forgotten, its owner stays the receive task.
LEMMA ForgottenStep == ASSUME BoxInv, [NNext]_nvars PROVE Forgotten'
<1>1. /\ NInv /\ WayInv /\ Held /\ Forgotten /\ {"tcpip", "dhcp", "input", "udp"} = NetTask
      /\ None \notin NetTask
  BY PrioFacts DEF BoxInv, WayInv, NetTask
<1>2. CASE rcr /\ rcr' = rcr
  BY <1>2 DEF Forgotten
<1>3. CASE ~rcr /\ owner' = owner /\ npc'["input"] = npc["input"] /\ rxFifo' = rxFifo
  BY <1>1, <1>3 DEF Forgotten
<1>4. CASE TransmissionEnds \/ DMA9000_ISRHandler \/ TcpipTimeout \/ UNCHANGED nvars
  BY <1>2, <1>3, <1>4 DEF TransmissionEnds, DMA9000_ISRHandler, TcpipTimeout, nvars, chip,
     MakeReady, mvars
<1>5. CASE FrameArrives
  BY <1>2, <1>5 DEF FrameArrives
<1>6. ASSUME NEW t \in {"tcpip", "dhcp"}, ~rcr, DM9000_SendPacket(t)
      PROVE  owner' = owner
  <2>1. CASE TxLock(t)
    <3>1. OSMutexPend(t) /\ owner = "input"
      BY <1>1, <1>6, <2>1 DEF Forgotten, TxLock
    <3> QED
      BY <1>1, <3>1, PendCases
  <2>2. CASE TxUnlock(t)
    BY <1>6, <2>2, HeldUnlock DEF TxUnlock, chip
  <2>3. CASE TxMask(t) \/ TxStart(t) \/ TxPoll(t) \/ TxUnmask(t)
    BY <2>3 DEF TxMask, TxStart, TxPoll, TxUnmask, Step, mvars
  <2> QED
    BY <1>6, <2>1, <2>2, <2>3 DEF DM9000_SendPacket
<1>7. CASE Dhcp \/ DhcpStart
  <2>1. npc'["input"] = npc["input"] /\ rxFifo' = rxFifo /\ rcr' = rcr
    BY <1>1, <1>7, DhcpApart
  <2>2. ~rcr => owner' = owner
    BY <1>6, <1>7 DEF Dhcp, DhcpStart, DhcpIdle, DhcpSent, Step, Sleep, Wake, MakeReady, mvars
  <2> QED
    BY <1>2, <1>3, <2>1, <2>2 DEF Forgotten
<1>8. CASE Tcpip
  <2>1. npc'["input"] = npc["input"] /\ rxFifo' = rxFifo /\ rcr' = rcr
    BY <1>1, <1>8, TcpipApart
  <2>2. ~rcr => owner' = owner
    BY <1>6, <1>8 DEF Tcpip, TcpipFetch, RecvUdp, TcpipTransmit, TcpipSendFails, TcpipDone,
       Step, Sleep, MakeReady, mvars
  <2> QED
    BY <1>2, <1>3, <2>1, <2>2 DEF Forgotten
<1>9. CASE Udp \/ Ticks
  <2>1. npc'["input"] = npc["input"] /\ rxFifo' = rxFifo /\ rcr' = rcr
    BY <1>1, <1>9, UdpApart
  <2>2. owner' = owner
    BY <1>9 DEF Udp, Ticks, UdpNewBuf, UdpFill, UdpPostApi, UdpResult, UdpDelete, UdpNoFlag,
       UdpFetch, UdpDelay, UdpCopy, UdpDeleteReceived, UdpFetchTimeout, UdpDelayEnds, Wake,
       Step, Sleep, MakeReady, mvars
  <2> QED
    BY <1>2, <1>3, <2>1, <2>2 DEF Forgotten
<1>10. CASE ReadJunk
  <2>1. /\ Goto("input", "read", "sem") /\ Step("input") /\ rcr' = FALSE
        /\ rxFifo' = rxFifo /\ rxFifo # <<>> /\ Head(rxFifo).kind = "junk"
    BY <1>10 DEF ReadJunk
  <2>2. npc["input"] = "read" /\ npc'["input"] = "sem"
    BY <1>1, <2>1, GotoFacts
  <2>3. owner = "input" /\ owner' = owner
    BY <1>1, <2>1, <2>2, TasksKnown DEF NInv, ChipIsLocked, OnChip, Step, Runs, mvars
  <2> QED
    BY <2>1, <2>2, <2>3 DEF Forgotten
<1>11. CASE InputSem
  <2>1. /\ Goto("input", "sem", "lock")
        /\ Step("input") \/ Sleep("input")
        /\ UNCHANGED <<rcr, rxFifo>>
    BY <1>11 DEF InputSem, chip
  <2>2. npc'["input"] = "lock" /\ owner' = owner
    BY <1>1, <2>1, GotoFacts DEF Step, Sleep, mvars
  <2> QED
    BY <1>1, <2>1, <2>2 DEF Forgotten
<1>12. CASE InputLock
  <2>1. Goto("input", "lock", "read") /\ OSMutexPend("input") /\ UNCHANGED <<rcr, rxFifo>>
    BY <1>12 DEF InputLock, chip
  <2>2. npc'["input"] = "read" /\ (owner = "input" => owner' = "input")
    BY <1>1, <2>1, GotoFacts, PendCases
  <2> QED
    BY <1>1, <2>1, <2>2 DEF Forgotten
<1>13. CASE ReadFrame \/ ReadNothing \/ Rearm \/ CheckFrame \/ InputUnlock \/ InputDeliver
  <2>1. /\ UNCHANGED rcr
        /\ \/ npc["input"] \in {"rearm", "check", "unlock", "deliver"}
           \/ rxFifo = <<>> \/ Head(rxFifo).kind # "junk"
    BY <1>13 DEF ReadFrame, ReadNothing, Rearm, CheckFrame, InputUnlock, InputDeliver, Goto, chip
  <2>2. rcr
    BY <1>1, <2>1 DEF Forgotten
  <2> QED
    BY <1>2, <2>1, <2>2
<1> QED
  BY <1>4, <1>5, <1>7, <1>8, <1>9, <1>10, <1>11, <1>12, <1>13, NoOther DEF Input

\* A less urgent task runs while tcpip_thread waits for the chip only when the
\* receive task has forgotten to unlock it.
LEMMA ChipForgotten ==
  ASSUME BoxInv, NEW t \in {"input", "udp"}, Runs(t), owner # t, tstate["tcpip"] = "PEND"
  PROVE  ~rcr /\ owner = "input" /\ t = "udp"
<1>1. /\ NInv /\ Held /\ {"tcpip", "dhcp", "input", "udp"} = NetTask
  BY DEF BoxInv, WayInv, NetTask
<1>2. /\ owner \in {"dhcp", "input"} /\ prio[owner] <= 3 /\ prio[owner] \in Nat
  BY <1>1, PrioFacts DEF Held
<1>3. prio[t] \in Nat /\ prio[t] >= 4
  BY <1>1, PrioFacts DEF Held
<1>4. tstate[owner] # "RDY"
  <2> SUFFICES ASSUME tstate[owner] = "RDY" PROVE FALSE
    OBVIOUS
  <2>1. prio[t] <= prio[owner]
    BY <1>1, <1>2, TasksKnown DEF Runs
  <2> QED
    BY <1>2, <1>3, <2>1
<1> QED
  BY <1>1, <1>2, <1>4 DEF Held

\* While a less urgent task runs, tcpip_thread is not ready.
LEMMA TcpipWaits ==
  ASSUME BoxInv, NEW t \in {"input", "udp"}, Runs(t), owner # t
  PROVE  tstate["tcpip"] \in {"WAIT", "PEND"}
<1>1. NInv /\ Held /\ {"tcpip", "dhcp", "input", "udp"} = NetTask
  BY DEF BoxInv, WayInv, NetTask
<1>2. /\ prio["tcpip"] \in Nat /\ prio["tcpip"] <= 3 /\ prio[t] \in Nat /\ prio[t] >= 4
      /\ tstate["tcpip"] \in States
  BY <1>1, PrioFacts DEF Held
<1>3. tstate["tcpip"] # "RDY"
  <2> SUFFICES ASSUME tstate["tcpip"] = "RDY" PROVE FALSE
    OBVIOUS
  <2>1. prio[t] <= prio["tcpip"]
    BY <1>1, TasksKnown DEF Runs
  <2> QED
    BY <1>2, <2>1
<1> QED
  BY <1>2, <1>3 DEF States

\* Nothing enters the mailbox but a request while the chip is forgotten.
LEMMA UnfetchedStep == ASSUME BoxInv, [NNext]_nvars PROVE Unfetched'
<1>1. /\ NInv /\ WayInv /\ Held /\ Forgotten /\ Unfetched /\ TcpipAt /\ ApiAt
      /\ {"tcpip", "dhcp", "input", "udp"} = NetTask /\ tstate \in [NetTask -> States]
  BY PrioFacts DEF BoxInv, WayInv, NetTask
<1>2. CASE mbox = <<>> /\ mbox' = mbox
  BY <1>2 DEF Unfetched
<1>3. CASE /\ mbox # <<>> /\ mbox' = mbox /\ rcr' = rcr /\ npc'["udp"] = npc["udp"]
           /\ tstate'["tcpip"] = "PEND" /\ tstate'["udp"] = "WAIT"
  BY <1>1, <1>3 DEF Unfetched
<1>4. CASE FrameArrives \/ TransmissionEnds \/ DMA9000_ISRHandler \/ UNCHANGED nvars
  <2>1. /\ mbox' = mbox /\ rcr' = rcr /\ npc' = npc
        /\ UNCHANGED mvars \/ MakeReady("input")
    BY <1>4 DEF FrameArrives, TransmissionEnds, DMA9000_ISRHandler, nvars, chip, boxes
  <2>2. tstate'["tcpip"] = tstate["tcpip"] /\ tstate'["udp"] = tstate["udp"]
    BY <1>1, <2>1 DEF MakeReady, mvars
  <2> QED
    BY <1>1, <1>2, <1>3, <2>1, <2>2 DEF Unfetched
<1>5. CASE TcpipTimeout
  <2>1. tstate["tcpip"] = "WAIT" /\ mbox' = mbox
    BY <1>5 DEF TcpipTimeout, Waits
  <2> QED
    BY <1>1, <1>2, <2>1 DEF Unfetched
<1>6. CASE Tcpip
  <2>1. tstate["tcpip"] = "RDY"
    BY <1>1, <1>6, TcpipApart
  <2>2. mbox = <<>>
    BY <1>1, <2>1 DEF Unfetched
  <2>3. mbox' = mbox
    BY <1>6, <2>2 DEF Tcpip, TcpipFetch, RecvUdp, TcpipTransmit, TcpipSendFails, TcpipDone,
       DM9000_SendPacket, TxLock, TxMask, TxStart, TxPoll, TxUnmask, TxUnlock, boxes
  <2> QED
    BY <1>2, <2>2, <2>3
<1>7. CASE Dhcp \/ DhcpStart
  <2>1. mbox' = mbox /\ rcr' = rcr /\ npc'["udp"] = npc["udp"]
        /\ (tstate'["udp"] = "WAIT" <=> tstate["udp"] = "WAIT")
    BY <1>1, <1>7, DhcpApart DEF boxes
  <2>2. ASSUME ~rcr, tstate["tcpip"] = "PEND" PROVE tstate'["tcpip"] = "PEND"
    <3>1. CASE TxLock("dhcp")
      BY <1>1, <2>2, <3>1, PendCases DEF TxLock
    <3>2. CASE TxUnlock("dhcp")
      BY <2>2, <3>2, HeldUnlock DEF TxUnlock, chip
    <3>3. CASE ~TxLock("dhcp") /\ ~TxUnlock("dhcp")
      <4>1. Step("dhcp") \/ Sleep("dhcp") \/ MakeReady("dhcp")
        BY <1>7, <3>3 DEF Dhcp, DhcpStart, DhcpIdle, DhcpSent, DM9000_SendPacket, TxMask,
           TxStart, TxPoll, TxUnmask, Wake
      <4> QED
        BY <1>1, <2>2, <4>1 DEF Step, Sleep, MakeReady, mvars
    <3> QED
      BY <3>1, <3>2, <3>3
  <2> QED
    BY <1>1, <1>2, <1>3, <2>1, <2>2 DEF Unfetched
<1>8. CASE InputDeliver
  <2>1. /\ Runs("input") /\ npc["input"] = "deliver"
        /\ MboxPost(Inpkt(cur)) \/ UNCHANGED mbox
    BY <1>8 DEF InputDeliver, Goto, boxes
  <2>2. rcr
    BY <1>1, <2>1 DEF Forgotten
  <2>3. owner # "input"
    BY <1>1, <2>1, <2>2 DEF Held, OnChip
  <2>4. tstate["tcpip"] = "WAIT"
    BY <2>1, <2>2, <2>3, ChipForgotten, TcpipWaits
  <2>5. npc["tcpip"] = "handle" /\ mbox = <<>>
    BY <1>1, <2>4 DEF TcpipAt
  <2>6. mbox' = mbox
    BY <2>1, <2>4, <2>5 DEF MboxPost, Waits
  <2> QED
    BY <1>2, <2>5, <2>6
<1>9. CASE Input /\ ~InputDeliver
  <2>1. mbox' = mbox /\ npc'["udp"] = npc["udp"]
        /\ (tstate'["udp"] = "WAIT" <=> tstate["udp"] = "WAIT")
    BY <1>1, <1>9, InputApart DEF boxes
  <2>2. ASSUME ~rcr, tstate["tcpip"] = "PEND" PROVE rcr' = rcr /\ tstate'["tcpip"] = "PEND"
    <3>1. CASE InputLock
      BY <1>1, <2>2, <3>1, PendCases DEF InputLock, chip
    <3>2. CASE InputUnlock
      BY <1>1, <2>2, <3>2 DEF InputUnlock, Goto, Forgotten
    <3>3. CASE ~InputLock /\ ~InputUnlock
      <4>1. Step("input") \/ Sleep("input")
        BY <1>9, <3>3 DEF Input, InputSem, ReadFrame, ReadJunk, ReadNothing, Rearm, CheckFrame
      <4>2. rcr' = rcr \/ rcr' = FALSE
        BY <1>9, <3>3 DEF Input, InputSem, ReadFrame, ReadJunk, ReadNothing, Rearm, CheckFrame,
           chip
      <4>3. tstate'["tcpip"] = tstate["tcpip"]
        BY <1>1, <4>1 DEF Step, Sleep, mvars
      <4>4. rcr \in BOOLEAN
        BY <1>1 DEF WayInv, Flags
      <4> QED
        BY <2>2, <4>2, <4>3, <4>4
    <3> QED
      BY <3>1, <3>2, <3>3
  <2> QED
    BY <1>1, <1>2, <1>3, <2>1, <2>2 DEF Unfetched
<1>10. CASE UdpPostApi
  <2>1. /\ Runs("udp") /\ Goto("udp", "s_post", "s_result") /\ npc["udp"] = "s_post"
        /\ rcr' = rcr
        /\ \/ Waits("tcpip", "handle") /\ mbox' = mbox
           \/ /\ ~Waits("tcpip", "handle") /\ mbox' = Append(mbox, Api)
              /\ tstate' = [tstate EXCEPT !["udp"] = "WAIT"]
    BY <1>10 DEF UdpPostApi, Goto, chip, Queued
  <2>2. mbox = <<>>
    BY <1>1, <2>1 DEF Unfetched
  <2>3. CASE ~Waits("tcpip", "handle")
    <3>1. tstate["tcpip"] # "WAIT"
      BY <1>1, <2>3 DEF TcpipAt, Waits
    <3>2. tstate["tcpip"] = "PEND" /\ ~rcr
      BY <1>1, <2>1, <3>1, ChipForgotten, TcpipWaits DEF Held
    <3>3. npc'["udp"] = "s_result"
      BY <1>1, <2>1, GotoFacts
    <3>4. mbox' = <<Api>> /\ tstate'["udp"] = "WAIT" /\ tstate'["tcpip"] = "PEND"
      BY <1>1, <2>1, <2>2, <2>3, <3>2
    <3> QED
      BY <2>1, <3>2, <3>3, <3>4 DEF Unfetched
  <2> QED
    BY <1>2, <2>1, <2>2, <2>3
<1>11. CASE (Udp \/ Ticks) /\ ~UdpPostApi
  <2>1. mbox' = mbox
    BY <1>1, <1>11, UdpApart
  <2>2. tstate["udp"] = "RDY" \/ npc["udp"] \in {"r_got", "delayed"}
    BY <1>11 DEF Udp, Ticks, UdpNewBuf, UdpFill, UdpResult, UdpDelete, UdpNoFlag,
       UdpFetch, UdpDelay, UdpCopy, UdpDeleteReceived, UdpFetchTimeout, UdpDelayEnds, Goto,
       Step, Sleep, Runs
  <2>3. mbox = <<>>
    BY <1>1, <2>2 DEF Unfetched
  <2> QED
    BY <1>2, <2>1, <2>3
<1> QED
  BY <1>4, <1>5, <1>6, <1>7, <1>8, <1>9, <1>10, <1>11, NoOther

\* Every step of the network keeps the invariant of the mailbox.
LEMMA BoxStep == ASSUME BoxInv, [NNext]_nvars PROVE BoxInv'
<1>1. WayInv'
  BY WayStep DEF BoxInv
<1> QED
  BY <1>1, HeldStep, ForgottenStep, UnfetchedStep DEF BoxInv

\* The invariant of the mailbox and of the tasks that wait for the chip.
THEOREM BoxInvCorrect == NSpec => []BoxInv
  BY BoxInit, BoxStep, PTL DEF NSpec

\* sys_mbox_post finds room at its first attempt, however short the mailbox is
\* (sys_arch.c:53-64): tcpip_thread is more urgent than all that post to it, and
\* the one time it does not fetch, udp_thread waits for the answer.
THEOREM PostFindsRoomCorrect == NSpec => []PostFindsRoom
<1>1. BoxInv => PostFindsRoom
  <2> SUFFICES ASSUME BoxInv, npc["udp"] = "s_post" PROVE MboxTakes
    BY DEF PostFindsRoom
  <2>1. mbox = <<>>
    BY DEF BoxInv, Unfetched
  <2>2. Len(mbox) = 0 /\ MboxSize \in Nat \ {0}
    BY <2>1, NetworkAssumption
  <2> QED
    BY <2>2 DEF MboxTakes
<1> QED
  BY <1>1, BoxInvCorrect, PTL

\* What some entries of a bounded number take.
LEMMA Products ==
  ASSUME NEW a \in Nat, NEW b \in Nat, NEW n \in Nat, NEW c \in Nat, a + b <= n
  PROVE  a * c + b * c <= n * c
<1> DEFINE d == n - (a + b)
<1>1. d \in Nat /\ n = a + b + d
  OBVIOUS
<1> HIDE DEF d
<1>2. n * c = a * c + b * c + d * c /\ d * c \in Nat
  BY <1>1
<1>3. a * c \in Nat /\ b * c \in Nat
  OBVIOUS
<1> QED
  BY <1>2, <1>3

\* With room for the longest chains of two more frames than there are netbufs
\* (20 pbufs of which a frame takes three, two netbufs: lwipopts.h:16-17,
\* opt.h:324) a frame of any length finds its pbufs, and the loop of an odd
\* length (dm9000.c:388-392) is not entered: besides the netbufs only the message
\* that tcpip_thread handles holds pbufs while the chip is read.
THEOREM PbufsSufficeCorrect ==
  ASSUME NumPbuf >= (NumNetbuf + 2) * MaxChain
  PROVE  NSpec => []PbufsSuffice
<1>1. BoxInv => PbufsSuffice
  <2> SUFFICES ASSUME BoxInv, npc["input"] = "read" PROVE pbufFree >= MaxChain
    BY DEF PbufsSuffice
  <2>1. /\ WayInv /\ NTyped /\ InputAt /\ BuffersConserved
        /\ NumPbuf \in Nat /\ NumNetbuf \in Nat /\ MaxChain \in Nat
    BY NetworkAssumption DEF BoxInv, WayInv
  <2>2. cur.pbufs = 0
    BY <2>1, FrameFacts DEF InputAt
  <2>3. PbufsIn(FramesOf(mbox)) = 0
    <3>1. mbox = <<>> \/ mbox = Append(<<>>, Api)
      BY DEF BoxInv, Unfetched
    <3>2. <<>> \in Seq(Posts) /\ Api \in Posts /\ Api.frame.pbufs = 0
      BY PostFacts, FrameFacts
    <3>3. PbufsIn(FramesOf(Append(<<>>, Api))) = PbufsIn(FramesOf(<<>>)) + Api.frame.pbufs
      BY <3>2, QueueStep
    <3> QED
      BY <3>1, <3>2, <3>3, BoxedPbufs
  <2> DEFINE a == Len(recvmbox)
             b == Is(recvbuf # NoFrame)
             c == Is(sentbuf = "held")
             x == PbufsIn(recvmbox)
             y == recvbuf.pbufs
             z == hand.frame.pbufs
  <2>4. a \in Nat /\ b \in Nat /\ c \in Nat /\ netbufFree \in Nat /\ pbufFree \in Nat
    BY <2>1, CountFacts
  <2>5. x \in Nat /\ x <= a * MaxChain
    BY <2>1, PbufsBounded DEF NTyped
  <2>6. y \in Nat /\ y <= b * MaxChain
    <3>1. CASE recvbuf = NoFrame
      <4>1. y = 0 /\ b = 0
        BY <3>1, FrameFacts DEF Is
      <4> QED
        BY <2>1, <4>1
    <3>2. CASE recvbuf # NoFrame
      <4>1. y \in 0 .. MaxChain
        BY <2>1, <3>2, FrameFacts DEF NTyped, HaveChains
      <4>2. b = 1
        BY <3>2 DEF Is
      <4> QED
        BY <2>1, <4>1, <4>2
    <3> QED
      BY <3>1, <3>2
  <2>7. z \in Nat /\ z <= MaxChain
    <3>1. hand.frame \in Real \cup {NoFrame}
      BY <2>1, PostFacts DEF NTyped, Posts
    <3> QED
      BY <2>1, <3>1, FrameFacts DEF HaveChains
  <2>8. pbufFree + (0 + 0 + z + x + y) = NumPbuf
    BY <2>1, <2>2, <2>3 DEF BuffersConserved, Pbufs
  <2>9. netbufFree + (a + b + c) = NumNetbuf
    BY <2>1 DEF BuffersConserved, Netbufs
  <2> HIDE DEF a, b, c, x, y, z
  <2>10. a + b <= NumNetbuf
    BY <2>4, <2>9
  <2>11. a * MaxChain + b * MaxChain <= NumNetbuf * MaxChain
    BY <2>1, <2>4, <2>10, Products
  <2>12. /\ a * MaxChain \in Nat /\ b * MaxChain \in Nat /\ NumNetbuf * MaxChain \in Nat
         /\ (NumNetbuf + 2) * MaxChain = NumNetbuf * MaxChain + MaxChain + MaxChain
    BY <2>1, <2>4
  <2>13. x + y <= NumNetbuf * MaxChain
    BY <2>5, <2>6, <2>11, <2>12
  <2>14. NumPbuf >= NumNetbuf * MaxChain + MaxChain + MaxChain
    BY <2>12
  <2> QED
    BY <2>1, <2>4, <2>5, <2>6, <2>7, <2>8, <2>12, <2>13, <2>14
<1> QED
  BY <1>1, BoxInvCorrect, PTL

-----------------------------------------------------------------------------
(* What the waits of the network are for                                   *)

\* While the receiver runs, the owner of the chip is a sender or the receive
\* task between its two calls, and ready: who waits for the chip waits for a task
\* that goes on, and no circle of waits can close at the chip.
OwnerRuns ==
  rcr /\ owner # None => owner \in {"tcpip", "dhcp", "input"} /\ OnChip(owner) /\ tstate[owner] = "RDY"

\* The owner of dm9000lock blocks nowhere between OSMutexPend and OSMutexPost
\* (dm9000.c:300-352): DM9000_SendPacket polls, and the receive task posts to
\* tcpip_thread only after it has unlocked the chip.
THEOREM OwnerRunsCorrect == NSpec => []OwnerRuns
<1>1. BoxInv => OwnerRuns
  <2> SUFFICES ASSUME BoxInv, rcr, owner # None
               PROVE  /\ owner \in {"tcpip", "dhcp", "input"} /\ OnChip(owner)
                      /\ tstate[owner] = "RDY"
    BY DEF OwnerRuns
  <2>1. owner \in NetTask /\ owner # "udp"
    BY PrioFacts DEF BoxInv, WayInv, Held
  <2>2. owner \in {"tcpip", "dhcp", "input"}
    BY <2>1 DEF NetTask
  <2> QED
    BY <2>2 DEF BoxInv, Held
<1> QED
  BY <1>1, BoxInvCorrect, PTL

\* udp_thread waits for the end of its request.
AwaitsAnswer == npc["udp"] = "s_result" /\ tstate["udp"] = "WAIT"

\* The request it waits for is in tcpip_thread's hand or mailbox.
Asked == AwaitsAnswer => hand = Api \/ mbox # <<>>

\* A request is neither lost nor ended without an answer.
LEMMA AskedStep == ASSUME BoxInv, Asked, [NNext]_nvars PROVE Asked'
<1>1. /\ NInv /\ WayInv /\ Unfetched /\ TcpipAt /\ {"tcpip", "dhcp", "input", "udp"} = NetTask
      /\ tstate \in [NetTask -> States]
  BY PrioFacts DEF BoxInv, WayInv, NetTask
<1>2. CASE /\ hand' = hand /\ mbox' = mbox /\ npc'["udp"] = npc["udp"]
           /\ tstate'["udp"] = "WAIT" => tstate["udp"] = "WAIT"
  BY <1>2 DEF Asked, AwaitsAnswer
<1>3. CASE /\ hand # Api /\ mbox = <<>> /\ npc'["udp"] = npc["udp"]
           /\ tstate'["udp"] = "WAIT" => tstate["udp"] = "WAIT"
  BY <1>3 DEF Asked, AwaitsAnswer
<1>4. CASE FrameArrives \/ TransmissionEnds \/ DMA9000_ISRHandler \/ UNCHANGED nvars
           \/ Dhcp \/ DhcpStart \/ (Input /\ ~InputDeliver)
  BY <1>1, <1>2, <1>4, ChipApart, DhcpApart, InputApart DEF boxes
<1>5. tstate["tcpip"] = "WAIT" => hand # Api /\ mbox = <<>>
  BY <1>1, PostFacts DEF TcpipAt
<1>6. ASSUME MakeReady("tcpip") PROVE tstate'["udp"] = "WAIT" => tstate["udp"] = "WAIT"
  BY <1>1, <1>6 DEF MakeReady
<1>7. CASE TcpipTimeout
  <2>1. tstate["tcpip"] = "WAIT" /\ npc' = npc /\ MakeReady("tcpip")
    BY <1>7 DEF TcpipTimeout, Waits
  <2> QED
    BY <1>3, <1>5, <1>6, <2>1
<1>8. CASE InputDeliver
  <2>1. npc'["udp"] = npc["udp"]
    BY <1>1, <1>8, InputApart DEF Input
  <2>2. CASE Waits("tcpip", "handle") /\ MakeReady("tcpip")
    BY <1>3, <1>5, <1>6, <2>1, <2>2 DEF Waits
  <2>3. CASE mbox' = Append(mbox, Inpkt(cur))
    <3>1. mbox' # <<>>
      BY <1>1, <2>3 DEF Unfetched
    <3> QED
      BY <3>1 DEF Asked
  <2>4. CASE UNCHANGED <<tstate, hand, mbox>>
    BY <1>2, <2>1, <2>4
  <2> QED
    BY <1>8, <2>2, <2>3, <2>4 DEF InputDeliver, MboxPost, Queued, mvars, boxes
<1>9. CASE Tcpip
  <2>1. tstate["tcpip"] = "RDY" /\ npc'["udp"] = npc["udp"]
    BY <1>1, <1>9, TcpipApart
  <2>2. mbox = <<>>
    BY <1>1, <2>1 DEF Unfetched
  <2>3. CASE DM9000_SendPacket("tcpip")
    BY <1>1, <1>2, <2>1, <2>3, TransmitApart DEF boxes, SameWaits
  <2>4. CASE TcpipTransmit \/ TcpipSendFails
    BY <1>2, <2>1, <2>4 DEF TcpipTransmit, TcpipSendFails, Step, mvars, boxes
  <2>5. CASE TcpipFetch
    <3>1. npc["tcpip"] = "fetch" /\ Sleep("tcpip")
      BY <2>2, <2>5 DEF TcpipFetch, Goto
    <3>2. hand # Api
      BY <1>1, <3>1, PostFacts DEF TcpipAt
    <3>3. tstate'["udp"] = tstate["udp"]
      BY <1>1, <3>1 DEF Sleep
    <3> QED
      BY <1>3, <2>1, <2>2, <3>2, <3>3
  <2>6. ASSUME UNCHANGED mvars \/ MakeReady("udp"), hand # Api PROVE Asked'
    <3>1. tstate'["udp"] = "WAIT" => tstate["udp"] = "WAIT"
      BY <1>1, <2>6 DEF MakeReady, mvars
    <3> QED
      BY <1>3, <2>1, <2>2, <2>6, <3>1
  <2>7. CASE RecvUdp
    <3>1. UNCHANGED mvars \/ MakeReady("udp")
      BY <2>7 DEF RecvUdp
    <3>2. hand # Api
      BY <2>7, PostFacts DEF RecvUdp, IsInpkt
    <3> QED
      BY <2>6, <3>1, <3>2
  <2>8. CASE TcpipDone
    <3>1. CASE hand = Api
      <4>1. MakeReady("udp")
        BY <2>8, <3>1, PostFacts DEF TcpipDone, Api
      <4>2. tstate'["udp"] = "RDY"
        BY <1>1, <4>1 DEF MakeReady
      <4> QED
        BY <4>2 DEF Asked, AwaitsAnswer
    <3>2. CASE hand # Api
      <4>1. UNCHANGED mvars \/ MakeReady("udp")
        BY <2>8 DEF TcpipDone
      <4> QED
        BY <2>6, <3>2, <4>1
    <3> QED
      BY <3>1, <3>2
  <2> QED
    BY <1>9, <2>3, <2>4, <2>5, <2>7, <2>8 DEF Tcpip
<1>10. CASE UdpPostApi
  <2>1. hand' = Api \/ mbox' = Append(mbox, Api)
    BY <1>10 DEF UdpPostApi, Queued
  <2>2. hand' = Api \/ mbox' # <<>>
    BY <1>1, <2>1 DEF Unfetched
  <2> QED
    BY <2>2 DEF Asked
<1>11. CASE (Udp \/ Ticks) /\ ~UdpPostApi
  <2>1. PICK from, to \in {"s_fill", "s_post", "undefined", "s_delete", "r_fetch", "r_got", "loop",
                           "r_delay", "delayed", "r_delete", "s_result"} :
          Goto("udp", from, to) /\ to # "s_result"
    BY <1>11 DEF Udp, Ticks, UdpNewBuf, UdpFill, UdpResult, UdpDelete, UdpNoFlag,
       UdpFetch, UdpDelay, UdpCopy, UdpDeleteReceived, UdpFetchTimeout, UdpDelayEnds
  <2>2. npc'["udp"] # "s_result"
    BY <1>1, <2>1, GotoFacts
  <2> QED
    BY <2>2 DEF Asked, AwaitsAnswer
<1> QED
  BY <1>4, <1>7, <1>8, <1>9, <1>10, <1>11, NoOther

\* While tcpip_thread has a request of udp_thread in hand, and the receiver runs,
\* nothing keeps it from the chip.
Unhindered ==
  rcr /\ hand = Api =>
    owner \in {None, "tcpip"} /\ waiters = <<>> /\ tstate["tcpip"] = "RDY"

\* No other task runs then.
LEMMA OnlyTcpip ==
  ASSUME BoxInv, Unhindered, rcr, hand = Api, NEW t \in {"dhcp", "input", "udp"}
  PROVE  ~Runs(t)
<1>1. /\ NInv /\ MInv /\ Task = NetTask /\ {"tcpip", "dhcp", "input", "udp"} = NetTask
      /\ None \notin NetTask /\ BasePrio = NetPrio
  BY TasksKnown, PrioFacts, NetworkAssumption DEF BoxInv, WayInv, NInv, NetTask
<1>2. t \in NetTask /\ t # "tcpip" /\ t # owner /\ tstate["tcpip"] = "RDY"
  BY <1>1 DEF Unhindered
<1>3. prio[t] = NetPrio[t]
  BY <1>1, <1>2 DEF MInv, Inherits
<1>4. NetPrio[t] >= 4
  BY DEF NetPrio, NetTask
<1>5. prio["tcpip"] <= 3 /\ prio["tcpip"] \in Nat
  BY <1>1, PrioFacts
<1>6. Runs(t) => prio[t] <= prio["tcpip"]
  BY <1>1, <1>2 DEF Runs
<1>7. NetPrio[t] \in Nat
  BY DEF NetPrio, NetTask
<1> QED
  BY <1>3, <1>4, <1>5, <1>6, <1>7

\* While udp_thread, the least urgent, runs, the chip is free.
LEMMA ChipFree ==
  ASSUME BoxInv, Runs("udp"), rcr
  PROVE  owner = None /\ waiters = <<>>
<1>1. /\ NInv /\ MInv /\ Held /\ Task = NetTask /\ {"tcpip", "dhcp", "input", "udp"} = NetTask
  BY TasksKnown DEF BoxInv, WayInv, NInv, NetTask
<1>2. ASSUME NEW t \in {"tcpip", "dhcp", "input"}, owner = t PROVE FALSE
  <2>1. tstate[t] = "RDY"
    BY <1>1, <1>2 DEF Held
  <2>2. prio["udp"] <= prio[t]
    BY <1>1, <2>1 DEF Runs
  <2>3. prio["udp"] = 6 /\ prio[t] \in Nat /\ prio[t] <= 4
    BY <1>1, <1>2, PrioFacts
  <2> QED
    BY <2>2, <2>3
<1>3. owner = None
  BY <1>1, <1>2, PrioFacts DEF Held
<1> QED
  BY <1>1, <1>3 DEF MInv, ListExact

\* A request comes into tcpip_thread's hand when the chip is free, and until it
\* is answered no other task gets as far as to lock it.
LEMMA UnhinderedStep == ASSUME BoxInv, Unhindered, [NNext]_nvars PROVE Unhindered'
<1>1. /\ NInv /\ WayInv /\ Unfetched /\ TcpipAt /\ {"tcpip", "dhcp", "input", "udp"} = NetTask
      /\ tstate \in [NetTask -> States] /\ nest \in Nat /\ (nest = 0 <=> owner = None)
  BY PrioFacts DEF BoxInv, WayInv, NetTask
<1> SUFFICES ASSUME rcr', hand' = Api
             PROVE  owner' \in {None, "tcpip"} /\ waiters' = <<>> /\ tstate'["tcpip"] = "RDY"
  BY DEF Unhindered
<1>2. CASE /\ rcr /\ hand = Api
           /\ \/ UNCHANGED mvars
              \/ \E t \in {"dhcp", "input", "udp"} : MakeReady(t)
  BY <1>1, <1>2 DEF Unhindered, MakeReady, mvars
<1>3. CASE FrameArrives \/ TransmissionEnds \/ DMA9000_ISRHandler \/ UNCHANGED nvars
  <2>1. rcr' = rcr /\ hand' = hand /\ (UNCHANGED mvars \/ MakeReady("input"))
    BY <1>3 DEF FrameArrives, TransmissionEnds, DMA9000_ISRHandler, nvars, chip, boxes
  <2> QED
    BY <1>2, <2>1
<1>4. CASE Ticks \/ DhcpStart
  <2>1. rcr' = rcr /\ hand' = hand /\ (MakeReady("udp") \/ MakeReady("dhcp"))
    BY <1>4 DEF Ticks, UdpFetchTimeout, UdpDelayEnds, DhcpStart, Wake, chip, boxes
  <2> QED
    BY <1>2, <2>1
<1>5. CASE TcpipTimeout
  BY <1>5, PostFacts DEF TcpipTimeout
<1>6. CASE Dhcp
  <2>1. rcr' = rcr /\ hand' = hand
    BY <1>1, <1>6, DhcpApart DEF boxes
  <2>2. Runs("dhcp")
    BY <1>6 DEF Dhcp, DhcpIdle, DhcpSent, DM9000_SendPacket, TxLock, TxMask, TxStart, TxPoll,
       TxUnmask, TxUnlock, Step, Sleep, OSMutexPend, OSMutexPost
  <2> QED
    BY <2>1, <2>2, OnlyTcpip
<1>7. CASE Input
  <2>1. Runs("input") /\ (rcr' = rcr \/ rcr' = FALSE)
    BY <1>7 DEF Input, InputSem, InputLock, ReadFrame, ReadJunk, ReadNothing, Rearm, CheckFrame,
       InputUnlock, InputDeliver, Step, Sleep, OSMutexPend, OSMutexPost, chip
  <2>2. rcr
    BY <2>1, Zenon
  <2>3. hand # Api
    BY <2>1, <2>2, OnlyTcpip
  <2>4. hand' = hand \/ hand' = Inpkt(cur)
    BY <1>1, <1>7, InputApart DEF InputDeliver, MboxPost, boxes
  <2>5. Inpkt(cur) # Api
    BY PostFacts DEF Inpkt
  <2> QED
    BY <2>3, <2>4, <2>5
<1>8. CASE Tcpip
  <2>1. tstate["tcpip"] = "RDY" /\ rcr' = rcr
    BY <1>1, <1>8, TcpipApart
  <2>2. mbox = <<>>
    BY <1>1, <2>1 DEF Unfetched
  <2>3. CASE RecvUdp \/ TcpipDone
    BY <2>3, PostFacts DEF RecvUdp, TcpipDone
  <2>4. CASE TcpipFetch
    <3>1. npc["tcpip"] = "fetch" /\ hand' = hand
      BY <2>2, <2>4 DEF TcpipFetch, Goto
    <3> QED
      BY <1>1, <3>1, PostFacts DEF TcpipAt
  <2>5. CASE TcpipTransmit \/ TcpipSendFails
    <3>1. hand' = hand /\ UNCHANGED mvars
      BY <2>5 DEF TcpipTransmit, TcpipSendFails, Step, boxes
    <3> QED
      BY <1>2, <2>1, <3>1
  <2>6. CASE DM9000_SendPacket("tcpip")
    <3>1. hand' = hand
      BY <1>1, <2>6, TransmitApart DEF boxes
    <3>2. /\ owner \in {None, "tcpip"} /\ waiters = <<>>
      BY <2>1, <3>1 DEF Unhindered
    <3>3. CASE TxLock("tcpip")
      <4>1. Take("tcpip") \/ TakeAgain("tcpip") \/ Block("tcpip")
        BY <3>3 DEF TxLock, OSMutexPend
      <4>2. ~Block("tcpip")
        BY <1>1, <3>2 DEF Block
      <4>3. owner' \in {owner, "tcpip"} /\ waiters' = waiters /\ tstate' = tstate
        BY <4>1, <4>2 DEF Take, TakeAgain
      <4> QED
        BY <2>1, <3>2, <4>3
    <3>4. CASE TxUnlock("tcpip")
      <4>1. UNCHANGED mvars \/ Unnest \/ Free
        BY <3>2, <3>4 DEF TxUnlock, OSMutexPost, HandOver
      <4>2. owner' \in {owner, None} /\ waiters' = waiters /\ tstate' = tstate
        BY <4>1 DEF Unnest, Free, mvars
      <4> QED
        BY <2>1, <3>2, <4>2
    <3>5. CASE ~TxLock("tcpip") /\ ~TxUnlock("tcpip")
      <4>1. Step("tcpip")
        BY <2>6, <3>5 DEF DM9000_SendPacket, TxMask, TxStart, TxPoll, TxUnmask
      <4> QED
        BY <1>2, <2>1, <3>1, <4>1 DEF Step
    <3> QED
      BY <3>3, <3>4, <3>5
  <2> QED
    BY <1>8, <2>3, <2>4, <2>5, <2>6 DEF Tcpip
<1>9. CASE UdpPostApi
  <2>1. Runs("udp") /\ rcr
    BY <1>9 DEF UdpPostApi, chip
  <2>2. owner = None /\ waiters = <<>> /\ hand # Api
    BY <2>1, ChipFree, OnlyTcpip
  <2>3. CASE Waits("tcpip", "handle")
    <3>1. tstate' = [tstate EXCEPT !["tcpip"] = "RDY", !["udp"] = "WAIT"]
          /\ UNCHANGED <<owner, waiters>>
      BY <1>9, <2>3 DEF UdpPostApi
    <3> QED
      BY <1>1, <2>2, <3>1
  <2>4. CASE ~Waits("tcpip", "handle")
    BY <1>9, <2>2, <2>4 DEF UdpPostApi
  <2> QED
    BY <2>3, <2>4
<1>10. CASE Udp /\ ~UdpPostApi
  <2>1. rcr' = rcr /\ hand' = hand
    BY <1>1, <1>10, UdpApart
  <2>2. Runs("udp")
    BY <1>10 DEF Udp, UdpNewBuf, UdpFill, UdpResult, UdpDelete, UdpNoFlag, UdpFetch, UdpDelay,
       UdpCopy, UdpDeleteReceived, Step, Sleep
  <2> QED
    BY <2>1, <2>2, OnlyTcpip
<1> QED
  BY <1>3, <1>4, <1>5, <1>6, <1>7, <1>8, <1>9, <1>10, NoOther

\* While udp_thread waits for the end of a request and the receiver runs,
\* tcpip_thread has the request in hand, past its mailbox, and goes on: it waits
\* neither for a message nor for the chip, which no other task locks meanwhile.
AnswerComes ==
  AwaitsAnswer /\ rcr =>
    /\ hand = Api /\ npc["tcpip"] # "fetch" /\ tstate["tcpip"] = "RDY"
    /\ owner \in {None, "tcpip"} /\ \A t \in NetTask : tstate[t] # "PEND"

\* netconn_send never waits for an answer that nobody owes it (api_lib.c,
\* tcpip.c:317-318), nor for a transmission or a reception of another task: the
\* part of its return that is a safety property.
THEOREM AnswerComesCorrect == NSpec => []AnswerComes
<1>1. NInit => BoxInv /\ Asked /\ Unhindered
  <2> SUFFICES ASSUME NInit PROVE BoxInv /\ Asked /\ Unhindered
    OBVIOUS
  <2>1. npc["udp"] = "loop" /\ hand # Api
    BY PostFacts DEF NInit, NetTask
  <2> QED
    BY <2>1, BoxInit DEF Asked, AwaitsAnswer, Unhindered
<1>2. BoxInv /\ Asked /\ Unhindered /\ [NNext]_nvars => (BoxInv /\ Asked /\ Unhindered)'
  BY BoxStep, AskedStep, UnhinderedStep
<1>3. BoxInv /\ Asked /\ Unhindered => AnswerComes
  <2> SUFFICES ASSUME BoxInv, Asked, Unhindered, AwaitsAnswer, rcr
               PROVE  /\ hand = Api /\ npc["tcpip"] # "fetch" /\ tstate["tcpip"] = "RDY"
                      /\ owner \in {None, "tcpip"} /\ \A t \in NetTask : tstate[t] # "PEND"
    BY DEF AnswerComes
  <2>1. MInv /\ Task = NetTask /\ Unfetched /\ TcpipAt
    BY TasksKnown DEF BoxInv, WayInv, NInv
  <2>2. hand = Api
    BY <2>1 DEF Asked, Unfetched
  <2>3. npc["tcpip"] # "fetch"
    BY <2>1, <2>2, PostFacts DEF TcpipAt
  <2>4. \A t \in NetTask : tstate[t] # "PEND"
    BY <2>1, <2>2 DEF Unhindered, MInv, ListExact, Range
  <2> QED
    BY <2>2, <2>3, <2>4 DEF Unhindered
<1> QED
  BY <1>1, <1>2, <1>3, PTL DEF NSpec

\* A frame in the chip has the interrupt pending, a signal left, or the receive
\* task on its way to look at the chip once more.
Announced ==
  rcr /\ rxFifo # <<>> =>
    \/ prs \/ semCtr > 0
    \/ npc["input"] = "lock" /\ tstate["input"] # "WAIT"
    \/ npc["input"] \in {"read", "check", "deliver"}
    \/ npc["input"] = "unlock" /\ cur # NoFrame

\* The receive task waits for its semaphore only when no signal is left.
Attentive == npc["input"] = "lock" /\ tstate["input"] = "WAIT" => semCtr = 0

\* The steps of the others leave both as they are.
LEMMA AttentionApart ==
  ASSUME Announced, Attentive, UNCHANGED <<rcr, rxFifo, prs, semCtr, cur>>,
         npc'["input"] = npc["input"], tstate'["input"] = "WAIT" <=> tstate["input"] = "WAIT"
  PROVE  Announced' /\ Attentive'
  BY DEF Announced, Attentive

\* The receive task finds the frames and spends the signals one by one.
LEMMA AttentionOfInput ==
  ASSUME BoxInv, PbufsSuffice, Announced, Attentive, Input
  PROVE  Announced' /\ Attentive'
<1>1. /\ NInv /\ WayInv /\ InputAt /\ NTyped /\ {"tcpip", "dhcp", "input", "udp"} = NetTask
      /\ tstate \in [NetTask -> States] /\ semCtr \in Nat
  BY PrioFacts DEF BoxInv, WayInv, NetTask, Signals
<1>2. prs' = prs
  BY <1>1, InputApart
<1>3. CASE InputSem
  <2>1. /\ Goto("input", "sem", "lock") /\ UNCHANGED <<rcr, rxFifo>>
        /\ \/ semCtr > 0 /\ Step("input")
           \/ ~(semCtr > 0) /\ Sleep("input") /\ semCtr' = semCtr
    BY <1>3 DEF InputSem, chip
  <2>2. npc["input"] = "sem" /\ npc'["input"] = "lock"
    BY <1>1, <2>1, GotoFacts
  <2>3. CASE Step("input")
    <3>1. tstate'["input"] = "RDY"
      BY <2>3 DEF Step, Runs, mvars
    <3> QED
      BY <2>2, <3>1 DEF Announced, Attentive
  <2>4. CASE ~(semCtr > 0) /\ semCtr' = semCtr
    <3>1. semCtr' = 0
      BY <1>1, <2>4
    <3>2. rcr /\ rxFifo # <<>> => prs
      BY <2>2, <2>4 DEF Announced
    <3> QED
      BY <1>2, <2>1, <3>1, <3>2 DEF Announced, Attentive
  <2> QED
    BY <2>1, <2>3, <2>4
<1>4. ASSUME npc'["input"] \in {"read", "check", "deliver"} PROVE Announced' /\ Attentive'
  BY <1>4 DEF Announced, Attentive
<1>5. CASE InputLock
  <2>1. Goto("input", "lock", "read")
    BY <1>5 DEF InputLock
  <2> QED
    BY <1>1, <1>4, <2>1, GotoFacts
<1>6. CASE ReadFrame
  <2>1. npc["input"] = "read" /\ \E to : Goto("input", "read", to)
    BY <1>6, Zenon DEF ReadFrame, Goto
  <2>2. pbufFree >= MaxChain /\ pbufFree \in Nat /\ MaxChain \in Nat
    BY <1>1, <2>1, NetworkAssumption DEF PbufsSuffice, NTyped
  <2>3. Head(rxFifo) \in Real
    BY <1>1, <1>6, HeadTailProperties DEF ReadFrame, NTyped
  <2>5. Head(rxFifo).pbufs \in 0 .. MaxChain
    BY <2>3, FrameFacts DEF HaveChains
  <2>6. ChainFree
    BY <2>2, <2>5 DEF ChainFree
  <2>4. Goto("input", "read", "check")
    BY <1>6, <2>6 DEF ReadFrame
  <2> QED
    BY <1>1, <1>4, <2>4, GotoFacts
<1>7. CASE ReadJunk
  <2>1. Goto("input", "read", "sem") /\ rcr' = FALSE
    BY <1>7 DEF ReadJunk
  <2>2. npc'["input"] = "sem"
    BY <1>1, <2>1, GotoFacts
  <2> QED
    BY <2>1, <2>2 DEF Announced, Attentive
<1>8. CASE ReadNothing
  <2>1. Goto("input", "read", "rearm") /\ rxFifo = <<>> /\ rxFifo' = rxFifo
    BY <1>8 DEF ReadNothing, chip
  <2>2. npc'["input"] = "rearm"
    BY <1>1, <2>1, GotoFacts
  <2> QED
    BY <2>1, <2>2 DEF Announced, Attentive
<1>9. ASSUME npc["input"] = "rearm" \/ (npc["input"] = "unlock" /\ cur = NoFrame),
             npc'["input"] \in {"unlock", "sem"}, UNCHANGED <<rcr, rxFifo, semCtr>>
      PROVE  Announced' /\ Attentive'
  BY <1>2, <1>9 DEF Announced, Attentive
<1>10. CASE Rearm
  <2>1. Goto("input", "rearm", "unlock") /\ UNCHANGED <<rcr, rxFifo, semCtr>>
    BY <1>10 DEF Rearm, input
  <2>2. npc["input"] = "rearm" /\ npc'["input"] = "unlock"
    BY <1>1, <2>1, GotoFacts
  <2> QED
    BY <1>9, <2>1, <2>2
<1>11. CASE CheckFrame
  <2>1. \/ Goto("input", "check", "read")
        \/ Goto("input", "check", "unlock") /\ cur' = cur
    BY <1>11 DEF CheckFrame
  <2>2. CASE Goto("input", "check", "read")
    BY <1>1, <1>4, <2>2, GotoFacts
  <2>3. CASE Goto("input", "check", "unlock") /\ cur' = cur
    <3>1. npc["input"] = "check" /\ npc'["input"] = "unlock"
      BY <1>1, <2>3, GotoFacts
    <3>2. cur' # NoFrame
      BY <1>1, <2>3, <3>1 DEF InputAt
    <3> QED
      BY <3>1, <3>2 DEF Announced, Attentive
  <2> QED
    BY <2>1, <2>2, <2>3
<1>12. CASE InputUnlock
  <2>1. /\ Goto("input", "unlock", IF cur = NoFrame THEN "sem" ELSE "deliver")
        /\ UNCHANGED <<rcr, rxFifo, semCtr>>
    BY <1>12 DEF InputUnlock, chip, input
  <2>2. npc["input"] = "unlock" /\ npc'["input"] = IF cur = NoFrame THEN "sem" ELSE "deliver"
    BY <1>1, <2>1, GotoFacts
  <2>3. CASE cur = NoFrame
    BY <1>9, <2>1, <2>2, <2>3
  <2>4. CASE cur # NoFrame
    BY <1>4, <2>2, <2>4
  <2> QED
    BY <2>3, <2>4
<1>13. CASE InputDeliver
  <2>1. /\ Goto("input", "deliver", "lock") /\ tstate["input"] = "RDY"
        /\ tstate' = tstate \/ tstate' = [tstate EXCEPT !["tcpip"] = "RDY"]
    BY <1>13 DEF InputDeliver, Runs, MboxPost, MakeReady, mvars
  <2>2. npc'["input"] = "lock" /\ tstate'["input"] # "WAIT"
    BY <1>1, <2>1, GotoFacts
  <2> QED
    BY <2>2 DEF Announced, Attentive
<1> QED
  BY <1>3, <1>5, <1>6, <1>7, <1>8, <1>10, <1>11, <1>12, <1>13 DEF Input

\* No step of the network lets a frame be forgotten.
LEMMA AttentionStep ==
  ASSUME ~PostMayDrop, BoxInv, PbufsSuffice, Announced, Attentive, [NNext]_nvars
  PROVE  Announced' /\ Attentive'
<1>1. /\ NInv /\ WayInv /\ {"tcpip", "dhcp", "input", "udp"} = NetTask
      /\ tstate \in [NetTask -> States] /\ semCtr \in Nat
  BY PrioFacts DEF BoxInv, WayInv, NetTask, Signals
<1>2. CASE FrameArrives
  <2>1. prs' = TRUE /\ npc' = npc /\ tstate' = tstate /\ semCtr' = semCtr
    BY <1>2 DEF FrameArrives, mvars, input
  <2> QED
    BY <2>1 DEF Announced, Attentive
<1>3. CASE DMA9000_ISRHandler
  <2>1. CASE /\ tstate["input"] = "WAIT" /\ npc["input"] = "lock" /\ MakeReady("input")
             /\ npc' = npc
    <3>1. tstate'["input"] = "RDY" /\ npc'["input"] = "lock"
      BY <1>1, <2>1 DEF MakeReady
    <3> QED
      BY <3>1 DEF Announced, Attentive
  <2>2. CASE /\ ~(tstate["input"] = "WAIT" /\ npc["input"] = "lock") /\ semCtr' = semCtr + 1
             /\ tstate' = tstate /\ npc' = npc
    <3>1. semCtr' > 0
      BY <1>1, <2>2
    <3> QED
      BY <2>2, <3>1 DEF Announced, Attentive
  <2> QED
    BY <1>3, <2>1, <2>2 DEF DMA9000_ISRHandler, mvars
<1>4. CASE TransmissionEnds \/ UNCHANGED nvars
  <2>1. UNCHANGED <<rcr, rxFifo, prs, semCtr, cur, npc, tstate>>
    BY <1>4 DEF TransmissionEnds, nvars, mvars, chip, input
  <2> QED
    BY <2>1, AttentionApart
<1>5. CASE TcpipTimeout
  <2>1. UNCHANGED <<rcr, rxFifo, prs, semCtr, cur, npc>> /\ MakeReady("tcpip")
    BY <1>5 DEF TcpipTimeout, chip, input
  <2>2. tstate'["input"] = tstate["input"]
    BY <1>1, <2>1 DEF MakeReady
  <2> QED
    BY <2>1, <2>2, AttentionApart
<1>6. CASE Dhcp \/ DhcpStart
  <2>1. /\ npc'["input"] = npc["input"]
        /\ tstate'["input"] = "WAIT" <=> tstate["input"] = "WAIT"
        /\ UNCHANGED <<rcr, rxFifo, prs, semCtr, cur>>
    BY <1>1, <1>6, DhcpApart DEF input
  <2> QED
    BY <2>1, AttentionApart
<1>7. CASE Tcpip
  <2>1. npc'["input"] = npc["input"] /\ UNCHANGED <<rcr, rxFifo, prs, semCtr, cur>>
    BY <1>1, <1>7, TcpipApart DEF input
  <2>2. tstate'["input"] = "WAIT" <=> tstate["input"] = "WAIT"
    <3>1. CASE DM9000_SendPacket("tcpip")
      BY <1>1, <3>1, TransmitApart DEF SameWaits
    <3>2. CASE ~DM9000_SendPacket("tcpip")
      <4>1. Step("tcpip") \/ Sleep("tcpip") \/ UNCHANGED mvars \/ MakeReady("udp")
        BY <1>7, <3>2 DEF Tcpip, TcpipFetch, RecvUdp, TcpipTransmit, TcpipSendFails, TcpipDone
      <4> QED
        BY <1>1, <4>1 DEF Step, Sleep, MakeReady, mvars
    <3> QED
      BY <3>1, <3>2
  <2> QED
    BY <2>1, <2>2, AttentionApart
<1>8. CASE Udp \/ Ticks
  <2>1. npc'["input"] = npc["input"] /\ UNCHANGED <<rcr, rxFifo, prs, semCtr, cur>>
    BY <1>1, <1>8, UdpApart DEF input
  <2>2. tstate'["input"] = "WAIT" <=> tstate["input"] = "WAIT"
    <3>1. CASE UdpPostApi
      <4>1. \/ /\ Waits("tcpip", "handle")
               /\ tstate' = [tstate EXCEPT !["tcpip"] = "RDY", !["udp"] = "WAIT"]
            \/ tstate' = [tstate EXCEPT !["udp"] = "WAIT"]
        BY <3>1 DEF UdpPostApi
      <4> QED
        BY <1>1, <4>1
    <3>2. CASE ~UdpPostApi
      BY <1>1, <1>8, <3>2, UdpApart
    <3> QED
      BY <3>1, <3>2
  <2> QED
    BY <2>1, <2>2, AttentionApart
<1> QED
  BY <1>2, <1>3, <1>4, <1>5, <1>6, <1>7, <1>8, AttentionOfInput, NoOther

\* While the receive task waits for its semaphore and the receiver runs, a frame
\* in the chip has its interrupt pending, which is enabled or will be by the task
\* that transmits.
FrameAnnounced ==
  rcr /\ rxFifo # <<>> /\ Waits("input", "lock") => prs /\ (imr \/ \E t \in Task : Sending(t))

\* No frame is left in the chip unannounced between the last look at the chip and
\* the wait for the semaphore (dm9000.c:411-417, ethernetif.c:49), as long as no
\* deferred post is dropped and the pbufs suffice for two more frames than netbufs.
THEOREM FrameAnnouncedCorrect ==
  ASSUME ~PostMayDrop, NumPbuf >= (NumNetbuf + 2) * MaxChain
  PROVE  NSpec => []FrameAnnounced
<1>1. NInit => Announced /\ Attentive
  <2> SUFFICES ASSUME NInit PROVE Announced /\ Attentive
    OBVIOUS
  <2>1. rxFifo = <<>> /\ semCtr = 0
    BY DEF NInit
  <2> QED
    BY <2>1 DEF Announced, Attentive
<1>2. BoxInv /\ PbufsSuffice /\ Announced /\ Attentive /\ [NNext]_nvars => (Announced /\ Attentive)'
  BY AttentionStep
<1>3. BoxInv /\ Announced /\ Attentive => FrameAnnounced
  <2> SUFFICES ASSUME BoxInv, Announced, Attentive, rcr, rxFifo # <<>>, Waits("input", "lock")
               PROVE  prs /\ (imr \/ \E t \in Task : Sending(t))
    BY DEF FrameAnnounced
  <2>1. semCtr = 0
    BY DEF Attentive, Waits
  <2>2. prs
    BY <2>1 DEF Announced, Waits
  <2>3. DeafOnlyWhileSending
    BY DEF BoxInv, WayInv, NInv
  <2> QED
    BY <2>2, <2>3 DEF DeafOnlyWhileSending
<1>4. NSpec => []PbufsSuffice
  BY PbufsSufficeCorrect
<1> QED
  BY <1>1, <1>2, <1>3, <1>4, BoxInvCorrect, PTL DEF NSpec
=============================================================================
