------------------------------ MODULE Monitor ------------------------------
(***************************************************************************)
(* The temperature monitor: the application tasks of UCOSTASK/task.c, the  *)
(* UDP thread of LWIP/lwip_app/udp_u.c and the key interrupt of            *)
(* HARDWARE/EXTI/exti.c, composed with the kernel of module Ucos, from the *)
(* moment the interface has its address on: commands arrive from then on,  *)
(* dhcp_start_task creates the tasks that handle them up to 350 ms later.  *)
(*                                                                         *)
(* Messages are pointers: what a task reads through one is the content of  *)
(* the buffer at that moment.  Every step makes at most one kernel call,   *)
(* so that interrupts fall between any two.                                *)
(***************************************************************************)
EXTENDS Ucos

CONSTANTS
  Temps,      \* temperatures, in the unit of Get_Temprate
  Orders,     \* the commands that may arrive in datagrams
  SendMayFail, \* whether netconn_send may report an error
  Limits,     \* the pairs <<LIMIT_MIN, LIMIT_MAX>> in use
  InitLimits, \* the one at start-up
  MaxOrders,  \* bound: commands received
  MaxKeys,    \* bound: key interrupts with KEY_UP = 1
  MaxTicks,   \* bound: ticks that meet a locked scheduler
  MaxFlips,   \* bound: changes of the measured temperature
  MaxEvents   \* bound: all of these together

\* The tasks, and their priorities as they are passed to OSTaskCreate.
Tasks == {"boot", "order", "send", "udp", "cap", "check", "display"}

\* Mutant: send_udp_task is as urgent as the tasks it serves.
TaskPrioSendLow == [t \in Tasks |->
  CASE t \in {"boot", "order"} -> 5 [] t = "udp" -> 6 [] OTHER -> 7]

\* Mutant: order_handle_task is less urgent than udp_thread.
TaskPrioOrderLow == [t \in Tasks |->
  CASE t = "boot" -> 5 [] t \in {"send", "udp"} -> 6 [] OTHER -> 7]

TaskPrio == [t \in Tasks |->
  CASE t \in {"boot", "order"} -> 5
    [] t \in {"send", "udp"} -> 6
    [] t \in {"cap", "check", "display"} -> 7]

\* DATA_Msg and ORDER_Msg as start_task creates them.
QueueSize == [q \in {"DATA", "ORDER"} |-> IF q = "DATA" THEN 5 ELSE 10]

Pointers == {"capBuf", "recvBuf", "OVER", "RECO"}

\* What suspend_task and recovery_task post when the key interrupt calls them.
KeySuspends == <<[type |-> "SUSPEND", obj |-> "display", msg |-> None],
                 [type |-> "Q", obj |-> "DATA", msg |-> "OVER"]>>
KeyRecovers == <<[type |-> "Q", obj |-> "DATA", msg |-> "RECO"],
                 [type |-> "RESUME", obj |-> "display", msg |-> None]>>
TickPost    == <<[type |-> "TICK", obj |-> None, msg |-> None]>>

\* The text of a reading ("%d") and of the commands t, s, o and q.
Readings == {<<"reading", n>> : n \in Temps}
Commands == {<<"t", l>> : l \in Limits} \cup {<<"s">>, <<"o">>}
              \cup {<<"q", n>> : n \in Temps}
NoText   == <<"">>

ASSUME MonitorAssumption ==
  /\ Task = Tasks /\ Prio = TaskPrio
  /\ Queue = {"DATA", "ORDER"} /\ Sem = {"SYN"}
  /\ Msg = Pointers
  /\ IsrPosts = {KeySuspends, KeyRecovers, TickPost}
  /\ Temps \subseteq Int /\ Temps # {}
  /\ Orders \subseteq Commands
  /\ Limits \subseteq Int \X Int /\ InitLimits \in Limits
  /\ {MaxOrders, MaxKeys, MaxTicks, MaxFlips, MaxEvents} \subseteq Nat
  /\ SendMayFail \in BOOLEAN
  /\ SemMax > 0

VARIABLES
  pc,          \* where each task is in its loop
  capBuf,      \* cap_temp_task's buf[10]
  recvBuf,     \* udp_recvbuf
  unsent,      \* udp_sendbuf holds text that was not transmitted yet
  sendFlag,    \* udp_flag & LWIP_SEND_DATA
  temp,        \* check_temp_task's local temp
  limits,      \* <<LIMIT_MIN, LIMIT_MAX>>
  isHotOver,
  isDormancy,
  dhcpstatus,  \* lwipdev.dhcpstatus: 0, then what dhcp_start_task waits for
  adc,         \* the temperature Get_Temprate would return now
  orders, keys, ticks, flips  \* how much of each bound is used

dataVars == <<capBuf, recvBuf, unsent, sendFlag, temp, limits, isHotOver, isDormancy>>
envVars  == <<dhcpstatus, adc, orders, keys, ticks, flips>>
vars     == <<kvars, pc, dataVars, envVars>>

Text(p) == CASE p = "capBuf" -> capBuf
             [] p = "recvBuf" -> recvBuf
             [] OTHER -> <<p>>

\* tcpip_thread has just bound the address (before it ip_input drops every
\* datagram): start_task has posted SYN once, udp_thread and dhcp_start_task run,
\* the other tasks do not exist yet.  check_temp_task's temp starts uninitialised.
Init ==
  /\ KInit /\ semCtr = [s \in Sem |-> 1]
  /\ tstate = [t \in Tasks |-> IF t \in {"boot", "udp"} THEN "RDY" ELSE "NONE"]
  /\ pc = [t \in Tasks |-> IF t \in {"boot", "udp"} THEN "poll" ELSE "pend"]
  /\ dhcpstatus = 0
  /\ capBuf = NoText /\ unsent = FALSE /\ sendFlag = FALSE
  /\ recvBuf = NoText
  /\ temp \in Temps
  /\ limits = InitLimits
  /\ isHotOver = 0 /\ isDormancy = 0
  /\ adc \in Temps
  /\ orders = 0 /\ keys = 0 /\ ticks = 0 /\ flips = 0

\* The bound on the events of the environment leaves room for one more.
AnotherEvent == orders + keys + ticks + flips < MaxEvents

Goto(t, from, to) == pc[t] = from /\ pc' = [pc EXCEPT ![t] = to]

-----------------------------------------------------------------------------
(* suspend_task and recovery_task, called by boot, order and check         *)

\* Mutant: dhcp_start_task starts over after suspend_task.
ReturnToLoop(t) == "pend"

Return(t) == IF t = "boot" THEN "self" ELSE "pend"

SuspendEnter(t) ==
  /\ Goto(t, "s_enter", "s_suspend") /\ Lock(t)
  /\ UNCHANGED <<dataVars, envVars>>

\* Mutant: suspend_task does not suspend the display.
SuspendNothing(t) ==
  /\ Goto(t, "s_suspend", "s_post") /\ Compute(t)
  /\ UNCHANGED <<dataVars, envVars>>

SuspendDisplay(t) ==
  /\ Goto(t, "s_suspend", "s_post") /\ OSTaskSuspend(t, "display")
  /\ UNCHANGED <<dataVars, envVars>>

SuspendPost(t) ==
  /\ Goto(t, "s_post", "s_exit") /\ OSQPost(t, "DATA", "OVER", FALSE)
  /\ UNCHANGED <<dataVars, envVars>>

SuspendExit(t) ==
  /\ Goto(t, "s_exit", Return(t)) /\ Unlock(t)
  /\ isDormancy' = 1
  /\ UNCHANGED <<capBuf, recvBuf, unsent, sendFlag, temp, limits, isHotOver, envVars>>

RecoveryEnter(t) ==
  /\ Goto(t, "r_enter", "r_post") /\ Lock(t)
  /\ UNCHANGED <<dataVars, envVars>>

RecoveryPost(t) ==
  /\ Goto(t, "r_post", "r_resume") /\ OSQPost(t, "DATA", "RECO", FALSE)
  /\ UNCHANGED <<dataVars, envVars>>

RecoveryResume(t) ==
  /\ Goto(t, "r_resume", "r_exit") /\ OSTaskResume(t, "display")
  /\ UNCHANGED <<dataVars, envVars>>

\* Mutant: recovery_task returns without OS_CRITICAL_EXIT.
RecoveryExitLocked(t) ==
  /\ Goto(t, "r_exit", Return(t)) /\ Compute(t)
  /\ isDormancy' = 0
  /\ UNCHANGED <<capBuf, recvBuf, unsent, sendFlag, temp, limits, isHotOver, envVars>>

RecoveryExit(t) ==
  /\ Goto(t, "r_exit", Return(t)) /\ Unlock(t)
  /\ isDormancy' = 0
  /\ UNCHANGED <<capBuf, recvBuf, unsent, sendFlag, temp, limits, isHotOver, envVars>>

CriticalSection(t) ==
  \/ SuspendEnter(t) \/ SuspendDisplay(t) \/ SuspendPost(t) \/ SuspendExit(t)
  \/ RecoveryEnter(t) \/ RecoveryPost(t) \/ RecoveryResume(t) \/ RecoveryExit(t)

-----------------------------------------------------------------------------
(* dhcp_start_task and show_address                                        *)

\* Not yet connected: 100 ms until the next look.
BootPoll ==
  /\ dhcpstatus = 0
  /\ Goto("boot", "poll", "poll") /\ OSTimeDly("boot")
  /\ UNCHANGED <<dataVars, envVars>>

ShowAddressEnter ==
  /\ dhcpstatus # 0
  /\ Goto("boot", "poll", "send") /\ Lock("boot")
  /\ UNCHANGED <<dataVars, envVars>>

ShowAddressCreates(u, next) ==
  /\ Goto("boot", u, next) /\ OSTaskCreate("boot", u)
  /\ UNCHANGED <<dataVars, envVars>>

\* The tasks are created under the scheduler lock, order_handle_task last.
CreateTasks ==
  \/ ShowAddressCreates("send", "cap") \/ ShowAddressCreates("cap", "check")
  \/ ShowAddressCreates("check", "display")
  \/ ShowAddressCreates("display", "order") \/ ShowAddressCreates("order", "exit")

ShowAddressExit ==
  /\ Goto("boot", "exit", "s_enter") /\ Unlock("boot")
  /\ UNCHANGED <<dataVars, envVars>>

\* After suspend_task: suspends itself for good.
BootSuspendsSelf ==
  /\ Goto("boot", "self", "gone") /\ OSTaskSuspend("boot", "boot")
  /\ UNCHANGED <<dataVars, envVars>>

(* send_udp_task                                                           *)

SendPend ==
  /\ Goto("send", "pend", "copy") /\ OSQPend("send", "DATA", FALSE)
  /\ UNCHANGED <<dataVars, envVars>>

\* strlcpy into udp_sendbuf, unless the pend returned NULL.
SendCopy ==
  /\ IF rcv["send"] # None
       THEN Goto("send", "copy", "flag") /\ unsent' = TRUE
       ELSE Goto("send", "copy", "post") /\ UNCHANGED unsent
  /\ Compute("send")
  /\ UNCHANGED <<capBuf, recvBuf, sendFlag, temp, limits, isHotOver, isDormancy, envVars>>

SendFlag ==
  /\ Goto("send", "flag", "post") /\ Compute("send")
  /\ sendFlag' = TRUE
  /\ UNCHANGED <<capBuf, recvBuf, unsent, temp, limits, isHotOver, isDormancy, envVars>>

\* Mutant: send_udp_task does not signal SYN.
SendPostNothing ==
  /\ Goto("send", "post", "pend") /\ Compute("send")
  /\ UNCHANGED <<dataVars, envVars>>

SendPost ==
  /\ Goto("send", "post", "pend") /\ OSSemPost("send", "SYN")
  /\ UNCHANGED <<dataVars, envVars>>

(* display_task: the LCD shows the reading and the limits                  *)

DisplayPend ==
  /\ Goto("display", "pend", "show") /\ OSQPend("display", "DATA", FALSE)
  /\ UNCHANGED <<dataVars, envVars>>

DisplayShow ==
  /\ Goto("display", "show", "pend") /\ Compute("display")
  /\ UNCHANGED <<dataVars, envVars>>

(* cap_temp_task                                                           *)

CapPend ==
  /\ Goto("cap", "pend", "sample") /\ OSSemPend("cap", "SYN", FALSE)
  /\ UNCHANGED <<dataVars, envVars>>

CapSample ==
  /\ Goto("cap", "sample", "post") /\ Compute("cap")
  /\ capBuf' = <<"reading", adc>>
  /\ UNCHANGED <<recvBuf, unsent, sendFlag, temp, limits, isHotOver, isDormancy, envVars>>

CapPost ==
  /\ Goto("cap", "post", "delay") /\ OSQPost("cap", "DATA", "capBuf", TRUE)
  /\ UNCHANGED <<dataVars, envVars>>

CapDelay ==
  /\ Goto("cap", "delay", "pend") /\ OSTimeDly("cap")
  /\ UNCHANGED <<dataVars, envVars>>

(* check_temp_task                                                         *)

CheckPend ==
  /\ Goto("check", "pend", "parse") /\ OSQPend("check", "DATA", FALSE)
  /\ UNCHANGED <<dataVars, envVars>>

\* sscanf(buf, "%hd", &temp): a text that is no number leaves temp as it was.
CheckParse ==
  /\ Compute("check")
  /\ IF rcv["check"] = None
       THEN Goto("check", "parse", "pend") /\ UNCHANGED temp
       ELSE /\ Goto("check", "parse", "decide")
            /\ LET text == Text(rcv["check"]) IN
               temp' = IF text[1] = "reading" THEN text[2] ELSE temp
  /\ UNCHANGED <<capBuf, recvBuf, unsent, sendFlag, limits, isHotOver, isDormancy, envVars>>

\* Mutants: an off-by-one at the limit; recovery by an awake system only.
HotterThanMax == temp > limits[2] /\ isDormancy # 1
CooledAwake   == isHotOver = 1 /\ temp < limits[1] /\ isDormancy # 1

TooHot  == temp >= limits[2] /\ isDormancy # 1
CooledDown == isHotOver = 1 /\ temp < limits[1] /\ isDormancy # 0

CheckDecide ==
  /\ Compute("check")
  /\ \/ TooHot /\ Goto("check", "decide", "beep") /\ isHotOver' = 1
     \/ /\ ~TooHot /\ CooledDown
        /\ Goto("check", "decide", "r_enter") /\ UNCHANGED isHotOver
     \/ /\ ~TooHot /\ ~CooledDown
        /\ Goto("check", "decide", "pend") /\ UNCHANGED isHotOver
  /\ UNCHANGED <<capBuf, recvBuf, unsent, sendFlag, temp, limits, isDormancy, envVars>>

\* One second of alarm; the decision is not revised after it.
CheckBeep ==
  /\ Goto("check", "beep", "s_enter") /\ OSTimeDly("check")
  /\ UNCHANGED <<dataVars, envVars>>

(* order_handle_task                                                       *)

OrderPend ==
  /\ Goto("order", "pend", "handle") /\ OSQPend("order", "ORDER", FALSE)
  /\ UNCHANGED <<dataVars, envVars>>

OrderText == IF rcv["order"] = None THEN NoText ELSE Text(rcv["order"])

OrderSetLimits ==
  /\ OrderText[1] = "t"
  /\ Goto("order", "handle", "pend") /\ Compute("order")
  /\ limits' = OrderText[2] /\ isHotOver' = 0
  /\ UNCHANGED <<capBuf, recvBuf, unsent, sendFlag, temp, isDormancy, envVars>>

OrderRecover ==
  /\ OrderText[1] = "s" /\ isDormancy = 1
  /\ Goto("order", "handle", "r_enter") /\ Compute("order")
  /\ UNCHANGED <<dataVars, envVars>>

OrderSuspend ==
  /\ OrderText[1] = "o" /\ isDormancy = 0
  /\ Goto("order", "handle", "s_enter") /\ Compute("order")
  /\ UNCHANGED <<dataVars, envVars>>

\* sscanf(buf, "q %s", buf) turns the command into the text of a reading.
OrderTestReading ==
  /\ OrderText[1] = "q"
  /\ Goto("order", "handle", "q_post") /\ Compute("order")
  /\ recvBuf' = <<"reading", OrderText[2]>>
  /\ UNCHANGED <<capBuf, unsent, sendFlag, temp, limits, isHotOver, isDormancy, envVars>>

OrderPostReading ==
  /\ Goto("order", "q_post", "pend") /\ OSQPost("order", "DATA", "recvBuf", TRUE)
  /\ UNCHANGED <<dataVars, envVars>>

\* Any other text, and s while awake or o while dormant.
OrderIgnore ==
  /\ OrderText[1] \notin {"t", "q"}
  /\ ~(OrderText[1] = "s" /\ isDormancy = 1)
  /\ ~(OrderText[1] = "o" /\ isDormancy = 0)
  /\ Goto("order", "handle", "pend") /\ Compute("order")
  /\ UNCHANGED <<dataVars, envVars>>

(* udp_thread                                                              *)

\* netconn_send: tcpip_thread (priority 3) transmits udp_sendbuf at once.
UdpSend ==
  /\ sendFlag /\ Goto("udp", "poll", "clear") /\ Compute("udp")
  /\ unsent' = FALSE
  /\ UNCHANGED <<capBuf, recvBuf, sendFlag, temp, limits, isHotOver, isDormancy, envVars>>

\* netconn_send reports an error: nothing is retried.
UdpSendFails ==
  /\ SendMayFail
  /\ sendFlag /\ Goto("udp", "poll", "clear") /\ Compute("udp")
  /\ UNCHANGED <<dataVars, envVars>>

UdpNothingToSend ==
  /\ ~sendFlag /\ Goto("udp", "poll", "recv") /\ Compute("udp")
  /\ UNCHANGED <<dataVars, envVars>>

UdpClear ==
  /\ Goto("udp", "clear", "recv") /\ Compute("udp")
  /\ sendFlag' = FALSE
  /\ UNCHANGED <<capBuf, recvBuf, unsent, temp, limits, isHotOver, isDormancy, envVars>>

\* A datagram is waiting: it is copied under the scheduler lock.
UdpReceive ==
  /\ AnotherEvent /\ orders < MaxOrders /\ orders' = orders + 1
  /\ Goto("udp", "recv", "post") /\ Compute("udp")
  /\ \E o \in Orders : recvBuf' = o
  /\ UNCHANGED <<capBuf, unsent, sendFlag, temp, limits, isHotOver, isDormancy,
                 dhcpstatus, adc, keys, ticks, flips>>

\* Mutant: the received command goes to DATA_Msg.
UdpPostData ==
  /\ Goto("udp", "post", "poll") /\ OSQPost("udp", "DATA", "recvBuf", FALSE)
  /\ UNCHANGED <<dataVars, envVars>>

UdpPost ==
  /\ Goto("udp", "post", "poll") /\ OSQPost("udp", "ORDER", "recvBuf", FALSE)
  /\ UNCHANGED <<dataVars, envVars>>

\* netconn_recv waits for its timeout (or for a datagram), then 5 ms pass.
UdpWait ==
  /\ \E next \in {"poll", "recv"} : Goto("udp", "recv", next)
  /\ OSTimeDly("udp")
  /\ UNCHANGED <<dataVars, envVars>>

-----------------------------------------------------------------------------
(* Interrupts, kernel tasks and the environment                            *)

\* EXTI0_IRQHandler with the key down: no debounce delay, because OSTimeDlyHMSM
\* refuses to run in an interrupt.  suspend_task and recovery_task set
\* isDormancy at once and have their kernel calls deferred.  (Isr: not before
\* display_task was created.)
EXTI0_IRQHandler ==
  /\ AnotherEvent /\ keys < MaxKeys /\ keys' = keys + 1
  /\ \/ isDormancy # 1 /\ Isr(KeySuspends) /\ isDormancy' = 1
     \/ isDormancy = 1 /\ Isr(KeyRecovers) /\ isDormancy' = 0
  /\ UNCHANGED <<pc, capBuf, recvBuf, unsent, sendFlag, temp, limits, isHotOver,
                 dhcpstatus, adc, orders, ticks, flips>>

\* SysTick while the scheduler is locked (otherwise OS_IntQTask takes the tick
\* at once and DelayExpires says what it does).
SysTick_Handler ==
  /\ locked /\ AnotherEvent /\ ticks < MaxTicks /\ ticks' = ticks + 1
  /\ Isr(TickPost)
  /\ UNCHANGED <<pc, dataVars, dhcpstatus, adc, orders, keys, flips>>

Kernel ==
  /\ OS_IntQTask \/ TickTask
  /\ UNCHANGED <<pc, dataVars, envVars>>

\* lwip_dhcp_task (priority 4) looks at the address every 250 ms; 2 stands for
\* 0xFF as well, which dhcp_start_task does not tell from it.
lwip_dhcp_task ==
  /\ ~locked /\ intQ = <<>>
  /\ dhcpstatus = 0 /\ dhcpstatus' = 2
  /\ UNCHANGED <<kvars, pc, dataVars, adc, orders, keys, ticks, flips>>

TemperatureChanges ==
  /\ AnotherEvent /\ flips < MaxFlips /\ flips' = flips + 1
  /\ adc' \in Temps \ {adc}
  /\ UNCHANGED <<kvars, pc, dataVars, dhcpstatus, orders, keys, ticks>>

Boot    == \/ BootPoll \/ ShowAddressEnter \/ CreateTasks \/ ShowAddressExit
           \/ CriticalSection("boot") \/ BootSuspendsSelf
Send    == SendPend \/ SendCopy \/ SendFlag \/ SendPost
Display == DisplayPend \/ DisplayShow
Cap     == CapPend \/ CapSample \/ CapPost \/ CapDelay
Check   == CheckPend \/ CheckParse \/ CheckDecide \/ CheckBeep \/ CriticalSection("check")
Order   == \/ OrderPend \/ OrderSetLimits \/ OrderRecover \/ OrderSuspend
           \/ OrderTestReading \/ OrderPostReading \/ OrderIgnore
           \/ CriticalSection("order")
Udp     == \/ UdpSend \/ UdpSendFails \/ UdpNothingToSend \/ UdpClear
           \/ UdpReceive \/ UdpPost \/ UdpWait

Next ==
  \/ Boot \/ Send \/ Display \/ Cap \/ Check \/ Order \/ Udp
  \/ EXTI0_IRQHandler \/ SysTick_Handler \/ Kernel \/ lwip_dhcp_task
  \/ TemperatureChanges

Spec == Init /\ [][Next]_vars

\* The kernel runs the most urgent ready task: a ready task of priority 5 or 6
\* is not overtaken for ever.  The tasks of priority 7 get the processor again
\* and again while udp_thread and the others sleep, and share it round robin.
\* Delays end, lwip_dhcp_task's too.  Nothing is assumed of commands, keys and the temperature.
Fairness ==
  /\ WF_vars(lwip_dhcp_task)
  /\ WF_vars(Boot) /\ WF_vars(Order) /\ WF_vars(Send) /\ WF_vars(Udp)
  /\ SF_vars(Cap) /\ SF_vars(Check) /\ SF_vars(Display)
  /\ WF_vars(OS_IntQTask /\ UNCHANGED <<pc, dataVars, envVars>>)
  /\ \A t \in {"boot", "udp", "cap", "check"} :  \* the tasks that delay themselves
       WF_vars(DelayExpires(t) /\ UNCHANGED <<pc, dataVars, envVars>>)

FairSpec == Spec /\ Fairness

-----------------------------------------------------------------------------
(* Properties                                                              *)

InSuspend  == {"s_suspend", "s_post", "s_exit"}
InRecovery == {"r_post", "r_resume", "r_exit"}
InShowAddress == {"send", "cap", "check", "display", "order", "exit"}
Pcs ==
  [t \in Tasks |->
    CASE t = "boot" -> {"poll", "s_enter", "self", "gone"} \cup InShowAddress
                         \cup InSuspend
      [] t = "order" -> {"pend", "handle", "q_post", "s_enter", "r_enter"}
                          \cup InSuspend \cup InRecovery
      [] t = "send" -> {"pend", "copy", "flag", "post"}
      [] t = "udp" -> {"poll", "clear", "recv", "post"}
      [] t = "cap" -> {"pend", "sample", "post", "delay"}
      [] t = "check" -> {"pend", "parse", "decide", "beep", "s_enter", "r_enter"}
                          \cup InSuspend \cup InRecovery
      [] t = "display" -> {"pend", "show"}]

\* Every variable has its type; every task is at a place of its own program.
TypeOK ==
  /\ KTypeOK
  /\ DOMAIN pc = Tasks /\ \A t \in Tasks : pc[t] \in Pcs[t]
  /\ capBuf \in Readings \cup {NoText}
  /\ recvBuf \in Readings \cup Commands \cup {NoText}
  /\ unsent \in BOOLEAN /\ sendFlag \in BOOLEAN
  /\ temp \in Temps /\ adc \in Temps /\ dhcpstatus \in {0, 2}
  /\ limits \in Limits
  /\ isHotOver \in {0, 1} /\ isDormancy \in {0, 1}
  /\ orders \in 0..MaxOrders /\ keys \in 0..MaxKeys
  /\ ticks \in 0..MaxTicks /\ flips \in 0..MaxFlips

\* The sampling token is never lost: SYN is signalled, or cap_temp_task was
\* granted it, or send_udp_task holds a message for which it will post SYN.
\* Otherwise the monitor would stop measuring for ever.  It rests on
\* send_udp_task being more urgent than cap_temp_task: when a reading is posted
\* to all waiters of DATA_Msg, send_udp_task is always one of them.
SampleToken ==
  \/ semCtr["SYN"] > 0
  \/ pc["cap"] \in {"sample", "post"} /\ pendOn["cap"] = None
  \/ pc["send"] \in {"copy", "flag", "post"} /\ pendOn["send"] = None

Section == InSuspend \cup InRecovery \cup InShowAddress

\* The scheduler is locked exactly while a task is inside suspend_task,
\* recovery_task or show_address, and that task is the one that runs.
LockIsSection == \A t \in Tasks : pc[t] \in Section <=> locked /\ holder = t

\* Nothing that suspends or resumes the display is under way.
Quiet ==
  /\ ~locked /\ intQ = <<>>
  /\ \A t \in Tasks : pc[t] \notin {"s_enter", "r_enter"}

\* When the flag says dormant, the display task is suspended, whichever of the
\* tasks and the key interrupt put the system to sleep and in whatever order.
DormantMeansSuspended == Quiet /\ isDormancy = 1 => susp["display"]

\* From the creation of order_handle_task on, a command is handled before
\* udp_thread overwrites udp_recvbuf with the next one, although ORDER_Msg only
\* carries a pointer to that buffer: the commands that piled up before it, too.
\* (Between the bound address and that moment nobody reads the buffer: the second
\* command replaces the first one, and is handled twice.)
CommandNotOverwritten ==
  [][pc["udp"] = "recv" /\ pc'["udp"] = "post" /\ Created("order")
       => pendOn["order"] = "ORDER" /\ "recvBuf" \notin Range(msgQ["ORDER"])]_vars

\* The monitor measures for ever, whatever commands and keys do to it.
KeepsSampling == []<>(pc["cap"] = "post")

\* If it stays too hot, the system ends up dormant and stays so.
HotSleeps == <>[](adc >= limits[2]) => <>[](isDormancy = 1)

\* If it has been too hot and stays cool from some time on, and nobody sends
\* new limits, the system ends up awake and stays so.
CoolRecovers == <>[](isHotOver = 1 /\ adc < limits[1]) => <>[](isDormancy = 0)

\* A command that was received is handled.
CommandHandled ==
  pc["udp"] = "post" ~> pc["order"] = "handle" /\ pendOn["order"] = None

\* recovery_task is commented "resume the display task": once the system is
\* awake and nothing is under way, the display task is not suspended.
AwakeMeansDisplaying == Quiet /\ isDormancy = 0 => ~susp["display"]

\* The README promises alarms on the phone: OVER and RECO are received by
\* send_udp_task and by no task that only looks for readings.
NoticesReachSender ==
  \A t \in {"check", "display"} : rcv[t] \notin {"OVER", "RECO"}

\* "There is data to send" is what the flag is tested for: text in udp_sendbuf
\* that was not transmitted is flagged once send_udp_task has set the flag.
UnsentIsFlagged == unsent /\ pc["send"] # "flag" => sendFlag

\* What the application does to the kernel's state are kernel calls: the
\* theorems about module Ucos hold of the monitor.
UsesKernel == KSpec

=============================================================================
