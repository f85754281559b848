# Verification of the temperature monitor

A formal model of the firmware in `src/tem_project`: an STM32 board that measures
a temperature, shows it on an LCD, reports it over UDP to a relay server and a
phone, and goes dormant when it becomes too hot. The application runs on
uC/OS-III and lwIP. What makes it hard is that seven tasks and two interrupt
handlers communicate through two message queues, one semaphore, a task suspension
that nests and a handful of global variables, some under the scheduler lock and
some under none.

| File | Contents |
| --- | --- |
| `Ucos.tla` | the kernel services the application uses |
| `Monitor.tla` | the application tasks, the UDP thread and the interrupts, on top of `Ucos` |
| `Mutex.tla` | the kernel's mutex with priority inheritance |
| `Network.tla` | the way of a frame and of a text through chip, driver, lwIP and `udp_thread`, on top of `Mutex` |
| `Startup.tla` | the DHCP client, the task that polls it, and the start of the monitor |
| `Timeouts.tla` | the timers of lwIP over the mailbox of the port |
| `Malloc.tla` | the memory manager |
| `Relay.tla` | `NAT.py`, `Server.py` and the connection of the phone |
| `Datagrams.tla` | abstract: a channel that loses and does not reorder |
| `Alarms.tla` | abstract: independent periodic timers |
| `ListFacts.tla` | lemmas on sequences: inserting, removing, counting, ascending numbers |
| `UcosProofs`, `MonitorProofs`, `MutexProofs`, `NetworkProofs`, `StartupProofs`, `RelayProofs` | theorems about the module of that name |
| `LoopProofs` | theorems about `Malloc` and `Timeouts`, whose code is a loop over the data |
| `MCUcos`, `MCMonitor`, `MCParts`, `MCStartup`, `*.cfg` | instances for TLC |
| `PROJECT.json` | components, runs, mutants, map to the source, findings, hazards, theorems |

Abbreviations: `task.c` is `UCOSTASK/task.c`, `udp_u.c` is
`LWIP/lwip_app/udp_u.c`, `lwip_comm.c` is in `LWIP/lwip_app/lwip_comm`,
`sys_arch.c` in `LWIP/arch`, `dm9000.c` in `HARDWARE/DM9000`, `os_*.c` in
`UCOSIII/uCOS-III/Source`; `dhcp.c`, `timers.c`, `tcpip.c`, `api_*.c`, `netbuf.c`
and `ethernetif.c` are lwIP's.

## 1. Inventory

**Kernel** (`os_q.c`, `os_sem.c`, `os_core.c`, `os_task.c`, `os_int.c`,
`os_tick.c`, `os_time.c`). State: a TCB per task (base state, suspended bit,
`SuspendCtr`, object pended on, message, result), a pend list per object, the
messages of every queue, the counter of every semaphore, the scheduler lock,
the queue of deferred interrupt posts. Tasks call it; interrupt handlers may
post, but with `OS_CFG_ISR_POST_DEFERRED_EN` (`os_cfg.h:42`) their calls are put
into a queue of 10 that `OS_IntQTask` empties later. Hard: posts, timeouts,
suspensions and deferred posts meet on the same TCB in any order. Correct when
pend lists and TCBs agree and stay in priority order, no wake-up is lost, and
nobody blocks while he holds the scheduler lock.

**Application tasks** (`task.c`). All wait in loops:

| Task | Priority | Waits for | Does |
| --- | --- | --- | --- |
| `send_udp_task` | 6 | `DATA_Msg` | copies the text for `udp_thread`, signals `SYN` |
| `cap_temp_task` | 7 | `SYN` | measures, posts to all waiters of `DATA_Msg`, sleeps 1 s |
| `check_temp_task` | 7 | `DATA_Msg` | too hot: beeps 1 s, `suspend_task`; cooled down: `recovery_task` |
| `display_task` | 7 | `DATA_Msg` | shows the reading |
| `order_handle_task` | 5 | `ORDER_Msg` | commands `t` limits, `s` start, `o` off, `q` test reading |
| `dhcp_start_task` | 5 | 100 ms | polls `dhcpstatus`; then creates the others, `suspend_task`, suspends itself |
| `udp_thread` | 6 | 10 ms | transmits if flagged, receives, posts to `ORDER_Msg` |

`suspend_task` suspends the display, posts `OVER` and sets `isDormancy` under
the scheduler lock; `recovery_task` posts `RECO`, resumes it and clears the
flag. Both are also called by the key interrupt. Hard: three tasks wait on one
queue, messages are pointers to buffers that are reused, flags are read and
written across preemption, and a decision is carried out a second after it was
taken. Correct when the monitor keeps measuring, no command is overwritten,
flag and display agree, it sleeps when it is hot and wakes when it has cooled.

**Key interrupt** (`HARDWARE/EXTI/exti.c`) and **tick** (`delay.c:58`). The key
interrupt runs at any point, also inside a critical section, since
`OS_CRITICAL_ENTER` leaves interrupts on.

**Mutexes** (`os_mutex.c`). State: owner, nesting counter, the owner's own
priority, the pend list. The program has one, `dm9000lock`. Hard: the owner inherits
a priority and must give back exactly that. Correct when the owner runs at the
highest priority among itself and its waiters, everyone else at its own, and the most
urgent waiter comes next.

**Ethernet driver** (`dm9000.c`, `ethernetif.c`). State: the chip's receive memory,
interrupt flags and masks, `dm9000lock`, the semaphore `dm9000input`. The receive task
(priority 4) waits for the semaphore, reads a frame under the lock and hands it to
`tcpip_input`; `tcpip_thread` (3) and `lwip_dhcp_task` (4) transmit, with the receive
interrupt masked, and poll for the end. Hard: one path returns without unlocking
(`dm9000.c:363`), the interrupt handler clears every flag it has read, a post of an
interrupt can be dropped. Correct when only the owner touches the chip, the
board never stays deaf, no poll is endless and every frame is read.

**lwIP port and stack** (`sys_arch.c`, `tcpip.c`, `api_msg.c`, `api_lib.c`, `netbuf.c`).
State: mailboxes over `OS_Q`, pools of pbufs (a frame is a chain of up to three of 512
bytes, `lwipopts.h:17`), messages and netbufs. `netconn_send` posts
to `tcpip_thread` and waits for `op_completed`. Hard: every hand-over has an error path
that must free what it holds; a post to a full mailbox is given up after ten
attempts. Correct when buffers are conserved, orders arrive in order and once, and every
call returns.

**Timers** (`timers.c`). A list of differences of time; the wait of `tcpip_thread` for a
message is also the wait for the first timer. Hard: insertion, waits that a
message interrupts, rounding to ticks. Correct when each timer is independent of the
others.

**Network start-up and DHCP** (`lwip_comm.c`, `dhcp.c`, `main.c`). State: `struct dhcp`,
the interface's address and flag, `dhcpstatus`, `lwipdev.ip`. `lwip_dhcp_task` polls the
client every 250 ms, ends with a lease or with the static address, and stops the client;
`dhcp_start_task` polls `dhcpstatus`. Hard: two tasks share the client without a lock,
replies come late, twice or not at all, a server may refuse. Correct when a lease is
the one asked for last, the static address never replaces a lease, what is shown is
what is used, and the wait always ends.

**Memory manager** (`malloc.c`). A map with a length for each block of the pool; free
trusts it. Correct when allocations are disjoint and no free stretch is overlooked.

**Relay and phone** (`Server.py`, `NAT.py`, `MainActivity.java`). State: `udp_address`,
`tcp_connection`, a thread per connection, a forwarder that sleeps a second per
datagram. Hard: check-then-use of a global between threads, connections that overlap,
a `recv` that returns nothing for ever. Correct when texts arrive in order and once, the
forwarding thread survives, and nothing is left lying.

### Not modelled

The `components` of `PROJECT.json` list every part with its status. What is left out:

| Part | Why |
| --- | --- |
| Temperature sensor (`adc.c`) | floating-point averaging; `Monitor` takes any reading |
| LCD, LED, beeper, key and SRAM drivers | register writes without state the program reads |
| Serial line | its receive state machine has no reader |
| Event flags, partitions, kernel timers, multi-pend, statistics | the program creates none |
| Deletion, abort, non-blocking calls, flush, priority change of kernel objects | not called |
| TCP, SNMP, sockets, DNS, IGMP, AutoIP, PPP, IPv6 of lwIP | third-party code that nothing of this program passes through |
| IP, ARP, UDP and ICMP as protocols | third-party code; the program depends on their delivery, not on their details |
| uC/CPU, uC/LIB, StdPeriph, CMSIS, device headers, the Android scaffolding | third-party or generated |
| A frame longer than `DM9000_PKT_MAX` and the chip's reset (`dm9000.c:401-406`) | the receiver is set up to discard long frames itself (`RCR_DIS_LONG`, `dm9000.c:108`), and what the registers hold after `NCR_RST` is the chip's matter |
| IP reassembly | third-party code; its fragments (`IP_REASS_MAX_PBUFS`, 10) hold further pbufs, see `PbufsSuffice` in section 4 |
| The key interrupt before `display_task` exists | `OSTaskSuspend` would work on a TCB nobody has filled in: the window from `main.c:59` to `show_address` is left out |
| DHCP: REBOOTING, INFORM, options, an OFFER without server identifier, the use of a removed pcb by an ARP reply | the first two are never entered; options carry no control; the others are races of a few instructions inside the stack |
| Start-up before `OSStart`, `main`'s attempts at `lwip_comm_init` | nothing is scheduled yet; initialisation of hardware |
| The way of the orders from the phone to the monitor beyond what it does to the connections | each is forwarded at once; `Monitor` and `Network` begin with any sequence of orders |

Most of the repository's lines are vendored headers and protocol code of this table. What
is modelled of the vendored code is what this program drives: the
services of the kernel it calls, the threads of lwIP it runs on, DHCP and the timers.

## 2. Modules and the code

### Ucos

One action per service, with the calling task as the first parameter; `KNext`
lets every task call every service at any time, and `Monitor` conjoins the same
actions with the caller's program counter. `TaskState` of a TCB is split into
`tstate` and `susp`. Context switches are not steps: `CanRun(t)` says which task
has the processor (the highest ready priority, any of its tasks because of
round robin, and only when the interrupt queue is empty, because `OS_IntQTask`
has priority 0). `locked` and `holder` stand for `OSSchedLockNestingCtr > 0` and
the task that runs meanwhile. After `OS_CRITICAL_EXIT` the kernel does **not**
reschedule unless an interrupt deferred something (`os.h:110`), so `holder` keeps
the processor until it next calls `OSSched`; that is why a lower-priority task can
linger after a critical section, and the model has it. Inside a service the code
runs with the scheduler locked and interrupts can only append to the interrupt
queue, so one service is one step. Every kernel service with `OSSched` at its
end puts `holder` back to `None`. A task that nobody has created is in state `NONE`;
`OSTaskCreate` is the step that puts it into the ready list. Suspending and resuming name
tasks that exist: the kernel does not check that, and what it makes of a zeroed TCB is left out.

The tick is two things: `TICK` entries in the interrupt queue, which compete for
its room, and `DelayExpires` / `PendTimesOut`, which end a wait at any time; time
itself is not counted. An entry of one interrupt may be dropped when the queue
is full (`IntQPosted`), as `os_int.c:138` does.

The ready list inside a priority, message sizes, time stamps, the FIFO/LIFO
option, non-blocking calls, aborts, deletion and priority changes are left out:
the application uses none of them. `Compute` is a step of the application that
makes no call.

### Monitor

The model begins at the moment `tcpip_thread` binds the address. Before it `ip_input` drops
every datagram but those of DHCP; from it on `udp_thread` receives commands and posts them, although
`dhcp_start_task` creates the tasks that use them only after `lwip_dhcp_task`'s next look
(250 ms, `lwip_comm.c:272`) and its own (100 ms, `task.c:148`). `lwip_dhcp_task` of the model
is that look; `show_address` creates the tasks one by one under the scheduler lock,
`order_handle_task` last (`task.c:322-335`), and then suspends the display. In this window nobody reads
`udp_recvbuf`: commands pile up in `ORDER_Msg` as pointers to the same buffer, so a second
command replaces the first and is handled twice. `CommandNotOverwritten` is therefore a
promise of the time from the creation of `order_handle_task` on, those that piled up included.

`pc[t]` is the place of each task in its loop; every step makes at most one
kernel call, so interrupts and preemption fall between any two. Messages are the
four pointers `capBuf`, `recvBuf`, `OVER`, `RECO`, and `Text` reads the content at
the moment of use. `unsent` says that `udp_sendbuf` holds text not yet
transmitted, `sendFlag` is `LWIP_SEND_DATA`. In the key interrupt the kernel calls
are deferred and `isDormancy` is set at once. The debounce delay of
`exti.c:15` is refused in an interrupt. A copy under the scheduler lock
(`udp_u.c:69-78`) is one step: nothing but the interrupt queue can change in it.
Ticks are only counted while the scheduler is locked, because otherwise
`OS_IntQTask` takes them before anything else runs. The temperature changes at
any time. Tasks of other priorities (tcpip, DM9000, LED) share none of this
state; `netconn_send` and `netconn_recv` are modelled by what `udp_thread` sees.

### Mutex

`OSMutexPend` (`Take`, `TakeAgain`, `Block`) and `OSMutexPost` (`Unnest`, `Free`,
`HandOver`) follow the branches of the code. Every caller pends without timeout, so a
waiter leaves the list only by a post. `Runs(t)` is the
scheduler: a ready task that no ready task outranks. Everything else a task may wait
for is the state `WAIT`. `Enqueued` is a relation, not a function, because the proofs
want the position of the insertion.

### Network

`npc[t]` is the place of each of four tasks. `Network` extends `Mutex`: every step of a task
is a `Step`, `Sleep`, `OSMutexPend` or `OSMutexPost` of it, so the priorities decide who
runs, inherited ones included. The chip is a queue of frames, two flags and two enable
bits; a frame takes a chain of one to `MaxChain` pbufs (in the program up to three of 512
bytes, `lwipopts.h:17`), which `pbuf_alloc` finds all or none of and whoever frees the frame
frees together. (`pbuf_realloc` in `ip_input` may give a part back earlier; the model then
holds more than the code.) Frames are orders, ARP requests (answered by `tcpip_thread`), damaged frames
and junk (a first byte that is neither 0 nor 1, which disables the receiver and takes
the path that never unlocks). Mailboxes hand a message directly to a waiting task, as
`OSQPost` does. The interrupt's post goes through the kernel's deferred queue and may be
dropped there (`PostMayDrop`, `os_int.c:138`). A text is `tcpip_thread`'s `do_send`, which
may report an error (`SendMayFail`); `udp_thread` then deletes its netbuf twice
(`udp_u.c:60,63`). The second deletion reads a netbuf that is in the pool again: its first
word, once the pointer to the pbuf, is now the link of the pool, and is freed as a pbuf.
What becomes of the pools is undefined, and `udp_thread` stops there at the place
`undefined`: the properties are about the executions up to it, and **no property catches this
defect**, nor the missing unlock on the path of junk (`dm9000.c:363`), whose task stays the owner. A loop of the driver that never ends is the place `spin`.
Attempts after a full mailbox are not modelled: `PostFindsRoom` says they do not happen.

### Startup

The handlers of `dhcp.c` are operators on the record `client`, each composed of the
same calls as the C function (`TimedOut` of `Select`, `Discover`, `Release`, ...), so that a
timer tick or a message is one action with everything it changes. `client.sent` is every
message ever sent, and a reply may be to any of them, at any time and again and again, or
never. An acknowledgement carries the address asked for if servers agree
(`ServersAgree`) and any address otherwise: `dhcp_handle_ack` copies it without comparing
(`dhcp.c:546`). `BoundAsRequested` is a promise about the first kind, everything else is proved
for both. Counters have 16 bits (`Dec16`). A tick of 500 ms falls between two polls of 250 ms:
the flag `polled` says that the task has read the address since the last tick. The timer of
60 s falls between two ticks of 500 ms: the flag `ticked` says that there was one since. The
steps of `lwip_dhcp_task` are separate wherever `tcpip_thread` can run between them.

*A lease that is renewed without being held.* `dhcp_handle_nak` (`dhcp.c:468-498`) leaves T1
and T2 of the lease it gives up running. When one of them ends while the next address is
still being requested, `dhcp_t1_timeout` accepts the state REQUESTING and the client
"renews" 0.0.0.0 (`dhcp.c:1016` and `1071` speak of an existing lease); an answer to
that binds an address that was never probed, and at once, so that the static address may
then replace it. TLC finds it within two periods of the coarse timer. `BoundAsRequested` and
`LeaseNotOverwritten` are therefore about the executions in which every renewal is of an
address the client has (`RenewsLeases`); the rest of the promises need no such condition.

### Timeouts, Malloc, Relay

`Timeouts` keeps the list of differences as it is; `at` and `heard` of an element, when
it was set and after how many messages, are for `NotTooEarly` alone. The calls of
`sys_timeouts_init`, one after another, are the recursive function `SetUp`. `Malloc` has the
loop's counter `cmemb` as a recursive function of the block the loop has come to. `Relay` has a step for each statement of the Python threads between which
the others may run, with the exceptions an operation on the connection may raise;
a connection is open, closed (the phone's `close`) or reset. It is reset when the phone
vanishes, and may be when the phone closes with lines unread: its stack then answers with a
reset, and `recv` of the server raises an exception instead of returning no data.

### Abstract specifications

* `Datagrams`: messages on the way are a sequence from which any may be lost. `Network`
  implements it (`OrdersInOrder`): on the way are the orders in the chip, with the receive
  task, in the mailboxes and in the netbuf, in that order. `Relay` implements it
  (`TextsInOrder`).
* `Alarms`: a function from handlers to the time left. `Timeouts` implements it
  (`TimersIndependent`): the time left is the sum of the list up to the handler.
* `Ucos` is what `Monitor` implements (`UsesKernel`). That is a theorem and no run: comparing every
  step with `KNext` takes TLC too long at the bounds of the runs.

## 3. Runs

| Run | Bounds | Checks |
| --- | --- | --- |
| `MCUcos` | 3 tasks (two of one priority), queue of 1, semaphore up to 1, interrupt queue of 2, `SuspendCtr` mod 2 | kernel invariants |
| `MonitorSafety` | any two of: a command, another one, a key, a tick, a temperature change; sends fail | commands, sampling, lock, dormancy |
| `MonitorLive` | any two of: a test reading, a key, a temperature change; fair | four liveness properties |
| `Network` | any four of: 3 frames of any kind and of 1 or 2 pbufs, 1 text, 1 DHCP message; 2 of each buffer, mailboxes of 2, faults | chip, buffers, order |
| `NetworkLive` | 3 orders or ARP requests of up to 3 pbufs, 1 text, 1 timer, 9 pbufs, 1 netbuf, mailboxes of 1, fair | liveness, room |
| `Parts` | one of: 4 tasks on the mutex; 3 timers for 65 ms and 2 messages; 7 blocks; DHCP with 2 addresses, 2 refusals, 2 minutes; 3 texts and 2 connections | their properties |
| `DisplayStuck` | 3 sleep/start commands | violation of `AwakeMeansDisplaying` |
| `NoticeLost` | 2 keys | violation of `NoticesReachSender` |
| `FlagLost` | 1 key | violation of `UnsentIsFlagged` |
| `KeyDropped` | 1 command, 1 key, 10 ticks | violation of `DormantMeansSuspended` |
| `NetbufExhausted` | 3 orders, 1 text, 2 netbufs | violation of `SendHasBuffer` |
| `StaticUnusable` | 1 refusal | violation of `AddressUsable` |

*What they show.* `MCUcos` shows that pend lists and TCBs agree under every interleaving of
calls, timeouts and deferred posts. `MonitorSafety` and `MonitorLive` show that commands are
handled before their buffer is reused once `order_handle_task` exists, that the one token that
drives the measurement is never lost, and that the monitor sleeps when it stays hot and wakes
when it has cooled, whatever commands, keys and stale readings do. `Network` shows that three
tasks and an interrupt share the chip safely, that no path loses a buffer or frees it twice up
to a transmission that fails (after one, the code deletes a netbuf twice, section 2), and that
what arrives arrives in order; `NetworkLive` that the priorities make the queues and pools suffice, so that no
frame stays in the chip and no sender waits for ever. `Parts` shows the promises listed in
section 1 for the other components.

*Why the bounds are enough.* Three kernel tasks of two priorities are the least
with which an insert goes before, between and behind other waiters, and one
more can be ready while two wait on one list. A queue of 1, a semaphore of 1,
an interrupt queue of 2 and a counter modulo 2 reach every limit and every wrap.
In the application two commands are the least that can overwrite each other, two
temperatures and two pairs of limits give every outcome of the comparisons
(below, equal, above), one change of temperature lets a decision become stale,
and one key press meets every place of every task. `MaxEvents` leaves
any two of these events to an execution of `MonitorSafety` and `MonitorLive`: each hazard they are aimed at
takes two (a buffer used again, a key press during a command, a command during a decision). The sizes of the queues and
the interrupt queue are the program's. `SemMax = 7` stands for 2^32-1: the runs
never reach it except where the property is about the bound.

In `Network` two buffers of a kind make each pool run out while one frame is with
the receive task and another with `tcpip_thread`, and three frames more than
fill a mailbox of two; the chip's lock is contended by all three of its tasks. `MaxEvents = 4`
leaves out only the executions with three frames, the text and the DHCP message at once.
`NetworkLive` gives every resource the least that suffices, with 9 pbufs for chains of up to 3
and one netbuf, (1 + 2) * 3; more only makes it easier.
In `Parts` four tasks of three priorities have waiters above, at and below the owner's; the
periods of the timers (20, 40 and 60 ms of 5 ms ticks) put the shortest one last in the
order of insertion, as `sys_timeouts_init` does; seven blocks hold
fragmented free stretches at both ends; `MaxTries = 4` is the program's
`LWIP_MAX_DHCP_TRIES`; three leases make the renewal timer, the rebinding timer or neither
expire first; two refusals are a refusal of a second attempt; two connections are the least that overlap. The parts of `Parts` share no
state: in each execution one of them moves.

*Violations.* Each shows a disagreement of the code with its own comments or
README, listed under `findings`. `DormantMeansSuspended` holds in
`MonitorSafety`, where at most one tick falls into a critical
section, and fails in `KeyDropped`, where ten do: clearing the 480x800 display under
the lock takes longer than ten ticks of 10 ms. `NetbufExhausted` needs only two orders that
arrive while `udp_thread` is kept from running, and a text to send. `StaticUnusable` needs a
server that refuses once and is silent afterwards. A server that refuses for ever is a
different matter: each refusal starts the count of tries again, and `lwip_dhcp_task` polls for ever.
`TasksAreCreated` is about refusals that end.

*Deadlock* is checked in `MCUcos`, the `Monitor` runs and `NetbufExhausted`. In the others
all events are bounded, and the system stops when they are used up.

*Fairness.* `FairSpec`: the processor is always given to the most urgent ready
task, so the tasks of priority 5 and 6 get weak fairness. The tasks of priority 7
lose the processor whenever `udp_thread` wakes and get it again when it sleeps,
5 to 10 ms later, and share it by round robin (`main.c:120`): their enabledness is
interrupted again and again, which is what strong fairness is for. The delays of the four tasks
that delay themselves end, that of `lwip_dhcp_task` too, and the interrupt queue is emptied
(weak fairness). Nothing is assumed of commands, the
key or the temperature. Every behaviour has finitely many of these (bounds on
orders, keys and temperature changes), so "stays hot" and "stays cool" are
situations every behaviour can reach. `NFairness`: the four tasks take the steps the
scheduler lets them, a transmission ends, the interrupt is taken, delays end; no frame need
arrive. Weak fairness is enough: a more urgent task that is ready again and again would keep
the others waiting in the model as on the board, and the bounded events run out.
`SFairness`: timers and the three tasks go on; no reply ever need arrive. `RFairness`: the
threads of `NAT.py` and `Server.py` and the phone's reader go on; no text need be sent, no
phone need link, and any datagram may be lost. `PFairness` in `MCParts` restates `SFairness`
for the executions of the start-up, because the other executions leave it in its first
state, and takes `RFairness` as it is.

A definition commented "Mutant" is a plausible bug in the one below it; no specification
uses it. `PROJECT.json` names, for each property of a passing run, a mutant that breaks it.

## 4. Proofs

Every safety property and every refinement that a passing run checks is also a theorem, for
**all** values of the constants that satisfy the named assumptions of the modules. Where a
theorem has a hypothesis besides, it is named below with the reason. The inductive
invariants were model-checked on the instances of the runs before they were proved.

**Kernel** (`UcosProofs`, from `KernelAssumption`): `KTypeCorrect`, `HolderCorrect`,
`PendListCorrect`, `WakeupCorrect`, `SortedCorrect`. `KTypeOK` is inductive by itself. The
others are inductive relative to the ones before them: `PendListExact` needs the types;
`HolderRuns` needs them to know that a woken or suspended task is not the holder;
`NoLostWakeup` and `PendListSorted` need `PendListExact`, since a post removes the head and a
timeout the one entry of its task. Each proof has one lemma per service and one for the
interrupt queue.

**Monitor** (`MonitorProofs`, also `MonitorAssumption`):

* `MonitorUsesKernel`: `Spec => UsesKernel`, so the kernel theorems hold of the monitor.
* `ControlCorrect`: the inductive invariant `Control`. It says which tasks exist and where each
  can be, which object it waits for at that place, that `send_udp_task` and `order_handle_task` never
  sleep, that only the display and `dhcp_start_task` are ever suspended, that only a
  task that calls `OS_CRITICAL_ENTER` keeps the processor, and what the interrupt queue
  may contain.
* `LockCorrect` (`LockIsSection`), inductive relative to `Control`.
* `TokenCorrect` (`SampleToken`): `cap_temp_task` runs only while no task of higher priority
  is ready, so `send_udp_task` is then waiting for `DATA_Msg`, and the post to all reaches
  it. This needs `Control` to know that a `send_udp_task` that is not ready waits for exactly
  that queue, and `PendListExact` to know that it is then on the list the post empties.
* `CommandsCorrect` (`CommandNotOverwritten`): `order_handle_task` is more urgent than
  `udp_thread`; by the auxiliary invariant `OrderWaits` it has emptied the queue of what piled up
  before its creation and returned to its pend before `udp_thread` runs again, and by
  `NoLostWakeup` the queue is then empty.
* `HandedOverCorrect` and `CommandDeliveredCorrect`: whatever is in `ORDER_Msg` points to
  `udp_recvbuf`. Once `order_handle_task` exists, the same priorities mean that a command is
  not queued: the post of `udp_thread` finds the task on the pend list, alone, and hands it
  the pointer in that step. Before, the post leaves the pointer in the queue, or finds it full
  of the same pointer. What the liveness property `CommandHandled` adds is that the tasks are
  created and that `udp_thread` goes on.
* `MonitorTypeCorrect` (`TypeOK`): the types of the data, buffers included, with `Control`.
* `DormancyCorrect` (`DormantMeansSuspended`) has two hypotheses: a key press finds room for its
  two posts in the interrupt queue (`KeyHasRoom`), and suspensions do not reach the limit
  of the 8-bit counter (`FewNested`). Both are needed: an execution of the run
  `KeyDropped` is one without the first, and without the second the counter starts again
  at 0 and forgets 256 suspensions. The
  invariant `Dormancy` says that the suspensions and resumptions that tasks and interrupt
  queue still owe, added to the counter in the order in which they come, leave the
  display suspended: the flag and the counter are written in different steps by up to three
  actors, and the property looks only at the moments when none is on its way.

**Mutex** (`MutexProofs`, from `MutexAssumption`): `MTypeCorrect`, `OwnerInheritsCorrect`,
`WaitersSortedCorrect`. The inductive invariant `MInv` adds that the owner does not wait and
that `OwnerOriginalPrio` is its own priority, that the list is exactly the tasks in state
PEND, and states order and inheritance in base priorities, which no step changes:
the two properties are about the current ones.

**Network** (`NetworkProofs`, also `NetworkAssumption`), with three invariants, each resting on
the one before:

* `NInv` for `ChipIsLockedCorrect`, `DeafOnlyWhileSendingCorrect`, `PollEndsCorrect` and
  `ChipMutexCorrect`, which carries the mutex's properties over. It is `MInv`, where each task
  can be when it pends (`Places`), and that a task that transmits has masked the
  interrupt (`Masked`): without the last one `PollEnds` is not inductive, because the
  interrupt handler would clear the flag. It holds although the receive task nests
  the lock on the path that forgets it: it stays the owner.
* `WayInv` for `NTypeOKCorrect`, `BuffersConservedCorrect` and `OrdersInOrderCorrect`. It says
  what each task holds at each place of its code (`TcpipAt`, `InputAt`, `UdpAt`, `ApiAt`), and
  that the numbers of the frames ascend along the whole way (`InOrder`). The refinement
  of `Datagrams` follows step by step: a frame that arrives is a send, one that a
  full pool or an error path drops is a loss, the copy into `udp_recvbuf` is a receipt, and a
  frame that moves from one place to the next is a stutter.
* `BoxInv` for `PostFindsRoomCorrect` and `PbufsSufficeCorrect`. The mailbox of `tcpip_thread` is
  always empty, because whoever posts to it is less urgent and so finds it waiting; the
  one exception is when the receive task has forgotten to unlock the chip. `tcpip_thread` may
  then wait for the chip for ever, one request of `udp_thread` lies in the mailbox, and
  `udp_thread` waits for its answer and posts nothing more. `Held` is the part about
  priorities: the owner of the chip is ready, and inherits what `tcpip_thread` has when
  that waits. So one place in the mailbox is enough. For the pbufs it is
  `NumPbuf >= (NumNetbuf + 2) * MaxChain`, the hypothesis of the second theorem: while the
  receive task reads, every chain in memory is in the connection's mailbox or with
  `udp_thread`, one for each netbuf, or with `tcpip_thread`, and one more must fit. The
  program has 20, and (2 + 2) * 3 is 12. The claim is about frames that are no fragments: IP
  reassembly, which is not modelled, may keep 10 pbufs more.
* `BoxInv` too for what two liveness properties say without fairness. `AnswerComesCorrect`: while
  `udp_thread` waits for the end of a request and the receiver runs, `tcpip_thread` has
  the request in hand and is ready, and nobody else owns the chip or waits for it. Its
  invariant `Unhindered` is a matter of priorities: `udp_thread`, the least urgent, posts
  the request only while the chip is free, and then `tcpip_thread`, the most urgent, runs
  until it has answered. `OwnerRunsCorrect`: whoever owns the chip is ready, so no circle of
  waits closes there. `FrameAnnouncedCorrect`: while the receive task waits for its
  semaphore, a frame in the chip has its interrupt pending. Its invariant `Announced` follows
  the receive task from its last look at the chip back to the semaphore; the
  hypotheses are that no deferred post is dropped (`~PostMayDrop`: the signal of a dropped one
  is lost for good) and that the pbufs suffice (the same bound), since the loop of an odd
  length never ends.

**Start-up** (`StartupProofs`, from `StartupAssumption`): `AddressAfterQueuesCorrect`, by the
invariant that until `start_task` is done no timer has run, the client has sent each message
once at most and the task has not given up; `ShownIsFinalCorrect`, by the invariant on
`dhcpstatus` and the place of `lwip_dhcp_task`, which rests on the priorities 4 and 5;
and with `StartupInv` `STypeOKCorrect`, `BoundAsRequestedCorrect` and
`LeaseNotOverwrittenCorrect`. `ClientInv` says what the client has sent in each state and with
which identifier, so that an old reply has another one. `InTime` is the argument for the
lease: an address is assigned only after a probe of at least one tick, in which the
task polls and sees that the client has no address yet, so the address cannot appear
between the task's last look and its assignment. `RenewsLeases` (section 2) is a condition in
the two properties themselves, `ServersAgree` one in `BoundAsRequested`.

**Memory manager** (`LoopProofs`, from `MallocAssumption`): `AllocInvCorrect`, that the map is made
of the live allocations, which are disjoint; from it `MapMatchesCorrect` and
`FailsOnlyWhenFullCorrect`. The second needs what the loop's counter is: the lemmas about
`cmemb` show that it is the length of the free stretch that starts at a block, by
considering the block nearest to the end of the pool where it would not be.

**Timers** (`LoopProofs`, from the assumption of `Timeouts`): `TimersInvCorrect`; with it
`TimersIndependentCorrect`, that the list of differences implements `Alarms`: the lemmas
about `Inserted` and `Sum` show that an insertion leaves every other handler's sum as it
was. `NotTooEarlyCorrect` from `PunctualInv`, which counts in whole ticks: the ticks since a
timer was set, the messages since and the ticks that are left are together at least its
interval.

**Relay** (`RelayProofs`, from `RelayAssumption`): `RelaySurvivesCloseCorrect` from `CInv` (the
phone's socket is the one open connection; handlers that clean up belong to connections
that were reset), and `TextsInOrderCorrect`, that `Relay` implements `Datagrams`, with the types
in `TInv`: each step maps to a send, a loss, a receipt or a stutter. `RTypeCorrect` follows.

`ListFacts` holds the lemmas on sequences the others share. The induction theorems of the
library cannot be used here; what recursive functions compute (`Sum`, `SetUp`,
`cmemb`) is proved by taking the least argument at which it would be wrong.

*Only model-checked*: the liveness properties `KeepsSampling`, `HotSleeps`, `CoolRecovers`,
`CommandHandled`, `FramesAreRead`, `SendReturns`, `TasksAreCreated` and `TextsDrain`, since the
prover does not handle fairness. Of four of them the part that is a safety property is
proved: `SampleToken` of `KeepsSampling`, `CommandDelivered` of `CommandHandled`,
`FrameAnnounced` of `FramesAreRead` and `AnswerComes` of `SendReturns`. The last three are stated in
the proof modules. They were model-checked there too before they were proved, but no run
of the project checks them.

## 5. Plan

1. *Done.* `Ucos`, `Monitor`, their runs and proofs.
2. *Done.* `Mutex`, `Network`, `Startup`, `Timeouts`, `Malloc`, `Relay`, their runs; the
   proofs above; the abstract specifications `Datagrams` and `Alarms`.
3. *Done.* Proofs of every safety property and refinement that the runs check.
4. *Partly done.* What the liveness arguments need of safety (`OwnerRuns`, `AnswerComes`,
   `FrameAnnounced`, `HandedOver`, `CommandDelivered`). Left are the decisions of
   `check_temp_task` (`HotSleeps`, `CoolRecovers`) and the ends of `Startup` and `Relay`.
5. The way of the orders through `NAT.py` and `Server.py`, composed with `Relay`.
6. The free list of `os_msg.c`, refining the sequences of `Ucos`.
