# TIMXX gateway: a TLA+ model

The repository is firmware for two boards. A **sensor board** (`PZ103_SPI_Slave`, STM32F103)
holds a laser scanner's telegram of `TIMXX_RECV_LEN` bytes. A **gateway** (`Alientek407_TCP_Server`,
STM32F407 with uC/OS-II and lwIP 1.4.1) asks for the telegram over SPI, decodes it to text and sends
the text to a TCP client, to which it also echoes what the client sends. `Ubuntu/decode.c` is an
offline version of the decoder. This directory models the data path of the gateway, the SPI link
between the boards, the memory pool the tasks share, the Ethernet driver, the timers of the network stack, the
kernel below them, and the start-up with the resources of the connections; TLC checks the models on small
instances and TLAPS proves the main safety properties for every value of the constants.

## 1. Inventory

| Part | Code | State | Operations | What makes it correct |
|---|---|---|---|---|
| spi_task | `USER/main.c` | `recv_ok`, `spi_recvbuf` | poll, decode into `tcp_server_sendbuf`, set `LWIP_SEND_DATA` | a scan that is sent is unmixed, at most once, in order; a pending one is replaced by an echo only |
| TCP server task | `tcp_server_demo.c` | `newconn`, `tcp_server_flag`, the buffers | accept, write, receive (10 ms), echo, close | echoes go to their sender; the loop pauses unless a client keeps sending; a closed client is released |
| netconn API and callbacks | `api_lib.c`, `api_msg.c` | netconn state, recvmbox, `write_offset`, `last_err` | accept, write in pieces, receive, close, delete; recv, sent, poll, err, accept callbacks | a blocked write goes on where it stopped; an error reaches the task |
| TCP/IP core | `core/*.c`, `tcpip.c` | pcbs, segments, timers | segments, acknowledgements, timers | (vendor code, abstracted) |
| OS adaptation | `sys_arch.c` | mailboxes, semaphores | new, free, post, trypost, fetch, valid | a mailbox is valid until it is freed; waits report their time |
| SPI link | `spi.c` of both boards, both `main.c` | positions in the loops, data registers | request, header check, packet; restart | a packet is whole; the boards find each other again |
| memory pool | `MALLOC/malloc.c` | block map | mymalloc, myfree | runs are disjoint; the map is exact; NULL only if nothing fits |
| decoder | `USER/decode.c` | none | TIMXX_Decode | gets its two temporary texts |
| kernel | `UCOSII` | ready list, events, ticks | scheduling, queues, semaphores, delays | smallest ready priority runs |
| Ethernet driver | `ethernetif.c`, `lan8720.c`, `stm32f4x7_eth.c` | descriptor rings, status bits | receive interrupt, send | frames keep their order, once each; nothing leaks; neither direction stops for good |
| start-up | `lwip_comm.c`, `main` | pool, control blocks | init with retry; netconns come and go | a failure gives back what it took; a retry can succeed |
| others | LCD, USMART, serial port, SRAM, DHCP (not compiled), the sensor board's demos | | | not part of the data path |

How they interact. The SPI link delivers a packet to spi_task. spi_task and the server share
`tcp_server_sendbuf` and one flag bit; each writes the buffer in a critical section, but spi_task tests
the flag before its section and the server's echo does not test it at all. The buffer is *read* by a third
task: `netconn_write` hands a pointer to tcpip_thread, whose `do_writemore` copies from the buffer piece by
piece, from callbacks, while the server is blocked. Clients reach the server through a recvmbox per
connection. spi_task (through the decoder) and tcpip_thread (through mailboxes) share the memory pool. The DMA
of the Ethernet MAC shares two rings of descriptors with the receive interrupt and with tcpip_thread; the
interrupt reaches tcpip_thread through its mailbox, to which the server posts its calls too.

What is hard here: a buffer that is read in pieces by another task than the one that filled it; a flag tested outside
the lock; strict priorities, so a loop that does not wait starves everything below; a mailbox whose "full" is reported
as "invalid"; rings shared with a DMA without a lock; an interrupt that the kernel does not know of; resources that
are taken one by one and run out half way; two boards that restart independently over a link without framing.
`PROJECT.json` lists these hazards at their lines with the properties that watch them.

## 2. Modules

| Module | Models | Proofs | Runs |
|---|---|---|---|
| `Gateway` | spi_task, tcp_server_thread, the netconn path of tcpip_thread | `GatewayInv` (invariant), `GatewayProofs` | `MCGateway*.cfg` |
| `ScanOutbox` | abstract: two places in a row for scans, delivered whole and once | refined by `Gateway`: mapping in `GatewayOutbox`, proof in `GatewayProofs` | `MCGateway.cfg` |
| `SpiLink` | both ends of the SPI link, byte by byte, with restarts | `SpiLinkProofs` | `MCSpiLink*.cfg` |
| `MemPool` | mymalloc and myfree entry by entry under two tasks | `MemPoolProofs` | `MCMemPool.cfg` |
| `Pool` | abstract: atomic first fit from the top | (refined by `MemPool`) | |
| `SysTimeouts` | lwIP's timers and the timed wait of tcpip_thread on uC/OS-II's tick | `SysTimeoutsProofs` | `MCSysTimeouts.cfg` |
| `TimerWheel` | abstract: timers run in the order of their times on the stack's clock | (refined by `SysTimeouts`) | |
| `EthDriver` | descriptor rings, DMA, receive interrupt, driver, tcpip_thread's mailbox | `EthDriverProofs` | `MCEthDriver.cfg`, `MCEthAnnounced.cfg` |
| `OsKernel` | ready and wait lists, queues, semaphores, tick, scheduler, PendSV | `OsKernelProofs` | `MCOsKernel*.cfg` |
| `StartUp` | lwip_comm_init with retries; control blocks and memory of the netconns | `StartUpProofs` | `MCStartUp*.cfg` |
| `SumTheorems` | (no code: sums over finite sets, for the counts in `StartUp` and `EthDriver`) | itself | |

### Gateway

One action per stretch of code in which no other task can interfere. uC/OS-II is preemptive with fixed
priorities (tcpip_thread 5, server 6, spi_task 8), so the model carries the scheduler in its guards:
spi_task moves only while the server is pended (`SrvPended`: empty acceptmbox, empty recvmbox, or blocked
in `netconn_write` or `netconn_close`); tcpip_thread may move before any step; nobody else moves while
`irq` names the owner of a critical section. A change to the buffer is made piece by piece, so that an
interleaving inside `memcpy` or `sprintf` would show if the critical section were missing.

The stack is what the program can see of it: `NetConnect`, `NetData`, `NetFin`, `NetReset`, `NetAbort`
are `accept_function`, `recv_tcp` and `err_tcp`; `NetAck` and `NetPoll` are `sent_tcp` and `poll_tcp`,
which carry on a blocked write or close. `DoWriteMore` takes as many pieces as the send buffer has room
for, or none (`ERR_MEM`), up to the length `SrvWrite` was called with: `strlen` of the buffer, taken once
(`tcp_server_demo.c:74`), kept in `write_len` for as long as the write is blocked, whatever the buffer holds by then. A
recvmbox holds texts and the NULL of a closed connection; `Post` drops what
meets a full one, because `sys_mbox_valid` says 0 there. A connection uses a netconn, a queued text uses a
pbuf of the common pool, and a frame without a pbuf does not arrive.

A content is a record `[from, id, len]`; the bytes of a text do not matter, only whose it is, which one, how many
pieces it has, and which of them is where. Behind its last piece the buffer is cleared (`Zero`). `called` is a history of
the content a write in progress was called for, `wire` of what `tcp_write` took: to whom, which place of the
buffer, what was there, and the content its write was called for. `GatewayOutbox` maps this to `ScanOutbox`: the
scan spi_task holds, the scan that is posted, and those of which the wire has all pieces in a row.

A client in `Stalls` may shut its window and never open it again; one outside acknowledges what it gets or is
aborted. Texts are bounded by `MaxMsg`, segments with an empty text (one that begins with a NUL) are not, so a client
may send without end.

### SpiLink

An exchange of a byte is a step of both boards, because the master clocks. The slave is always inside
`SPI2_WriteReadData`, so its state is the place of that call in `main`'s loop, the byte in its data
register, and which of the two waiting loops it is in. The packet is an array of indices, except for its
first fourteen letters, because the header check reads them. The boards restart at any exchange;
a restart inside a byte leaves the bytes shifted against each other (`slip`), where any letter may come
out of two neighbours once, but the only two-letter prefixes the master and the slave look for (`sS`,
`sR`) cannot. That was checked by shifting the packet, the request and the filler against each other by
one to seven bits. `SlaveConfig` switches the receiver on before `main` looks at it, so the first call may
find a stale byte; from then on the slave waits in the TXE loop and lags.

The master's time limit in `SPI2_ReadWriteByte` (10000 polls) never expires, since the master makes its
own clock; it is left out.

### MemPool

mymalloc is a scan (one map entry per step) and a marking loop, myfree a clearing loop, with the loop
variables of the code. tcpip_thread allocates and frees mailboxes with interrupts on, and is preempted by
nothing that uses the pool. spi_task allocates inside the critical section around `TIMXX_Decode`. The
server also creates a mailbox, the listening netconn's (`netconn_new`), but before there is a pcb that
could make tcpip_thread allocate; the buffers of the start-up are never freed and only make the pool
smaller from the top. `Need` gives each caller its size in blocks; in the code all mailboxes are equal,
the run also has small ones, to get more patterns of free blocks.

### SysTimeouts

tcpip_thread asks its mailbox for a message, waiting no longer than the first timer of `next_timeout`
allows (`Fetch`, `Pend`); a message arrives (`Post`) or the tick ends the wait (`Tick`); the time waited is
computed from `OSTime` and taken off the first timer (`Report`); then the message is handled (`Message`) or
the timer run (`RunTimer`). A post can still win over a tick that has ended the wait, as long as the thread
has not run. A message may open the first connection or end the last one, `tcp_tmr` may end the last one;
more of the protocols the timers do not see. `Word` is the size of `u32_t`; a counter of few ticks wraps
within the run and shows the arithmetic of both branches.

### EthDriver

The DMA moves at any time: it writes the next frame of the MAC's FIFO into its current descriptor if that is its
own and suspends itself if not; the transmit side likewise. `ETH_IRQHandler` is cut where the DMA can come in
between: the test of the descriptor, the copy with the return of the descriptor, the clearing of the status
bit. It runs above every task (`isr # "idle"` stops them); tcpip_thread runs when it has a message, the server when
tcpip_thread waits. A call of the server may be answered when tcpip_thread has handled its message, or stay open
(`srv = "open"`, `do_write` and `do_close` without room) until a later frame (`sent_tcp`) or timer (`TcpipPoll`) ends it,
if ever. `TcpipInput` is what `ethernetif_input` and `tcpip_input` do with a frame: pbufs, a message
structure and a place in the mailbox, or nothing at all. `low_level_output` is two steps, because it fills
the buffer before it looks at OWN.

Assumptions about the hardware, from the reference code's use of it: the DMA writes only whole frames without error
that fit one descriptor, so the tests of `ES`, `LS` and `FS` beside `OWN` in `ETH_GetRxPktSize` never fail and are left
out. `lan8720.c:152-156` configures it so: it forwards a frame only when it has all of it (`ETH_ReceiveStoreForward`
enabled), drops those with a wrong checksum (`ETH_DropTCPIPChecksumErrorFrame`) and keeps back errored and short
ones (`ETH_ForwardErrorFrames`, `ETH_ForwardUndersizedGoodFrames` disabled); a standard frame fits a buffer of 1524 bytes,
longer ones are not modelled. Further: fetching a descriptor and suspending is one step of the
DMA; at most one frame is written in the few instructions between the last test of the interrupt's loop and the
clearing of the bit (`OneInWindow`); overwriting a buffer the DMA is sending from changes the whole frame or
nothing of it. The
sizes in the code are 20 and 5 descriptors, 20 pbufs of 512 bytes, 8 message structures and 20 places in the mailbox.

### OsKernel

A task is its priority; lists are kept as the code keeps them, a set of groups and a set per group. Each critical
section is one step, so between `OSQPend`'s section and its `OS_Sched` a task is in a wait list and still runs
(`pc = "pended"`). The tick visits the tasks one at a time. `ETH_IRQHandler` can post at any moment, inside the tick
too, and calls neither OSIntEnter nor OSIntExit; `os_cpu_a.asm:28` gives PendSV and SysTick the lowest priority.
Tasks call what they like of the calls their constants allow; a mailbox's reader takes a timeout or not.

### StartUp

The pool is counted in blocks (where they lie is `MemPool`'s matter), the kernel's free lists by their lengths.
`lwip_comm_init` asks for eight pieces of memory, one step each, in two groups that are freed when one is missing;
then it needs a link, which comes and goes as it likes, and with a link, too, `ETH_Init` may fail: the negotiation may not
end in time, or the PHY not take a register (`BootPhy`). `netconn_alloc` is one step per resource, with an undo step
for each, and is called by the server for its listener and by tcpip_thread for a client, the latter only when the acceptmbox has room
(`sys_mbox_valid`, `api_msg.c:439`). Nobody else posts there, so the post that ends the set-up finds this room, and the
code that would take the mailbox back after a failed post (`api_msg.c:456-473`) has no action; the second part of
`RefusedOnlyWhenFull` says that it needs none. Between its steps `Decode`
may take the decoder's two texts. In the code one try takes about 2330 of 3200 blocks: beside it there is room for a
mailbox for every queue of the kernel and for one more mailbox or the two texts, but not for a second try
(`PoolAssumption`, from the sizes in `malloc.h`, `os_cfg.h` and the callers). And the six control blocks that the
timer, `mem_mutex`, tcpip_thread's mailbox and the listener hold leave four of ten: two clients. The instance keeps
both. The write of zeros to address 0 in `sys_mbox_new` (`sys_arch.c:62`) is taken to have no effect, as it lands in
flash.

## 3. Runs

| Run | Bounds | States | Shows |
|---|---|---|---|
| `gateway` | 2 scans of 2 pieces, 1 text of 1 or 3 pieces and any number of empty ones, a buffer of 3, send buffer 2, 2 connections one at a time, recvmbox 2, 2 pbufs, client 1 may shut its window | 454,286 | `TypeOK`, and: what a scan's write sends is that scan (`ScanIntact`), to its end (`ScanComplete`), in order (`ScansInOrder`), echoes to their sender (`EchoToSender`); `Refinement` of `ScanOutbox`, so a pending scan is only replaced by an echo; under `FairSpec` the lower tasks run but for a client that sends for ever (`LowerTasksRun`), what is posted is taken (`PendingTaken`) and closed clients are released (`CloseReleased`) but for one that has shut its window |
| `spilink` | packet of 30 bytes, 3 restarts | 344,243 | `PacketIntact`, `Recovers`, `LagIsForEver`, `TypeOK` |
| `mempool` | 10 blocks, 4 mailboxes of two sizes, the two texts | 141,285 | `MapExact`, `Atomic` (refinement of `Pool`, which implies that runs are disjoint and that NULL means full), `TypeOK` |
| `systimeouts` | periods of 4, 7 and 10 ms, ticks of 3 ms, a 16-tick counter, 1 waiting message, 1 tick per handler | 206,136 | `TcpTimerKept`, `Wheel` (refinement of `TimerWheel`), `TypeOK`; under `FairSpec` no timer starves (`TimersRun`) |
| `ethdriver` | rings of 3 and 2, FIFO of 1, 3 pbufs, frames of 1 or 2, 2 message structures, mailbox of 4; 4 frames in, 3 out | 346,347 | `RingsSplit`, `InOrder`, `Conserved`, `MailboxHasRoom`, `AtMostOneSilent`, `WireInOrder`, `TypeOK`; under `FairSpec` `RingsDrain` |
| `oskernel` | tasks 5, 6, 8 and idle, a mailbox of 2 and a semaphore, timeouts of 0 and 2 ticks, 3 messages, 1 signal | 133,649 | `ListsExact`, `HighestRuns`, `NoneLost`, `NoneWaitsInVain`, `TypeOK`; under `FairSpec` `Wakes` |
| `startup` | 46 blocks, a try of 30, 12 events, 4 queues, 5 netconns, acceptmbox 2 | 14,228 | `BootMemory`, `ResourcesOwned`, `RefusedOnlyWhenFull`, `DecodeHasMemory`, `TypeOK`; under `FairSpec` `StartsUnlessPhyFails` |

Why the bounds are enough. Gateway: two scans of two pieces are the smallest case in which something
can be mixed; a text shorter and one longer than a scan are the two ways in which a latched length can be wrong for what
replaced it; a send buffer of two pieces makes any content behind another, or one of three, wait half way; two connections
give what outlives a connection a second client to go to; texts and the FIN fill a mailbox of two. The safety
properties are proved for all bounds in any case, so the runs find the errors and the proofs remove the
bounds; only the liveness properties rest on the bounds alone. SpiLink: a cycle needs
fourteen letters of request and three of header; from 30 bytes on a longer packet adds only positions of
the same kind (the proofs hold for every length above fourteen). MemPool: all patterns of free runs up to ten blocks, with
requests of one to three blocks. SysTimeouts: the three timers meet in every order, with every remainder of
a tick; with 16 ticks a message in the same tick still counts, as in 32 bits, for more than the longest
period.
EthDriver: a ring of three has a first, a middle and a last descriptor and wraps with four frames, a ring of two
likewise with three; pbufs, message structures and FIFO run out one before the other in some order. The mailbox has
room for all message structures and a call, as in the code (8 + 1 of 20). OsKernel: two tasks in a group and one
beside it, a queue read with a timeout and a semaphore with two waiters; a timeout of two ticks leaves one in which
a post can meet it. StartUp: events and queues for two clients and an acceptmbox of two, so that control blocks and
queues each refuse a client somewhere and a full acceptmbox keeps one out; five netconns so that they never do.

### Runs that end in a counterexample

Each states what a comment of the source says, and TLC shows the run in which the code does otherwise.

| Run | Property | What happens |
|---|---|---|
| `gateway_torn` | `WriteIntact` | spi_task finds the flag clear and is preempted before its critical section; the server posts an echo and blocks in sending it, half way or before the first byte; spi_task overwrites the buffer; the rest that is sent is a scan's, cut off where the echo would have ended or with NULs behind it |
| `gateway_reset` | `ServerWaits` | after a reset `netconn_recv` returns the error without waiting, for ever; nothing below priority 6 runs |
| `eth_announced` | `Announced` | the interrupt clears the receive bit after its last look at the ring; a frame written in between waits there until another one comes. `AtMostOneSilent` and `RingsDrain` say that it is never more than one |
| `startup_retry` | `RetrySucceeds` | the first try finds no link, or its negotiation times out, and returns without freeing its memory; every later try fails for memory, with a link too. `StartsUnlessPhyFails` says that nothing else stops a start |
| `oskernel_usmart` | `IdleReady` | `delay_ms`, typed at the console, runs in TIM4's interrupt and delays the idle task; then no task is ready |

`ScanIntact`, `ScanComplete` and `Refinement` say what does survive of the first: a scan `netconn_write` is *called for*
is sent to its end and unmixed, and no scan replaces another. A scan that replaces a blocked echo has no such promise: it
is cut off or padded to the echo's length. Even then it is not mixed with a third content, goes to the same client, and is
not sent a second time.

Other places where code and comment part were met while modelling and are described at their hazards in
`PROJECT.json`: an echo overwrites a posted scan that was not sent (`tcp_server_demo.c:101`); data or a FIN that
meets a full recvmbox is acknowledged and dropped as if the mailbox were deleted (`sys_arch.c:164`); a byte received
during the sensor board's start-up makes it answer one exchange late for ever (`spi.c:85`); a message that arrives
in the tick it was asked for is reported as a wait of the whole counter, and the first timer runs at once
(`sys_arch.c:138`); a frame refused with ERR_MEM has been copied into the buffer of one that waits to be sent, and
goes out in its place (`ethernetif.c:50`; `RefusedNotSent` of EthDriver is false, `WireInOrder` is what is left of it).

## 4. Fairness

`Gateway!FairSpec`: weak fairness of the server, because only tcpip_thread and interrupts have priority
over it and both wait again soon; strong fairness of spi_task, because every pend of the server lasts at
least until the next tick and leaves the processor to the lower tasks, again and again rather than for
ever; weak fairness of acknowledgement-or-abort for each connection outside `Stalls`, because TCP retransmits until one of
the two happens as long as the window is open, and of `poll_tcp`, which the slow timer calls and which does not meet
`ERR_MEM` for ever. A client in `Stalls` gets no such assumption: with a shut window the persist timer probes
without a limit (`tcp.c:831-843`) and netconn_write has no timeout, so the server may stay in a write or a close for ever.
`PendingTaken` and `CloseReleased` therefore speak of the other clients, also of one that comes after such a one.
Clients need not send, close or reset, nor stop sending; while one sends for ever the server's loop need not wait (it
prints, copies and echoes up to 2000 bytes per turn), which `LowerTasksRun` and `ServerWaits` except by name (`Streaming`).

`SpiLink!FairSpec`: weak fairness of each board's program. Restarts are not fair; with finitely many of
them `Recovers` says that packets keep arriving, unless the slave is not `InStep` (it lags or is shifted:
`LagIsForEver` shows that lagging really does not heal).

`SysTimeouts!FairSpec`: weak fairness of tcpip_thread, which has the highest priority, and of the tick
interrupt. Nobody needs to post.

`EthDriver!FairSpec`: weak fairness of the receive DMA, the transmit DMA, the interrupt and tcpip_thread, each of which
goes on whenever it can. The server need not call anything and a call that stays open need not end (`TcpipPoll` is not
fair). Frames need not arrive, so `RingsDrain` allows the
one frame that waits unannounced.

`OsKernel!FairSpec`: weak fairness of PendSV and of the tick, which are only delayed by interrupts that end; strong
fairness of each task inside kernel code, because a task is current again and again rather than continuously. Tasks
need not call anything and nobody needs to post.

`StartUp!FairSpec`: weak fairness of main and of tcpip_thread in netconn_alloc, strong fairness of the server, which
runs between the clients tcpip_thread answers; strong fairness of a PHY with a link, which is asked again and again and
gets through some time. That is assumed of the hardware for `RetrySucceeds` only, which is false all the same. No client need close (`DelConn` is not fair) and the cable may stay out.

## 5. What is proved

All theorems are for every value of the constants under the module's `ASSUME`, from `Spec` alone.

*Gateway* (`GatewayInv`, `GatewayProofs`). `IInv` has a type part and a safety part. The safety part says who is in a
critical section (`LockInv`), what the buffer holds while spi_task (`SpiInv`) or the server (`SrvInv`) is at each
place, that a blocked write has the length of the content it was called for, and that this content, if it is a scan, is
still in the buffer, while an echo may only have made way for a scan (`CalledInv`); that after a part was sent the last
piece went to the served client and, if it shows a scan or what is behind one, that scan is still in the buffer
(`WireInv`); that each scan a write was called for goes on, piece by piece, to its end (`CompleteInv`); that a text in the
buffer belongs to the served client (`EchoInv`), and in which order scans are sent, in the buffer, received and counted
(`OrderInv`). Nothing in it says that contents have the same length: what replaces a blocked echo may end before or
after it. The steps that send (`SrvWrite`, `NetAck`, `NetPoll`) are reduced to one, `Sends`. From it follow
`TypeCorrect`, `InvCorrect`, `NoBlankCorrect`, `EchoCorrect`, `ScanIntactCorrect`, `ScanCompleteCorrect`,
`ScansInOrderCorrect` and `PendingScanCorrect`. `RefinementCorrect` shows that each step reads, posts, delivers or drops
one scan of `ScanOutbox` or changes nothing in it: a step that sends puts at most one scan's last piece on the wire, by
the order of the scans that one was not delivered before, and a write that ends without it drops what was posted.

*SpiLink* (`SpiLinkProofs`). `PacketIntact` alone is not inductive: inside a reply one must know that the
slave's data register holds exactly the byte the master expects next (`RxFollows`), which needs the relation
between that register and the slave's position (`DrFollows`). After the first letter the register may
instead hold the other `s` of the packet, or a letter of a slip; the second letter of the header rules
both out. `LagIsForEver` is a property of steps; it holds because a lagging slave begins its answer only at the last `a` of
a request, and from there the packet's first bytes are on the wire one exchange after the master has looked for them
(`LagInv`). Theorems `TypeCorrect`,
`PacketIntactCorrect`, `InvCorrect`, `LagCorrect`.

*MemPool* (`MemPoolProofs`). Mutual exclusion comes from masking on one side and priority on the other
(`Exclusive`). `MapInv` says what each map entry means also in the middle of a loop, `OpInv` what the loop
variables mean: the scan has passed no place that fits, and the run it counts is bounded above by a taken
block or the end. Theorems `TypeCorrect`, `InvCorrect`, `DisjointCorrect`, `MapExactCorrect`,
`FailsOnlyWhenFullCorrect`, and `AtomicCorrect`: `MemPool!Spec` implements `Pool!Spec`.

*EthDriver* (`EthDriverProofs`). Four invariants, each proved with the help of the ones before it. Types and messages
(`ApiInv`, `CountInv`): the messages in the mailbox and in tcpip_thread's hands and the free message structures add
up, with one more while a call of the server is on its way there; so the mailbox never fills. The receive ring (`RxInv`): the descriptors of
the CPU are the arc from the one that is copied, or `toGet`, to the DMA's. It needs no lock because the interrupt
returns a descriptor before it looks at the next, and the DMA gives one away only when it is its own. The order of the
frames (`OrderInv`): numbers grow from the stack over the arc to the FIFO. The transmit ring (`TxInv`): a buffer that
waits holds the frame that was taken for it, or the ring is full and its head was overwritten by a later frame. The
pbufs add up (`PbufInv`): those in the pool, with the stack, in tcpip_thread's hands and the sum over the mailbox; the
message structures are counted by the type of the messages (`InpktCount`). Theorems `ConservedCorrect`, `TypeCorrect`,
`MailboxCorrect`, `RingsSplitCorrect`, `SilentCorrect`, `InOrderCorrect`, `WireInOrderCorrect`.

*OsKernel* (`OsKernelProofs`). The first part is about the bitmaps alone: what putting in, taking out and looking for
the first of a list do (`PutList`, `RemoveList`, `FirstIs`); after it the proofs use lists as sets. `Inv` adds to
`TypeOK` and `ListsExact` what a task's place says of its TCB (`TaskInv`: in OSQPend or OSSemPend it is blocked on
that event, or it is ready with its delay cleared; only there is its status a timeout), that idle never waits
(`IdleInv`), and `SwitchInv`: while PendSV is asked for, OSTCBHighRdy is the first of the ready list and neither the
tick nor the scheduler lock is active; while it is not, the current task is ready unless it is on its way to OS_Sched.
The three need each other: that a task that returns from OSQPend is out of every wait list follows only because it
runs, hence is ready. `NoneLost` is proved queue by queue on top of `NoneWaitsInVain` (a post that wakes a task meets an
empty queue, so it cannot overtake) and `ReaderInv`. Theorems `TypeCorrect`, `ListsExactCorrect`,
`HighestRunsCorrect`, `IdleReadyCorrect`, `NoneWaitsInVainCorrect`, `NoneLostCorrect`.

*StartUp* (`StartUpProofs`). `BootMemory` speaks of the tries that ended; in the middle of one, `TriesInv` says for each
pointer of the group that is asked for whether its run is in the pool (`Partial`), so that what the test at the end
frees is exactly what the try took. That a new try has a number no old run has is a counting argument
(`NewNumberFree`). `ResourcesOwned` needs to know what a netconn has at each place of netconn_alloc, of its way back
after a failure and of netconn_delete (`AllocInv`, `ServeInv`), and that the netconn in work, the one that is served
and those in the acceptmbox are different ones (`QueueInv`, `FreeInv`).
Two properties depend on how much the pool holds. After start-up it holds one try and the mailboxes, each of which has
a queue of its own (`PairInv`), so there are no more than `MaxQs`; `PoolAssumption` then leaves room for one more mailbox
or the two texts. Hence `DecodeHasMemory`; and `RefusedOnlyWhenFull`, because what makes netconn_alloc turn back is
never the pool and, with the control blocks counted, only that `Clients` netconns are in use (`RefusalInv`, which also
says that no client is let go while one is being refused, and that while a client is set up nobody posts to the
acceptmbox). The assumptions about the constants
are that the eight pointers are different, that there are control blocks for start-up and the listener, and
`PoolAssumption`; TLC evaluates them on the instance. Theorems `TypeCorrect`, `BootMemoryCorrect`,
`ResourcesOwnedCorrect`, `RefusedCorrect`, `DecodeHasMemoryCorrect`.

*SysTimeouts* (`SysTimeoutsProofs`). `ListInv`: the list has an entry for each of the two permanent timers and one for
`tcpip_tcp_timer` while its flag is set, all different, and the distances up to each add up to no more than its
period. `WaitInv`: tcpip_thread waits only while the first distance is positive, and its wait has an end. What makes
the proof work is one lemma about `sys_timeout` (`Inserted`): the loop subtracts distances up to the place where the
new entry belongs, and the entry behind it loses what was added, so every other timer keeps its time and none is below
zero, where `u32_t` would make it four billion milliseconds. A list has three entries at the most, so `Due`, a
function defined by recursion, is unrolled three times (`DueIs`) and no induction is needed. A wait that is reported
longer than it was (the wrapped subtraction of `sys_arch_mbox_fetch`) takes the first distance to zero and no further,
which for the list is a clock that has gone on. `WheelCorrect` shows step by step that the list implements
`TimerWheel`: `Report` advances its clock, `Message` may set the TCP timer, `RunTimer` runs the timer that is due
first and sets it again or not, and every other step leaves it alone. Theorems `TimersInvariant`, `TypeCorrect`,
`TcpTimerKeptCorrect`, `WheelCorrect`.

*SumTheorems*. The sums of the models are the community modules' `SumFunction`, which is defined by recursion over
the subsets of a set. `SumIs` says that the sum of naturals `f` over a finite set is the number of cells when each element
`x` has `f[x]` of them; from it follow one element more (`SumAdd`), a subset, a sequence that loses its head. It needs no
induction over data: the set of subsets is finite, and a smallest one on which the recursion gave something else
cannot exist.

Only model-checked are the liveness properties, because liveness under fairness is out of the prover's reach:
`LowerTasksRun`, `PendingTaken` and `CloseReleased` of Gateway, `Recovers` of SpiLink, `TimersRun` of SysTimeouts,
`RingsDrain` of EthDriver, `Wakes` of OsKernel, `StartsUnlessPhyFails` of StartUp. Every invariant, step property
and refinement that a passing run checks is also a theorem.

## 6. Not modelled

Bytes of texts and the formatting of the decoder; sequence numbers, the size of windows (only a client that
shuts its own for good, `Stalls`) and retransmission inside lwIP; ARP and
IP; timers, event flags, memory partitions and task deletion of the kernel, which no task of the program uses;
register programming. Everything a part's row in `PROJECT.json` gives as its reason. Most of the repository's lines
are vendor code that the program links or only carries along and never calls with state of its own: register accessors
of two chip libraries, tables of fonts and code pages, the FAT file system, SNMP, PPP, LCD and the sensor board's
demos; they have no behaviour of the gateway to state a property of. Two assumptions are worth repeating: memory
accesses of a critical section are seen in program order (a single core), and a task's stack is large enough.

## 7. What could come next

1. A bound on the decoder's output as a function of the field widths, and the terminator of a received text of the
   full length (`tcp_server_demo.c:93`).
2. How fast lwIP's clock can run against the tick; the runs show that it can run ahead, not by how much.
3. Composition of `EthDriver` with `Gateway`: frames dropped by the driver as the losses Gateway's TCP repairs.
