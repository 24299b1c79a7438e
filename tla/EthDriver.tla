----------------------------- MODULE EthDriver -----------------------------
(***************************************************************************)
(* The Ethernet driver of the gateway and the way of a frame to and from    *)
(* tcpip_thread: the DMA of the MAC with its two descriptor rings, the      *)
(* receive interrupt (ETH_IRQHandler of lan8720.c), ethernetif_input and    *)
(* low_level_output (ethernetif.c), tcpip_input and tcpip_apimsg            *)
(* (tcpip.c).                                                               *)
(*                                                                         *)
(* The DMA moves at any time.  The interrupt has the highest priority, so   *)
(* while it runs (isr # "idle") no task moves; tcpip_thread runs whenever   *)
(* it has a message, and the server (priority 6) only when tcpip_thread     *)
(* waits.  A frame is a number; how many pbufs it needs shows when they are *)
(* taken.                                                                   *)
(***************************************************************************)
EXTENDS Integers, Sequences, FiniteSets, Functions

CONSTANTS
  RxN,        \* ETH_RXBUFNB, descriptors and buffers of the receive ring
  TxN,        \* ETH_TXBUFNB, the same of the transmit ring
  FifoCap,    \* whole frames the MAC's receive FIFO holds
  PbufPool,   \* PBUF_POOL_SIZE
  MaxPbufs,   \* pbufs of PBUF_POOL_BUFSIZE bytes the longest frame needs
  MsgPool,    \* MEMP_NUM_TCPIP_MSG_INPKT
  MboxCap,    \* TCPIP_MBOX_SIZE
  MaxFrame,   \* bound: frames that arrive
  MaxOut      \* bound: frames the stack sends

ASSUME EthAssumption ==
  /\ RxN \in Nat /\ RxN >= 2 /\ TxN \in Nat \ {0} /\ FifoCap \in Nat \ {0}
  /\ PbufPool \in Nat \ {0} /\ MaxPbufs \in Nat \ {0} /\ MsgPool \in Nat \ {0}
  /\ MboxCap \in Nat /\ MsgPool + 1 < MboxCap
  /\ MaxFrame \in Nat /\ MaxOut \in Nat

Rx == 0..(RxN - 1)
Tx == 0..(TxN - 1)
Owner == {"dma", "cpu"}
Message == [type : {"none", "inpkt", "api"}, pbufs : 0..MaxPbufs]
NoMsg == [type |-> "none", pbufs |-> 0]
ApiMsg == [type |-> "api", pbufs |-> 0]

NextRx(i) == IF i = RxN - 1 THEN 0 ELSE i + 1     \* Buffer2NextDescAddr
NextTx(i) == IF i = TxN - 1 THEN 0 ELSE i + 1

VARIABLES
  rxOwn, rxBuf,  \* OWN bit and buffer of each receive descriptor
  dmaRx,         \* the descriptor the DMA writes next
  toGet,         \* DMARxDescToGet
  fifo,          \* frames in the MAC's FIFO
  rbus,          \* RBUS: the DMA found no free descriptor and is suspended
  pendR,         \* the R (and NIS) bit of DMASR, which asks for the interrupt
  nframe,        \* frames that arrived
  isr, cur,      \* place in ETH_IRQHandler, descriptor being copied
  passed,        \* history: the frames posted to tcpip_thread
  pool, inpkt,   \* free pbufs, free tcpip_msgs
  mbox, hand,    \* tcpip_thread's mailbox and the message it works on
  kept,          \* pbufs that wait in recvmboxes
  srv,           \* place of the server in tcpip_apimsg; "open": its call was taken
                 \* and left without an answer
  txOwn, txBuf, dmaTx, toSet, tbus,  \* the transmit ring, likewise
  out,           \* place of tcpip_thread in low_level_output
  nout,          \* frames the stack wanted to send
  taken,         \* history: frames ETH_Tx_Packet took (ETH_SUCCESS)
  refused,       \* history: frames low_level_output refused (ERR_MEM)
  wire           \* history: frames on the wire

rx == <<rxOwn, rxBuf, dmaRx, toGet, rbus, pendR>>
mac == <<fifo, nframe>>
tx == <<txOwn, txBuf, dmaTx, toSet, tbus, out, nout, taken, refused, wire>>
mem == <<pool, inpkt, kept>>
stack == <<mbox, hand, srv>>
vars == <<rx, mac, isr, cur, passed, mem, stack, tx>>

Init ==  \* ETH_DMARxDescChainInit, ETH_DMATxDescChainInit, tcpip_init
  /\ rxOwn = [i \in Rx |-> "dma"] /\ rxBuf = [i \in Rx |-> 0]
  /\ dmaRx = 0 /\ toGet = 0 /\ rbus = FALSE /\ pendR = FALSE
  /\ fifo = <<>> /\ nframe = 0
  /\ isr = "idle" /\ cur = 0 /\ passed = <<>>
  /\ pool = PbufPool /\ inpkt = MsgPool /\ kept = 0
  /\ mbox = <<>> /\ hand = NoMsg /\ srv = "run"
  /\ txOwn = [i \in Tx |-> "cpu"] /\ txBuf = [i \in Tx |-> 0]
  /\ dmaTx = 0 /\ toSet = 0 /\ tbus = FALSE
  /\ out = "idle" /\ nout = 0 /\ taken = <<>> /\ refused = {} /\ wire = <<>>

-----------------------------------------------------------------------------
(* The MAC and its DMA.                                                     *)

Arrive ==  \* a suspended receiver looks at its descriptor again
  /\ nframe < MaxFrame /\ nframe' = nframe + 1
  /\ fifo' = IF Len(fifo) < FifoCap THEN Append(fifo, nframe + 1) ELSE fifo
  /\ rbus' = FALSE
  /\ UNCHANGED <<rxOwn, rxBuf, dmaRx, toGet, pendR, isr, cur, passed, mem, stack, tx>>

(* Between the last test of the interrupt's loop and the clearing of R a    *)
(* few instructions run, and a frame takes at least 6.7 us on the wire: at  *)
(* most one is written there.                                               *)
OneInWindow == isr = "clear" => rxOwn[toGet] = "dma"

DmaWrite ==
  /\ fifo # <<>> /\ ~rbus /\ rxOwn[dmaRx] = "dma" /\ OneInWindow
  /\ rxBuf' = [rxBuf EXCEPT ![dmaRx] = Head(fifo)]
  /\ rxOwn' = [rxOwn EXCEPT ![dmaRx] = "cpu"]
  /\ fifo' = Tail(fifo) /\ dmaRx' = NextRx(dmaRx) /\ pendR' = TRUE
  /\ UNCHANGED <<toGet, rbus, nframe, isr, cur, passed, mem, stack, tx>>

DmaSuspend ==
  /\ fifo # <<>> /\ ~rbus /\ rxOwn[dmaRx] = "cpu"
  /\ rbus' = TRUE
  /\ UNCHANGED <<rxOwn, rxBuf, dmaRx, toGet, pendR, mac, isr, cur, passed, mem, stack, tx>>

DmaSend ==
  /\ ~tbus /\ txOwn[dmaTx] = "dma"
  /\ wire' = Append(wire, txBuf[dmaTx])
  /\ txOwn' = [txOwn EXCEPT ![dmaTx] = "cpu"] /\ dmaTx' = NextTx(dmaTx)
  /\ UNCHANGED <<rx, mac, isr, cur, passed, mem, stack, txBuf, toSet, tbus, out, nout, taken, refused>>

DmaSendSuspend ==
  /\ ~tbus /\ txOwn[dmaTx] = "cpu"
  /\ tbus' = TRUE
  /\ UNCHANGED <<rx, mac, isr, cur, passed, mem, stack, txOwn, txBuf, dmaTx, toSet, out, nout, taken, refused, wire>>

-----------------------------------------------------------------------------
(* ETH_IRQHandler.                                                          *)

IsrEnter ==
  /\ isr = "idle" /\ pendR
  /\ isr' = "test"
  /\ UNCHANGED <<rx, mac, cur, passed, mem, stack, tx>>

(* Faulty variant: the descriptor goes back to the DMA before the copy.     *)
IsrTestGivesBack ==
  /\ isr = "test"
  /\ IF rxOwn[toGet] = "cpu"
       THEN /\ isr' = "copy" /\ cur' = toGet /\ toGet' = NextRx(toGet)
            /\ rxOwn' = [rxOwn EXCEPT ![toGet] = "dma"]
       ELSE isr' = "clear" /\ UNCHANGED <<cur, toGet, rxOwn>>
  /\ UNCHANGED <<rxBuf, dmaRx, rbus, pendR, mac, passed, mem, stack, tx>>

IsrTest ==  \* ETH_GetRxPktSize, then ETH_Rx_Packet
  /\ isr = "test"
  /\ IF rxOwn[toGet] = "cpu"
       THEN isr' = "copy" /\ cur' = toGet /\ toGet' = NextRx(toGet)
       ELSE isr' = "clear" /\ UNCHANGED <<cur, toGet>>
  /\ UNCHANGED <<rxOwn, rxBuf, dmaRx, rbus, pendR, mac, passed, mem, stack, tx>>

(* Faulty variant: tcpip_msgs do not run out. *)
TcpipInputUnlimited(f, n) ==
  IF Len(mbox) < MboxCap
    THEN /\ mbox' = Append(mbox, [type |-> "inpkt", pbufs |-> n])
         /\ pool' = pool - n /\ passed' = Append(passed, f) /\ UNCHANGED inpkt
    ELSE UNCHANGED <<mbox, pool, inpkt, passed>>

(* Faulty variant: ethernetif_input does not free the pbufs of a frame that *)
(* tcpip_input does not take.                                               *)
TcpipInputLeaks(f, n) ==
  /\ pool' = pool - n
  /\ IF inpkt > 0 /\ Len(mbox) < MboxCap
       THEN /\ mbox' = Append(mbox, [type |-> "inpkt", pbufs |-> n])
            /\ inpkt' = inpkt - 1 /\ passed' = Append(passed, f)
       ELSE UNCHANGED <<mbox, inpkt, passed>>

(* ethernetif_input: the pbufs are taken, tcpip_input takes a tcpip_msg and *)
(* posts it; if it has none or the mailbox is full, all is given back.      *)
TcpipInput(f, n) ==
  IF inpkt > 0 /\ Len(mbox) < MboxCap
    THEN /\ mbox' = Append(mbox, [type |-> "inpkt", pbufs |-> n])
         /\ pool' = pool - n /\ inpkt' = inpkt - 1
         /\ passed' = Append(passed, f)
    ELSE UNCHANGED <<mbox, pool, inpkt, passed>>

(* Faulty variant: RBUS is not looked at. *)
IsrInputNoResume ==
  /\ isr = "copy" /\ isr' = "test"
  /\ rxOwn' = [rxOwn EXCEPT ![cur] = "dma"]
  /\ \E n \in 1..MaxPbufs : IF pool >= n THEN TcpipInput(rxBuf[cur], n)
                                         ELSE UNCHANGED <<mbox, pool, inpkt, passed>>
  /\ UNCHANGED <<rbus, rxBuf, dmaRx, toGet, pendR, mac, cur, kept, hand, srv, tx>>

(* Faulty variant: the result of pbuf_alloc is not tested. *)
IsrInputUntested ==
  /\ isr = "copy" /\ isr' = "test"
  /\ rxOwn' = [rxOwn EXCEPT ![cur] = "dma"] /\ rbus' = FALSE
  /\ \E n \in 1..MaxPbufs : TcpipInput(rxBuf[cur], n)
  /\ UNCHANGED <<rxBuf, dmaRx, toGet, pendR, mac, cur, kept, hand, srv, tx>>

(* Faulty variant: the descriptor is not given back. *)
IsrInputKeepsOwn ==
  /\ isr = "copy" /\ isr' = "test"
  /\ rbus' = FALSE
  /\ \E n \in 1..MaxPbufs : IF pool >= n THEN TcpipInput(rxBuf[cur], n)
                                         ELSE UNCHANGED <<mbox, pool, inpkt, passed>>
  /\ UNCHANGED <<rxBuf, dmaRx, toGet, pendR, mac, cur, kept, hand, srv, tx>>
  /\ UNCHANGED rxOwn

(* Faulty variant: an if in place of the while of ETH_IRQHandler. *)
IsrInputOnce ==
  /\ isr = "copy" /\ isr' = "clear"
  /\ rxOwn' = [rxOwn EXCEPT ![cur] = "dma"] /\ rbus' = FALSE
  /\ \E n \in 1..MaxPbufs : IF pool >= n THEN TcpipInput(rxBuf[cur], n)
                                         ELSE UNCHANGED <<mbox, pool, inpkt, passed>>
  /\ UNCHANGED <<rxBuf, dmaRx, toGet, pendR, mac, cur, kept, hand, srv, tx>>

IsrInput ==  \* the rest of low_level_input: pbuf_alloc, copy, OWN, RBUS; tcpip_input
  /\ isr = "copy" /\ isr' = "test"
  /\ rxOwn' = [rxOwn EXCEPT ![cur] = "dma"] /\ rbus' = FALSE
  /\ \E n \in 1..MaxPbufs : IF pool >= n THEN TcpipInput(rxBuf[cur], n)
                                         ELSE UNCHANGED <<mbox, pool, inpkt, passed>>
  /\ UNCHANGED <<rxBuf, dmaRx, toGet, pendR, mac, cur, kept, hand, srv, tx>>

IsrClear ==  \* ETH_DMAClearITPendingBit of R and NIS
  /\ isr = "clear" /\ isr' = "idle"
  /\ pendR' = FALSE
  /\ UNCHANGED <<rxOwn, rxBuf, dmaRx, toGet, rbus, mac, cur, passed, mem, stack, tx>>

-----------------------------------------------------------------------------
(* tcpip_thread.                                                            *)

TcpipFetch ==
  /\ isr = "idle" /\ hand = NoMsg /\ mbox # <<>>
  /\ hand' = Head(mbox) /\ mbox' = Tail(mbox)
  /\ UNCHANGED <<rx, mac, isr, cur, passed, mem, srv, tx>>

OutCopy ==  \* low_level_output up to the end of its loop, OWN is not looked at
  /\ isr = "idle" /\ hand # NoMsg /\ out = "idle" /\ nout < MaxOut
  /\ nout' = nout + 1 /\ out' = "copied"
  /\ txBuf' = [txBuf EXCEPT ![toSet] = nout + 1]
  /\ UNCHANGED <<rx, mac, isr, cur, passed, mem, stack, txOwn, dmaTx, toSet, tbus, taken, refused, wire>>

(* Faulty variant: OWN is not tested, a descriptor is used twice. *)
OutSendUntested ==
  /\ isr = "idle" /\ out = "copied" /\ out' = "idle"
  /\ txOwn' = [txOwn EXCEPT ![toSet] = "dma"] /\ tbus' = FALSE
  /\ toSet' = NextTx(toSet) /\ taken' = Append(taken, nout)
  /\ UNCHANGED <<refused, rx, mac, isr, cur, passed, mem, stack, txBuf, dmaTx, nout, wire>>

OutSend ==  \* ETH_Tx_Packet
  /\ isr = "idle" /\ out = "copied" /\ out' = "idle"
  /\ IF txOwn[toSet] = "dma"
       THEN refused' = refused \cup {nout} /\ UNCHANGED <<txOwn, tbus, toSet, taken>>
       ELSE /\ txOwn' = [txOwn EXCEPT ![toSet] = "dma"] /\ tbus' = FALSE
            /\ toSet' = NextTx(toSet) /\ taken' = Append(taken, nout)
            /\ UNCHANGED refused
  /\ UNCHANGED <<rx, mac, isr, cur, passed, mem, stack, txBuf, dmaTx, nout, wire>>

(* A frame is used up or kept for a recvmbox.  An API call is answered, or   *)
(* do_write or do_close left it open; a frame may then bring the            *)
(* acknowledgement or the reset that ends it (sent_tcp, err_tcp).           *)
TcpipDone ==
  /\ isr = "idle" /\ hand # NoMsg /\ out = "idle" /\ hand' = NoMsg
  /\ IF hand.type = "api"
       THEN srv' \in {"run", "open"} /\ UNCHANGED mem
       ELSE /\ \/ pool' = pool + hand.pbufs /\ UNCHANGED kept
               \/ kept' = kept + hand.pbufs /\ UNCHANGED pool
            /\ inpkt' = inpkt + 1
            /\ \/ UNCHANGED srv
               \/ srv = "open" /\ srv' = "run"
  /\ UNCHANGED <<rx, mac, isr, cur, passed, mbox, tx>>

TcpipPoll ==  \* a timer runs between two messages: poll_tcp ends an open call
  /\ isr = "idle" /\ hand = NoMsg /\ srv = "open"
  /\ srv' = "run"
  /\ UNCHANGED <<rx, mac, isr, cur, passed, mem, mbox, hand, tx>>

-----------------------------------------------------------------------------
(* tcp_server_thread, as far as it calls the stack.                         *)

TcpipWaits == isr = "idle" /\ hand = NoMsg /\ mbox = <<>>

SrvCheck ==  \* sys_mbox_valid of the mailbox, else ERR_VAL
  /\ TcpipWaits /\ srv = "run" /\ Len(mbox) < MboxCap
  /\ srv' = "post"
  /\ UNCHANGED <<rx, mac, isr, cur, passed, mem, mbox, hand, tx>>

SrvPost ==   \* sys_mbox_post repeats OSQPost until there is room; waits for op_completed
  /\ TcpipWaits /\ srv = "post" /\ Len(mbox) < MboxCap
  /\ srv' = "wait" /\ mbox' = Append(mbox, ApiMsg)
  /\ UNCHANGED <<rx, mac, isr, cur, passed, mem, hand, tx>>

SrvFree ==   \* netbuf_delete of what it took from a recvmbox
  /\ TcpipWaits /\ srv = "run" /\ kept > 0
  /\ \E n \in 1..kept : kept' = kept - n /\ pool' = pool + n
  /\ UNCHANGED <<rx, mac, isr, cur, passed, inpkt, stack, tx>>

-----------------------------------------------------------------------------
Dma == DmaWrite \/ DmaSuspend
DmaOut == DmaSend \/ DmaSendSuspend
Isr == IsrEnter \/ IsrTest \/ IsrInput \/ IsrClear
TcpipThread == TcpipFetch \/ OutCopy \/ OutSend \/ TcpipDone
Server == SrvCheck \/ SrvPost \/ SrvFree

Next == Arrive \/ Dma \/ DmaOut \/ Isr \/ TcpipThread \/ TcpipPoll \/ Server

Spec == Init /\ [][Next]_vars

(* Frames need not arrive, the server need not call, and a call that was    *)
(* left open need not end; the hardware, the interrupt and tcpip_thread go  *)
(* on whenever they can.                                                    *)
Fairness == WF_vars(Dma) /\ WF_vars(DmaOut) /\ WF_vars(Isr) /\ WF_vars(TcpipThread)

FairSpec == Spec /\ Fairness

-----------------------------------------------------------------------------
(* How far i is behind start in the ring, and how many descriptors wait for *)
(* the CPU (receive) or for the DMA (transmit).                             *)
Behind(i, start, N) == IF i >= start THEN i - start ELSE i - start + N
RxFirst == IF isr = "copy" THEN cur ELSE toGet   \* the oldest the CPU holds
Waiting == IF rxOwn[RxFirst] = "dma" THEN 0
           ELSE IF dmaRx = RxFirst THEN RxN ELSE Behind(dmaRx, RxFirst, RxN)
Queued == IF txOwn[dmaTx] = "cpu" THEN 0
          ELSE IF toSet = dmaTx THEN TxN ELSE Behind(toSet, dmaTx, TxN)

(* Every variable stays in its range. *)
TypeOK ==
  /\ rxOwn \in [Rx -> Owner] /\ rxBuf \in [Rx -> 0..MaxFrame]
  /\ dmaRx \in Rx /\ toGet \in Rx /\ cur \in Rx
  /\ rbus \in BOOLEAN /\ pendR \in BOOLEAN
  /\ fifo \in Seq(0..MaxFrame) /\ Len(fifo) <= FifoCap /\ nframe \in 0..MaxFrame
  /\ isr \in {"idle", "test", "copy", "clear"} /\ passed \in Seq(0..MaxFrame)
  /\ pool \in Nat /\ inpkt \in 0..MsgPool /\ kept \in Nat
  /\ mbox \in Seq(Message) /\ hand \in Message /\ srv \in {"run", "post", "wait", "open"}
  /\ txOwn \in [Tx -> Owner] /\ txBuf \in [Tx -> 0..MaxOut]
  /\ dmaTx \in Tx /\ toSet \in Tx /\ tbus \in BOOLEAN
  /\ out \in {"idle", "copied"} /\ nout \in 0..MaxOut
  /\ taken \in Seq(0..MaxOut) /\ refused \subseteq 0..MaxOut /\ wire \in Seq(0..MaxOut)

(* The interrupt and the DMA, and low_level_output and the DMA, divide each *)
(* ring into two arcs: what the CPU holds begins where it reads next and    *)
(* ends where the DMA writes next, and what is to be sent likewise.  No     *)
(* lock protects the rings, only the order in which OWN is tested and set.  *)
RingsSplit ==
  /\ \A i \in Rx : rxOwn[i] = "cpu" <=> Behind(i, RxFirst, RxN) < Waiting
  /\ \A i \in Tx : txOwn[i] = "dma" <=> Behind(i, dmaTx, TxN) < Queued

(* The stack sees the frames in the order in which they arrived and none    *)
(* twice, whatever is missed by the MAC or dropped for want of memory.      *)
InOrder == \A i, j \in DOMAIN passed : i < j => passed[i] < passed[j]

(* No path, not even that of a frame the stack does not take, loses a pbuf  *)
(* or a tcpip_msg: what is not free is in the mailbox, in tcpip_thread's    *)
(* hands or in a recvmbox.                                                  *)
Conserved ==
  /\ pool + kept + hand.pbufs + SumFunction([i \in DOMAIN mbox |-> mbox[i].pbufs]) = PbufPool
  /\ inpkt + Cardinality({i \in DOMAIN mbox : mbox[i].type = "inpkt"})
       + (IF hand.type = "inpkt" THEN 1 ELSE 0) = MsgPool

(* The mailbox of tcpip_thread has room at any time, since input frames use *)
(* at most MEMP_NUM_TCPIP_MSG_INPKT of its places and the server one: the   *)
(* loop of sys_mbox_post never spins, no frame is dropped for the mailbox,  *)
(* and sys_mbox_valid, which answers 0 for a full one, is right here.       *)
MailboxHasRoom == Len(mbox) < MboxCap

(* A frame may wait in the ring without an interrupt that will fetch it     *)
(* (see Announced), but only one: the next brings the interrupt, so the     *)
(* ring never fills up unseen and the receiver never stops for good.        *)
AtMostOneSilent == Waiting >= 2 => pendR

(* What leaves is what ETH_Tx_Packet took, in that order, each frame once;  *)
(* in the place of a frame that was taken, only one can go out for which    *)
(* the ring was full, with TxN frames queued before it (see                 *)
(* RefusedNotSent).                                                         *)
WireInOrder ==
  /\ Len(taken) = Len(wire) + Queued
  /\ \A i \in DOMAIN wire :
       wire[i] # taken[i] => i + TxN - 1 <= Len(taken) /\ taken[i + TxN - 1] < wire[i]

(* Neither direction stops for good, though each DMA suspends itself and    *)
(* is started again by the program only: unless it is the one silent frame, *)
(* what waits in the ring is fetched, the FIFO drains, and what             *)
(* ETH_Tx_Packet took is sent.                                              *)
RingsDrain ==
  /\ []<>(Waiting <= 1) /\ []<>(fifo = <<>>)
  /\ \A i \in Tx : txOwn[i] = "dma" ~> txOwn[i] = "cpu"

-----------------------------------------------------------------------------
(* What comments of the source say and the code does not keep.              *)

(* ETH_IRQHandler is the "Ethernet DMA receive interrupt" that "checks      *)
(* whether a packet was received" (lan8720.c:173, 176): a frame in the ring *)
(* is announced by the interrupt, or the interrupt is at work.              *)
Announced == Waiting > 0 => pendR \/ isr # "idle"

(* "ERR_MEM, sending failed" (ethernetif.c:44): a frame that is refused is  *)
(* not sent.                                                                *)
RefusedNotSent == \A i \in DOMAIN wire : wire[i] \notin refused
=============================================================================
