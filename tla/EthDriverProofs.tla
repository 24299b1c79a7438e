-------------------------- MODULE EthDriverProofs --------------------------
(***************************************************************************)
(* The safety properties of EthDriver for rings, pools and mailboxes of any *)
(* size.  The invariant has four parts that are inductive one after the     *)
(* other: types with the messages, the receive ring, the order of the       *)
(* frames, and the transmit ring.  On the first rests the count of the     *)
(* pbufs and message structures.                                            *)
(***************************************************************************)
EXTENDS EthDriver, SumTheorems

-----------------------------------------------------------------------------
(* Messages: at most one is an API call, and while the server waits for it, *)
(* it is in the mailbox or in tcpip_thread's hands.  The others use up the  *)
(* pool of tcpip_msgs.                                                      *)

ApiInv ==
  /\ \A i, j \in 1..Len(mbox) : mbox[i].type = "api" /\ mbox[j].type = "api" => i = j
  /\ \A i \in 1..Len(mbox) : mbox[i].type = "api" => hand.type # "api"
  /\ srv = "wait" <=> (hand.type = "api" \/ \E i \in 1..Len(mbox) : mbox[i].type = "api")
  /\ \A i \in 1..Len(mbox) : mbox[i].type # "none"
  /\ hand.type = "none" => hand = NoMsg
  /\ out = "copied" => hand # NoMsg

CountInv ==
  Len(mbox) + (IF hand = NoMsg THEN 0 ELSE 1) + inpkt
    = MsgPool + (IF srv = "wait" THEN 1 ELSE 0)

(* The oldest descriptor of the CPU is where the DMA writes next if the     *)
(* ring is empty; while a frame is copied, its descriptor is not given back *)
(* and DMARxDescToGet is the one behind it.                                 *)
RxInv ==
  /\ isr = "copy" => toGet = NextRx(cur) /\ rxOwn[cur] = "cpu"
  /\ rxOwn[RxFirst] = "dma" => dmaRx = RxFirst
  /\ \A i \in Rx : rxOwn[i] = "cpu" <=> Behind(i, RxFirst, RxN) < Waiting
  /\ isr = "clear" => Waiting <= 1
  /\ Waiting >= 2 => pendR

(* Frames are in increasing order from the stack over the ring to the FIFO. *)
OrderInv ==
  /\ \A i, j \in 1..Len(passed) : i < j => passed[i] < passed[j]
  /\ \A i \in 1..Len(passed) : passed[i] <= nframe
  /\ \A i \in 1..Len(passed), r \in Rx : rxOwn[r] = "cpu" => passed[i] < rxBuf[r]
  /\ \A i \in 1..Len(passed), k \in 1..Len(fifo) : passed[i] < fifo[k]
  /\ \A r, s \in Rx :
       rxOwn[r] = "cpu" /\ rxOwn[s] = "cpu"
         /\ Behind(r, RxFirst, RxN) < Behind(s, RxFirst, RxN) => rxBuf[r] < rxBuf[s]
  /\ \A r \in Rx : rxOwn[r] = "cpu" => rxBuf[r] <= nframe
  /\ \A r \in Rx, k \in 1..Len(fifo) : rxOwn[r] = "cpu" => rxBuf[r] < fifo[k]
  /\ \A j, k \in 1..Len(fifo) : j < k => fifo[j] < fifo[k]
  /\ \A k \in 1..Len(fifo) : fifo[k] <= nframe

(* The place in taken of the frame in a descriptor of the transmit ring.    *)
Place(r) == Len(wire) + 1 + Behind(r, dmaTx, TxN)

(* A buffer that waits to be sent holds the frame that was taken for it, or *)
(* the ring is full and a later frame was written over the first.           *)
TxInv ==
  /\ txOwn[dmaTx] = "cpu" => toSet = dmaTx
  /\ \A i \in Tx : txOwn[i] = "dma" <=> Behind(i, dmaTx, TxN) < Queued
  /\ Len(taken) = Len(wire) + Queued
  /\ \A i \in 1..Len(taken) : taken[i] <= nout
  /\ out = "copied" => /\ txBuf[toSet] = nout
                       /\ \A i \in 1..Len(taken) : taken[i] < nout
  /\ \A r \in Tx : txOwn[r] = "dma" =>
       \/ txBuf[r] = taken[Place(r)]
       \/ r = toSet /\ r = dmaTx /\ taken[Len(taken)] < txBuf[r]
  /\ \A i \in 1..Len(wire) :
       wire[i] # taken[i] => i + TxN - 1 <= Len(taken) /\ taken[i + TxN - 1] < wire[i]

-----------------------------------------------------------------------------
(* Distances in the two rings.                                              *)

LEMMA RxBehind ==
  ASSUME NEW i \in Rx, NEW s \in Rx
  PROVE  /\ Behind(i, s, RxN) \in 0..(RxN - 1)
         /\ Behind(i, s, RxN) = 0 <=> i = s
         /\ \A j \in Rx : Behind(i, s, RxN) = Behind(j, s, RxN) => i = j
         /\ NextRx(i) \in Rx
         /\ Behind(NextRx(i), s, RxN) = IF NextRx(i) = s THEN 0 ELSE Behind(i, s, RxN) + 1
         /\ NextRx(i) = s <=> Behind(i, s, RxN) = RxN - 1
         /\ Behind(i, NextRx(s), RxN) = IF i = s THEN RxN - 1 ELSE Behind(i, s, RxN) - 1
BY EthAssumption DEF Behind, NextRx, Rx

LEMMA TxBehind ==
  ASSUME NEW i \in Tx, NEW s \in Tx
  PROVE  /\ Behind(i, s, TxN) \in 0..(TxN - 1)
         /\ Behind(i, s, TxN) = 0 <=> i = s
         /\ \A j \in Tx : Behind(i, s, TxN) = Behind(j, s, TxN) => i = j
         /\ NextTx(i) \in Tx
         /\ Behind(NextTx(i), s, TxN) = IF NextTx(i) = s THEN 0 ELSE Behind(i, s, TxN) + 1
         /\ NextTx(i) = s <=> Behind(i, s, TxN) = TxN - 1
         /\ Behind(i, NextTx(s), TxN) = IF i = s THEN TxN - 1 ELSE Behind(i, s, TxN) - 1
BY EthAssumption DEF Behind, NextTx, Tx

-----------------------------------------------------------------------------
(* Types and messages.                                                      *)

TypeInv == TypeOK /\ ApiInv /\ CountInv

(* TypeOK by the part of the state it is about. *)
RxType ==
  /\ rxOwn \in [Rx -> Owner] /\ rxBuf \in [Rx -> 0..MaxFrame]
  /\ dmaRx \in Rx /\ toGet \in Rx /\ cur \in Rx /\ rbus \in BOOLEAN /\ pendR \in BOOLEAN
  /\ isr \in {"idle", "test", "copy", "clear"}
MacType == fifo \in Seq(0..MaxFrame) /\ Len(fifo) <= FifoCap /\ nframe \in 0..MaxFrame
PassedType == passed \in Seq(0..MaxFrame)
MsgType ==
  /\ pool \in Nat /\ inpkt \in 0..MsgPool /\ kept \in Nat
  /\ mbox \in Seq(Message) /\ hand \in Message /\ srv \in {"run", "post", "wait", "open"}
TxType ==
  /\ txOwn \in [Tx -> Owner] /\ txBuf \in [Tx -> 0..MaxOut]
  /\ dmaTx \in Tx /\ toSet \in Tx /\ tbus \in BOOLEAN
  /\ out \in {"idle", "copied"} /\ nout \in 0..MaxOut
  /\ taken \in Seq(0..MaxOut) /\ refused \subseteq 0..MaxOut /\ wire \in Seq(0..MaxOut)

LEMMA TypeParts == TypeOK <=> RxType /\ MacType /\ PassedType /\ MsgType /\ TxType
BY DEF TypeOK, RxType, MacType, PassedType, MsgType, TxType

LEMMA TypePartsNext == TypeOK' <=> RxType' /\ MacType' /\ PassedType' /\ MsgType' /\ TxType'
BY DEF TypeOK, RxType, MacType, PassedType, MsgType, TxType

MsgInv == MsgType /\ ApiInv /\ CountInv

LEMMA TypeInvParts == TypeInv <=> RxType /\ MacType /\ PassedType /\ TxType /\ MsgInv
BY TypeParts, Zenon DEF TypeInv, MsgInv

LEMMA TypeInvPartsNext == TypeInv' <=> RxType' /\ MacType' /\ PassedType' /\ TxType' /\ MsgInv'
BY TypePartsNext, Zenon DEF TypeInv, MsgInv

(* What a step leaves alone keeps its type.                                 *)
LEMMA RxSame == RxType /\ UNCHANGED <<rx, isr, cur>> => RxType'
BY DEF RxType, rx
LEMMA MacSame == MacType /\ UNCHANGED mac => MacType'
BY DEF MacType, mac
LEMMA PassedSame == PassedType /\ UNCHANGED passed => PassedType'
BY DEF PassedType
LEMMA TxSame == TxType /\ UNCHANGED tx => TxType'
BY DEF TxType, tx
LEMMA MsgSame == MsgInv /\ UNCHANGED <<mem, stack, out>> => MsgInv'
<1> SUFFICES ASSUME MsgInv, UNCHANGED <<mem, stack, out>> PROVE MsgInv'
  OBVIOUS
<1>1. UNCHANGED <<pool, inpkt, kept, mbox, hand, srv, out>>
  BY DEF mem, stack
<1>2. MsgType'
  BY <1>1 DEF MsgInv, MsgType
<1>3. ApiInv'
  BY <1>1 DEF MsgInv, ApiInv
<1>4. CountInv'
  BY <1>1 DEF MsgInv, CountInv
<1> QED
  BY <1>2, <1>3, <1>4 DEF MsgInv

LEMMA TypeInit == Init => TypeInv
<1> SUFFICES ASSUME Init PROVE TypeInv
  OBVIOUS
<1>0. <<>> \in Seq(0..MaxFrame) /\ <<>> \in Seq(0..MaxOut)
  BY EmptySeq
<1>1. RxType /\ MacType /\ PassedType
  <2>1. 0 \in Rx /\ 0 \in 0..MaxFrame
    BY EthAssumption DEF Rx
  <2>2. rxOwn \in [Rx -> Owner] /\ rxBuf \in [Rx -> 0..MaxFrame]
    BY <2>1 DEF Init, Owner
  <2>3. Len(<<>>) = 0 /\ 0 <= FifoCap
    BY EthAssumption
  <2> QED
    BY <1>0, <2>1, <2>2, <2>3 DEF Init, RxType, MacType, PassedType
<1>2. TxType
  <2>1. 0 \in Tx /\ 0 \in 0..MaxOut
    BY EthAssumption DEF Tx
  <2>2. txOwn \in [Tx -> Owner] /\ txBuf \in [Tx -> 0..MaxOut]
    BY <2>1 DEF Init, Owner
  <2> QED
    BY <1>0, <2>1, <2>2 DEF Init, TxType
<1>3. MsgType
  BY EthAssumption DEF Init, MsgType, Message, NoMsg
<1>4. ApiInv
  BY DEF Init, ApiInv, NoMsg
<1>5. CountInv
  BY EthAssumption DEF Init, CountInv
<1>6. MsgInv
  BY <1>3, <1>4, <1>5 DEF MsgInv
<1> QED
  BY <1>1, <1>2, <1>6, TypeInvParts

(* The mailbox stays below its size, whatever is in it. *)
LEMMA Room ==
  ASSUME TypeInv
  PROVE  Len(mbox) <= MsgPool + 1 /\ Len(mbox) < MboxCap
<1>1. mbox \in Seq(Message) /\ inpkt \in 0..MsgPool /\ CountInv
  BY DEF TypeInv, TypeOK
<1>2. MsgPool \in Nat /\ MboxCap \in Nat /\ MsgPool + 1 < MboxCap
  BY EthAssumption
<1>3. Len(mbox) \in Nat /\ inpkt \in Nat
  BY <1>1, <1>2
<1> QED
  BY <1>1, <1>2, <1>3 DEF CountInv

(* Successors stay in their ring.                                           *)
LEMMA NextIn == (\A i \in Rx : NextRx(i) \in Rx) /\ (\A i \in Tx : NextTx(i) \in Tx)
BY EthAssumption DEF NextRx, NextTx, Rx, Tx

(* The hardware and the first and last steps of the interrupt change no     *)
(* message.                                                                 *)
LEMMA TypeRings ==
  ASSUME TypeInv, Arrive \/ Dma \/ DmaOut \/ IsrEnter \/ IsrTest \/ IsrClear
  PROVE  TypeInv'
<1>1. RxType /\ MacType /\ PassedType /\ TxType /\ MsgInv
  BY TypeInvParts
<1>2. UNCHANGED <<mem, stack, out, passed>>
  BY DEF Arrive, Dma, DmaWrite, DmaSuspend, DmaOut, DmaSend, DmaSendSuspend, IsrEnter, IsrTest, IsrClear, tx
<1>3. RxType'
  <2>1. CASE Arrive \/ DmaSuspend \/ IsrEnter \/ IsrClear
    BY <1>1, <2>1 DEF Arrive, DmaSuspend, IsrEnter, IsrClear, RxType, rx
  <2>2. CASE DmaWrite
    <3>1. Head(fifo) \in 0..MaxFrame
      BY <1>1, <2>2, HeadTailProperties DEF DmaWrite, MacType
    <3> QED
      BY <1>1, <2>2, <3>1, NextIn DEF DmaWrite, RxType, Owner
  <2>3. CASE IsrTest
    BY <1>1, <2>3, NextIn DEF IsrTest, RxType
  <2>4. CASE DmaOut
    BY <1>1, <2>4, RxSame DEF DmaOut, DmaSend, DmaSendSuspend
  <2> QED
    BY <2>1, <2>2, <2>3, <2>4 DEF Dma
<1>4. MacType'
  <2>1. CASE Arrive
    <3>1. nframe + 1 \in 0..MaxFrame
      BY <1>1, <2>1, EthAssumption DEF Arrive, MacType
    <3>2. Append(fifo, nframe + 1) \in Seq(0..MaxFrame) /\ Len(Append(fifo, nframe + 1)) = Len(fifo) + 1
      BY <1>1, <3>1, AppendProperties DEF MacType
    <3>3. Len(fifo) \in Nat
      BY <1>1 DEF MacType
    <3> DEFINE f == Append(fifo, nframe + 1)
    <3>4. fifo' = IF Len(fifo) < FifoCap THEN f ELSE fifo
      BY <2>1 DEF Arrive
    <3>5. nframe' \in 0..MaxFrame
      BY <2>1, <3>1 DEF Arrive
    <3>6. f \in Seq(0..MaxFrame) /\ Len(f) = Len(fifo) + 1
      BY <3>2
    <3> HIDE DEF f
    <3>7. fifo' \in Seq(0..MaxFrame)
      BY <1>1, <3>4, <3>6 DEF MacType
    <3>8. Len(fifo') <= FifoCap
      BY <1>1, <3>3, <3>4, <3>6, EthAssumption DEF MacType
    <3> QED
      BY <3>5, <3>7, <3>8 DEF MacType
  <2>2. CASE DmaWrite
    BY <1>1, <2>2, EthAssumption DEF DmaWrite, MacType
  <2>3. CASE UNCHANGED mac
    BY <1>1, <2>3, MacSame
  <2> QED
    BY <2>1, <2>2, <2>3 DEF Dma, DmaOut, DmaSuspend, DmaSend, DmaSendSuspend, IsrEnter, IsrTest, IsrClear
<1>5. TxType'
  <2>1. CASE DmaSend
    <3>1. wire' \in Seq(0..MaxOut)
      BY <1>1, <2>1 DEF DmaSend, TxType
    <3> QED
      BY <1>1, <2>1, <3>1, NextIn DEF DmaSend, TxType, Owner
  <2>2. CASE DmaSendSuspend
    BY <1>1, <2>2 DEF DmaSendSuspend, TxType
  <2>3. CASE UNCHANGED tx
    BY <1>1, <2>3, TxSame
  <2> QED
    BY <2>1, <2>2, <2>3 DEF Dma, DmaOut, Arrive, DmaWrite, DmaSuspend, IsrEnter, IsrTest, IsrClear
<1> QED
  BY <1>1, <1>2, <1>3, <1>4, <1>5, PassedSame, MsgSame, TypeInvPartsNext

LEMMA TypeOut ==
  ASSUME TypeInv, OutCopy \/ OutSend
  PROVE  TypeInv'
<1>1. RxType /\ MacType /\ PassedType /\ TxType /\ MsgInv
  BY TypeInvParts
<1>2. UNCHANGED <<rx, isr, cur, mac, passed>>
  BY DEF OutCopy, OutSend
<1>3. MsgInv'
  BY <1>1 DEF OutCopy, OutSend, MsgInv, MsgType, ApiInv, CountInv, mem, stack
<1>4. TxType'
  <2>1. CASE OutCopy
    BY <1>1, <2>1, EthAssumption DEF OutCopy, TxType
  <2>2. CASE OutSend
    <3>0. Append(taken, nout) \in Seq(0..MaxOut)
      BY <1>1, AppendProperties DEF TxType
    <3>1. taken' \in Seq(0..MaxOut) /\ refused' \subseteq 0..MaxOut
      BY <1>1, <2>2, <3>0 DEF OutSend, TxType
    <3> QED
      BY <1>1, <2>2, <3>1, NextIn DEF OutSend, TxType, Owner
  <2> QED
    BY <2>1, <2>2
<1> QED
  BY <1>1, <1>2, <1>3, <1>4, RxSame, MacSame, PassedSame, TypeInvPartsNext

(* A frame the stack takes is one more message and one tcpip_msg less.      *)
LEMMA TypeInput ==
  ASSUME TypeInv, IsrInput
  PROVE  TypeInv'
<1>1. RxType /\ MacType /\ PassedType /\ TxType /\ MsgInv
  BY TypeInvParts
<1>2. UNCHANGED <<mac, kept, hand, srv, tx, out>>
  BY DEF IsrInput, tx
<1>3. RxType'
  BY <1>1 DEF IsrInput, RxType, Owner
<1>4. PICK n \in 1..MaxPbufs : IF pool >= n THEN TcpipInput(rxBuf[cur], n)
                                           ELSE UNCHANGED <<mbox, pool, inpkt, passed>>
  BY DEF IsrInput
<1>5. CASE UNCHANGED <<mbox, pool, inpkt, passed>>
  <2>1. MsgInv' /\ PassedType'
    BY <1>1, <1>2, <1>5 DEF MsgInv, MsgType, ApiInv, CountInv, PassedType
  <2> QED
    BY <1>1, <1>2, <1>3, <2>1, MacSame, TxSame, TypeInvPartsNext
<1>6. CASE /\ pool >= n /\ inpkt > 0
           /\ mbox' = Append(mbox, [type |-> "inpkt", pbufs |-> n])
           /\ pool' = pool - n /\ inpkt' = inpkt - 1
           /\ passed' = Append(passed, rxBuf[cur])
  <2> DEFINE m == [type |-> "inpkt", pbufs |-> n]
  <2>1. m \in Message /\ m.type = "inpkt"
    BY EthAssumption DEF Message
  <2>2. mbox \in Seq(Message) /\ Len(mbox) \in Nat /\ mbox' = Append(mbox, m)
    BY <1>1, <1>6 DEF MsgInv, MsgType
  <2> HIDE DEF m
  <2>3. /\ mbox' \in Seq(Message) /\ Len(mbox') = Len(mbox) + 1
        /\ \A i \in 1..Len(mbox) : mbox'[i] = mbox[i]
        /\ mbox'[Len(mbox) + 1] = m
    BY <2>1, <2>2
  <2>4. MsgType'
    BY <1>1, <1>2, <1>6, <2>3, EthAssumption DEF MsgInv, MsgType
  <2>5. ApiInv'
    <3>1. \A i \in 1..Len(mbox') :
            \/ i = Len(mbox) + 1 /\ mbox'[i].type = "inpkt"
            \/ i \in 1..Len(mbox) /\ mbox'[i] = mbox[i]
      BY <2>1, <2>2, <2>3
    <3>2. \A i \in 1..Len(mbox) : i \in 1..Len(mbox') /\ mbox'[i] = mbox[i]
      BY <2>2, <2>3
    <3> QED
      BY <1>1, <1>2, <3>1, <3>2 DEF MsgInv, ApiInv
  <2>6. CountInv'
    BY <1>1, <1>2, <1>6, <2>2, <2>3, EthAssumption DEF CountInv, MsgInv, MsgType
  <2>7. PassedType'
    BY <1>1, <1>6 DEF PassedType, RxType
  <2> QED
    BY <1>1, <1>2, <1>3, <2>4, <2>5, <2>6, <2>7, MacSame, TxSame, TypeInvPartsNext DEF MsgInv
<1> QED
  BY <1>4, <1>5, <1>6 DEF TcpipInput

LEMMA TypeFetch ==
  ASSUME TypeInv, TcpipFetch
  PROVE  TypeInv'
<1>1. RxType /\ MacType /\ PassedType /\ TxType /\ MsgInv
  BY TypeInvParts
<1>2. UNCHANGED <<rx, mac, isr, cur, passed, pool, inpkt, kept, srv, tx, out>>
  BY DEF TcpipFetch, mem, tx
<1>3. /\ mbox \in Seq(Message) /\ Len(mbox) \in Nat /\ Len(mbox) > 0
      /\ hand' = mbox[1] /\ hand' \in Message /\ mbox' \in Seq(Message)
      /\ Len(mbox') = Len(mbox) - 1
      /\ \A i \in 1..Len(mbox') : mbox'[i] = mbox[i + 1]
      /\ hand = NoMsg
  BY <1>1 DEF TcpipFetch, MsgInv, MsgType
<1>4. MsgType'
  BY <1>1, <1>2, <1>3 DEF MsgInv, MsgType
<1>5. hand.type # "api" /\ hand'.type # "none" /\ hand' # NoMsg
  BY <1>1, <1>3 DEF MsgInv, ApiInv, NoMsg
<1>6. ApiInv'
  <2>1. \A i \in 1..Len(mbox') : i + 1 \in 1..Len(mbox) /\ mbox'[i] = mbox[i + 1] /\ i + 1 # 1
    BY <1>3
  <2>2. \A i \in 1..Len(mbox) : i = 1 \/ (i - 1 \in 1..Len(mbox') /\ mbox'[i - 1] = mbox[i])
    BY <1>3
  <2>3. 1 \in 1..Len(mbox)
    BY <1>3
  <2>4. srv' = "wait" <=> (hand'.type = "api" \/ \E i \in 1..Len(mbox') : mbox'[i].type = "api")
    <3>1. srv = "wait" <=> \E i \in 1..Len(mbox) : mbox[i].type = "api"
      BY <1>1, <1>5 DEF MsgInv, ApiInv
    <3>2. (\E i \in 1..Len(mbox) : mbox[i].type = "api")
            => (hand'.type = "api" \/ \E i \in 1..Len(mbox') : mbox'[i].type = "api")
      BY <1>3, <2>2
    <3>3. (hand'.type = "api" \/ \E i \in 1..Len(mbox') : mbox'[i].type = "api")
            => \E i \in 1..Len(mbox) : mbox[i].type = "api"
      BY <1>3, <2>1, <2>3
    <3> QED
      BY <1>2, <3>1, <3>2, <3>3
  <2>5. \A i, j \in 1..Len(mbox') : mbox'[i].type = "api" /\ mbox'[j].type = "api" => i = j
    <3> SUFFICES ASSUME NEW i \in 1..Len(mbox'), NEW j \in 1..Len(mbox'),
                        mbox'[i].type = "api", mbox'[j].type = "api"
                 PROVE  i = j
      OBVIOUS
    <3>1. i + 1 = j + 1
      BY <1>1, <2>1 DEF MsgInv, ApiInv
    <3> QED
      BY <3>1, <1>3
  <2>6. \A i \in 1..Len(mbox') : mbox'[i].type = "api" => hand'.type # "api"
    BY <1>1, <1>3, <2>1, <2>3 DEF MsgInv, ApiInv
  <2>7. \A i \in 1..Len(mbox') : mbox'[i].type # "none"
    BY <1>1, <2>1 DEF MsgInv, ApiInv
  <2> QED
    BY <1>5, <2>4, <2>5, <2>6, <2>7 DEF ApiInv
<1>7. CountInv'
  BY <1>1, <1>2, <1>3, <1>5, EthAssumption DEF CountInv, MsgInv, MsgType
<1> QED
  BY <1>1, <1>2, <1>4, <1>6, <1>7, RxSame, MacSame, PassedSame, TxSame, TypeInvPartsNext DEF MsgInv

LEMMA TypeDone ==
  ASSUME TypeInv, TcpipDone
  PROVE  TypeInv'
<1>1. RxType /\ MacType /\ PassedType /\ TxType /\ MsgInv
  BY TypeInvParts
<1>2. UNCHANGED <<rx, mac, isr, cur, passed, mbox, tx, out>>
  BY DEF TcpipDone, tx
<1>3. hand # NoMsg /\ out = "idle" /\ hand' = NoMsg /\ hand.pbufs \in Nat /\ NoMsg \in Message
  BY <1>1, EthAssumption DEF TcpipDone, MsgInv, MsgType, Message, NoMsg
<1>4. ApiInv'
  <2>1. srv' = "wait" <=> srv = "wait" /\ hand.type # "api"
    BY DEF TcpipDone
  <2> QED
    BY <1>1, <1>2, <1>3, <2>1 DEF MsgInv, ApiInv, NoMsg
<1>5. CASE hand.type = "api"
  <2>1. srv = "wait" /\ srv' \in {"run", "open"} /\ UNCHANGED <<pool, inpkt, kept>>
    BY <1>1, <1>5 DEF TcpipDone, mem, MsgInv, ApiInv
  <2>2. MsgType' /\ CountInv'
    BY <1>1, <1>2, <1>3, <2>1, EthAssumption DEF MsgInv, MsgType, CountInv
  <2> QED
    BY <1>1, <1>2, <1>4, <2>2, RxSame, MacSame, PassedSame, TxSame, TypeInvPartsNext DEF MsgInv
<1>6. CASE hand.type # "api"
  <2>1. /\ inpkt' = inpkt + 1 /\ pool' \in Nat /\ kept' \in Nat
        /\ srv' = srv \/ (srv = "open" /\ srv' = "run")
    BY <1>1, <1>3, <1>6 DEF TcpipDone, MsgInv, MsgType
  <2>2. srv = "wait" => Len(mbox) >= 1
    BY <1>1, <1>6 DEF MsgInv, ApiInv, MsgType
  <2>3. CountInv' /\ inpkt' \in 0..MsgPool
    BY <1>1, <1>2, <1>3, <2>1, <2>2, EthAssumption DEF MsgInv, MsgType, CountInv
  <2>4. MsgType'
    BY <1>1, <1>2, <1>3, <2>1, <2>3 DEF MsgInv, MsgType
  <2> QED
    BY <1>1, <1>2, <1>4, <2>3, <2>4, RxSame, MacSame, PassedSame, TxSame, TypeInvPartsNext DEF MsgInv
<1> QED
  BY <1>5, <1>6

LEMMA TypePoll ==
  ASSUME TypeInv, TcpipPoll
  PROVE  TypeInv'
<1>1. RxType /\ MacType /\ PassedType /\ TxType /\ MsgInv
  BY TypeInvParts
<1>2. UNCHANGED <<rx, mac, isr, cur, passed, pool, inpkt, kept, mbox, hand, tx, out>>
  BY DEF TcpipPoll, tx, mem
<1>3. srv = "open" /\ srv' = "run"
  BY DEF TcpipPoll
<1>4. MsgInv'
  BY <1>1, <1>2, <1>3 DEF MsgInv, MsgType, ApiInv, CountInv
<1> QED
  BY <1>1, <1>2, <1>4, RxSame, MacSame, PassedSame, TxSame, TypeInvPartsNext

LEMMA TypeServer ==
  ASSUME TypeInv, Server
  PROVE  TypeInv'
<1>1. RxType /\ MacType /\ PassedType /\ TxType /\ MsgInv
  BY TypeInvParts
<1>2. UNCHANGED <<rx, mac, isr, cur, passed, inpkt, hand, tx, out>>
  BY DEF Server, SrvCheck, SrvPost, SrvFree, tx, mem, stack
<1>3. MsgInv'
  <2>1. CASE SrvCheck
    BY <1>1, <1>2, <2>1 DEF SrvCheck, MsgInv, MsgType, ApiInv, CountInv, mem
  <2>2. CASE SrvPost
    <3>1. /\ mbox = <<>> /\ hand = NoMsg /\ mbox' = <<ApiMsg>>
          /\ srv' = "wait" /\ srv = "post" /\ UNCHANGED <<pool, kept>>
      BY <2>2 DEF SrvPost, TcpipWaits, mem
    <3>2. ApiMsg \in Message /\ ApiMsg.type = "api" /\ NoMsg.type = "none"
      BY EthAssumption DEF ApiMsg, NoMsg, Message
    <3>3. mbox' \in Seq(Message) /\ Len(mbox') = 1 /\ mbox'[1] = ApiMsg /\ Len(mbox) = 0
      BY <3>1, <3>2
    <3>4. MsgType'
      BY <1>1, <1>2, <3>1, <3>3 DEF MsgInv, MsgType
    <3>5. ApiInv'
      BY <1>1, <1>2, <3>1, <3>2, <3>3 DEF MsgInv, ApiInv
    <3>6. CountInv'
      BY <1>1, <1>2, <3>1, <3>3, EthAssumption DEF MsgInv, MsgType, CountInv
    <3> QED
      BY <3>4, <3>5, <3>6 DEF MsgInv
  <2>3. CASE SrvFree
    <3>1. kept' \in Nat /\ pool' \in Nat /\ UNCHANGED <<mbox, srv>>
      BY <1>1, <2>3 DEF SrvFree, stack, MsgInv, MsgType
    <3> QED
      BY <1>1, <1>2, <3>1 DEF MsgInv, MsgType, ApiInv, CountInv
  <2> QED
    BY <2>1, <2>2, <2>3 DEF Server
<1> QED
  BY <1>1, <1>2, <1>3, RxSame, MacSame, PassedSame, TxSame, TypeInvPartsNext

LEMMA TypeStep == TypeInv /\ [Next]_vars => TypeInv'
<1> SUFFICES ASSUME TypeInv, [Next]_vars PROVE TypeInv'
  OBVIOUS
<1>1. CASE UNCHANGED vars
  BY <1>1, RxSame, MacSame, PassedSame, TxSame, MsgSame, TypeInvParts, TypeInvPartsNext DEF vars, tx
<1> QED
  BY <1>1, TypeRings, TypeOut, TypeInput, TypeFetch, TypeDone, TypePoll, TypeServer DEF Next, Isr, TcpipThread

(* Every variable stays in its range: no position leaves its ring, no count *)
(* of free pbufs or messages passes zero or, for messages, its pool.        *)
THEOREM TypeCorrect == Spec => []TypeOK
<1>1. TypeInv => TypeOK
  BY DEF TypeInv
<1> QED
  BY <1>1, TypeInit, TypeStep, PTL DEF Spec

(* The mailbox of tcpip_thread has room at any time.                        *)
THEOREM MailboxCorrect == Spec => []MailboxHasRoom
<1>1. TypeInv => MailboxHasRoom
  BY Room DEF MailboxHasRoom
<1> QED
  BY <1>1, TypeInit, TypeStep, PTL DEF Spec

-----------------------------------------------------------------------------
(* The receive ring.                                                        *)

(* The next place of the oldest descriptor and the number of those that     *)
(* wait, step by step.                                                      *)
LEMMA RxArc ==
  ASSUME TypeOK, RxInv
  PROVE  /\ RxFirst \in Rx /\ Waiting \in 0..RxN
         /\ Waiting = 0 <=> rxOwn[RxFirst] = "dma"
         /\ 0 < Waiting /\ Waiting < RxN => Waiting = Behind(dmaRx, RxFirst, RxN)
         /\ Waiting = RxN => dmaRx = RxFirst
<1>1. RxFirst \in Rx /\ rxOwn[RxFirst] \in Owner
  BY DEF TypeOK, RxFirst
<1>2. Behind(dmaRx, RxFirst, RxN) \in 0..(RxN - 1)
      /\ (Behind(dmaRx, RxFirst, RxN) = 0 <=> dmaRx = RxFirst)
  BY <1>1, RxBehind DEF TypeOK
<1> QED
  BY <1>1, <1>2, EthAssumption DEF Waiting, Owner

LEMMA WaitingNext ==
  Waiting' = IF rxOwn'[RxFirst'] = "dma" THEN 0
             ELSE IF dmaRx' = RxFirst' THEN RxN ELSE Behind(dmaRx', RxFirst', RxN)
BY DEF Waiting

(* A step that leaves the ring alone and does not move its oldest place.    *)
LEMMA RxKeep ==
  ASSUME TypeOK, RxInv, UNCHANGED <<rxOwn, dmaRx>>, RxFirst' = RxFirst,
         isr' = "copy" => toGet' = NextRx(cur') /\ rxOwn[cur'] = "cpu",
         isr' = "clear" => isr = "clear" \/ (rxOwn[toGet] = "dma" /\ isr = "test"),
         pendR => pendR'
  PROVE  RxInv'
<1>1. Waiting' = Waiting
  BY WaitingNext DEF Waiting
<1>2. isr' = "clear" => Waiting' <= 1
  BY <1>1 DEF RxInv, Waiting, RxFirst
<1>3. Waiting' >= 2 => pendR'
  BY <1>1, RxArc DEF RxInv
<1>4. \A i \in Rx : rxOwn'[i] = "cpu" <=> Behind(i, RxFirst', RxN) < Waiting'
  BY <1>1 DEF RxInv
<1> QED
  BY <1>2, <1>3, <1>4 DEF RxInv

(* A frame is written: one more descriptor waits.                           *)
LEMMA RxWrite ==
  ASSUME TypeOK, RxInv, DmaWrite
  PROVE  RxInv' /\ Waiting' = Waiting + 1 /\ Behind(dmaRx, RxFirst, RxN) = Waiting
<1>1. /\ rxOwn[dmaRx] = "dma" /\ dmaRx \in Rx /\ dmaRx' = NextRx(dmaRx) /\ pendR' = TRUE
      /\ rxOwn' = [rxOwn EXCEPT ![dmaRx] = "cpu"] /\ UNCHANGED <<isr, cur, toGet>>
      /\ isr = "clear" => rxOwn[toGet] = "dma"
  BY DEF DmaWrite, TypeOK, OneInWindow
<1>2. RxFirst' = RxFirst /\ RxFirst \in Rx
  BY <1>1, RxArc DEF RxFirst
<1>3. /\ Behind(dmaRx, RxFirst, RxN) \in 0..(RxN - 1)
      /\ Behind(dmaRx, RxFirst, RxN) = 0 <=> dmaRx = RxFirst
      /\ \A j \in Rx : Behind(dmaRx, RxFirst, RxN) = Behind(j, RxFirst, RxN) => dmaRx = j
      /\ Behind(NextRx(dmaRx), RxFirst, RxN)
           = IF NextRx(dmaRx) = RxFirst THEN 0 ELSE Behind(dmaRx, RxFirst, RxN) + 1
      /\ NextRx(dmaRx) = RxFirst <=> Behind(dmaRx, RxFirst, RxN) = RxN - 1
  BY <1>1, <1>2, RxBehind
<1>4. Behind(dmaRx, RxFirst, RxN) = Waiting
  <2>1. Behind(dmaRx, RxFirst, RxN) >= Waiting
    BY <1>1, <1>3, RxArc, EthAssumption DEF RxInv
  <2> QED
    BY <2>1, <1>3, RxArc, EthAssumption DEF RxInv
<1>5. rxOwn'[RxFirst'] = "cpu"
  BY <1>1, <1>2, <1>3, <1>4, RxArc DEF TypeOK, Owner
<1>6. Waiting' = Waiting + 1
  BY <1>1, <1>2, <1>3, <1>4, <1>5, WaitingNext, EthAssumption
<1>7. \A i \in Rx : rxOwn'[i] = "cpu" <=> Behind(i, RxFirst', RxN) < Waiting'
  <2> SUFFICES ASSUME NEW i \in Rx
               PROVE  rxOwn'[i] = "cpu" <=> Behind(i, RxFirst, RxN) < Waiting + 1
    BY <1>2, <1>6
  <2>1. Behind(i, RxFirst, RxN) \in 0..(RxN - 1)
    BY <1>2, RxBehind
  <2>2. CASE i = dmaRx
    BY <1>1, <1>4, <2>1, <2>2, RxArc DEF TypeOK
  <2>3. CASE i # dmaRx
    <3>1. rxOwn'[i] = rxOwn[i] /\ Behind(i, RxFirst, RxN) # Waiting
      BY <1>1, <1>3, <1>4, <2>3 DEF TypeOK
    <3> QED
      BY <2>1, <3>1, RxArc DEF RxInv
  <2> QED
    BY <2>2, <2>3
<1>8. isr' = "clear" => Waiting' <= 1
  BY <1>1, <1>6, RxArc DEF RxFirst
<1>9. isr' = "copy" => toGet' = NextRx(cur') /\ rxOwn'[cur'] = "cpu"
  BY <1>1 DEF RxInv, TypeOK
<1> QED
  BY <1>1, <1>4, <1>5, <1>6, <1>7, <1>8, <1>9 DEF RxInv

(* A frame was copied: the oldest descriptor goes back to the DMA.          *)
LEMMA RxGive ==
  ASSUME TypeOK, RxInv, IsrInput
  PROVE  RxInv' /\ RxFirst = cur /\ RxFirst' = NextRx(RxFirst) /\ Waiting' = Waiting - 1 /\ Waiting >= 1
<1>1. /\ isr = "copy" /\ isr' = "test" /\ rxOwn' = [rxOwn EXCEPT ![cur] = "dma"]
      /\ UNCHANGED <<dmaRx, toGet, pendR, cur>>
  BY DEF IsrInput
<1>2. /\ RxFirst = cur /\ cur \in Rx /\ RxFirst' = NextRx(cur) /\ rxOwn[cur] = "cpu"
      /\ NextRx(cur) \in Rx /\ dmaRx \in Rx
  BY <1>1, RxBehind DEF RxFirst, RxInv, TypeOK
<1>3. Waiting \in 1..RxN
  BY <1>2, RxArc, EthAssumption
<1>4. Behind(NextRx(cur), cur, RxN) = 1 /\ NextRx(cur) # cur
  <2>1. Behind(cur, cur, RxN) = 0
    BY <1>2, RxBehind
  <2>2. NextRx(cur) # cur
    BY <1>2, <2>1, RxBehind, EthAssumption
  <2> QED
    BY <1>2, <2>1, <2>2, RxBehind
<1>5. /\ Behind(dmaRx, cur, RxN) = 0 <=> dmaRx = cur
      /\ Behind(dmaRx, cur, RxN) = Behind(NextRx(cur), cur, RxN) => dmaRx = NextRx(cur)
      /\ Behind(dmaRx, NextRx(cur), RxN) = IF dmaRx = cur THEN RxN - 1 ELSE Behind(dmaRx, cur, RxN) - 1
  BY <1>2, RxBehind
<1>6. rxOwn'[NextRx(cur)] = rxOwn[NextRx(cur)] /\ (rxOwn[NextRx(cur)] = "cpu" <=> 1 < Waiting)
  BY <1>1, <1>2, <1>4 DEF TypeOK, RxInv
<1>7. rxOwn[NextRx(cur)] \in {"dma", "cpu"}
  BY <1>2 DEF TypeOK, Owner
<1>8. Waiting' = Waiting - 1 /\ (rxOwn'[RxFirst'] = "dma" => dmaRx' = RxFirst')
  <2>1. CASE Waiting = 1
    <3>1. dmaRx = NextRx(cur)
      BY <1>2, <1>4, <1>5, <2>1, RxArc, EthAssumption
    <3> QED
      BY <1>1, <1>2, <1>6, <1>7, <2>1, <3>1, WaitingNext
  <2>2. CASE Waiting # 1
    <3>1. rxOwn'[RxFirst'] = "cpu"
      BY <1>2, <1>3, <1>6, <2>2
    <3>2. dmaRx # NextRx(cur)
      BY <1>2, <1>3, <1>4, <2>2, RxArc, EthAssumption
    <3>3. Behind(dmaRx, NextRx(cur), RxN) = Waiting - 1
      BY <1>2, <1>3, <1>5, RxArc, EthAssumption
    <3> QED
      BY <1>1, <1>2, <3>1, <3>2, <3>3, WaitingNext
  <2> QED
    BY <2>1, <2>2
<1>9. \A i \in Rx : rxOwn'[i] = "cpu" <=> Behind(i, RxFirst', RxN) < Waiting'
  <2> SUFFICES ASSUME NEW i \in Rx
               PROVE  rxOwn'[i] = "cpu" <=> Behind(i, NextRx(cur), RxN) < Waiting - 1
    BY <1>2, <1>8
  <2>1. /\ Behind(i, NextRx(cur), RxN) = IF i = cur THEN RxN - 1 ELSE Behind(i, cur, RxN) - 1
        /\ Behind(i, cur, RxN) \in 0..(RxN - 1)
    BY <1>2, RxBehind
  <2>2. CASE i = cur
    BY <1>1, <1>3, <2>1, <2>2, EthAssumption DEF TypeOK
  <2>3. CASE i # cur
    <3>1. rxOwn'[i] = rxOwn[i] /\ (rxOwn[i] = "cpu" <=> Behind(i, cur, RxN) < Waiting)
      BY <1>1, <1>2, <2>3 DEF TypeOK, RxInv
    <3> QED
      BY <1>3, <2>1, <2>3, <3>1
  <2> QED
    BY <2>2, <2>3
<1>10. Waiting' >= 2 => pendR'
  BY <1>1, <1>3, <1>8 DEF RxInv
<1> QED
  BY <1>1, <1>2, <1>3, <1>8, <1>9, <1>10 DEF RxInv

LEMMA RxInit == Init => RxInv
<1> SUFFICES ASSUME Init PROVE RxInv
  OBVIOUS
<1>1. RxFirst = 0 /\ 0 \in Rx /\ Waiting = 0 /\ dmaRx = 0
  BY EthAssumption DEF Init, RxFirst, Waiting, Rx
<1>2. \A i \in Rx : rxOwn[i] = "dma" /\ Behind(i, 0, RxN) \in 0..(RxN - 1)
  BY <1>1, RxBehind DEF Init
<1> QED
  BY <1>1, <1>2 DEF Init, RxInv

LEMMA RxStep == TypeOK /\ RxInv /\ [Next]_vars => RxInv'
<1> SUFFICES ASSUME TypeOK, RxInv, [Next]_vars PROVE RxInv'
  OBVIOUS
<1>1. CASE UNCHANGED <<rxOwn, dmaRx, toGet, isr, cur>> /\ (pendR => pendR')
  <2>1. RxFirst' = RxFirst
    BY <1>1 DEF RxFirst
  <2>2. isr' = "copy" => toGet' = NextRx(cur') /\ rxOwn[cur'] = "cpu"
    BY <1>1 DEF RxInv
  <2> QED
    BY <1>1, <2>1, <2>2, RxKeep
<1>2. CASE IsrEnter
  BY <1>2, RxKeep DEF IsrEnter, RxInv, RxFirst, rx
<1>3. CASE IsrTest
  <2>1. UNCHANGED <<rxOwn, dmaRx, pendR>> /\ isr = "test"
    BY <1>3 DEF IsrTest
  <2>2. CASE rxOwn[toGet] = "cpu"
    <3>1. isr' = "copy" /\ cur' = toGet /\ toGet' = NextRx(toGet)
      BY <1>3, <2>2 DEF IsrTest
    <3> QED
      BY <2>1, <2>2, <3>1, RxKeep DEF RxFirst
  <2>3. CASE rxOwn[toGet] # "cpu"
    <3>1. isr' = "clear" /\ UNCHANGED <<cur, toGet>> /\ rxOwn[toGet] = "dma"
      BY <1>3, <2>3 DEF IsrTest, TypeOK, Owner
    <3> QED
      BY <2>1, <3>1, RxKeep DEF RxFirst
  <2> QED
    BY <2>2, <2>3
<1>4. CASE IsrClear
  <2>1. isr = "clear" /\ isr' = "idle" /\ pendR' = FALSE /\ UNCHANGED <<rxOwn, dmaRx, toGet, cur>>
    BY <1>4 DEF IsrClear
  <2>2. RxFirst' = RxFirst
    BY <2>1 DEF RxFirst
  <2>3. Waiting' = Waiting
    BY <2>1, <2>2, WaitingNext DEF Waiting
  <2>4. ~(Waiting >= 2)
    BY <2>1, RxArc DEF RxInv
  <2> QED
    BY <2>1, <2>2, <2>3, <2>4 DEF RxInv
<1>5. CASE Next /\ ~(DmaWrite \/ IsrEnter \/ IsrTest \/ IsrInput \/ IsrClear)
  <2>1. UNCHANGED <<rxOwn, dmaRx, toGet, isr, cur>> /\ (pendR => pendR')
    BY <1>5 DEF Next, Isr, Dma, DmaOut, TcpipThread, Server, Arrive, DmaSuspend, DmaSend, DmaSendSuspend,
               TcpipFetch, OutCopy, OutSend, TcpipDone, TcpipPoll, SrvCheck, SrvPost, SrvFree, rx
  <2> QED
    BY <1>1, <2>1
<1>6. CASE UNCHANGED vars
  BY <1>1, <1>6 DEF vars, rx
<1> QED
  BY <1>2, <1>3, <1>4, <1>5, <1>6, RxWrite, RxGive

(* Frames do not wait unseen: with two in the ring the interrupt is asked   *)
(* for.                                                                     *)
THEOREM SilentCorrect == Spec => []AtMostOneSilent
<1>1. TypeInv => TypeOK
  BY DEF TypeInv
<1>2. RxInv => AtMostOneSilent
  BY DEF RxInv, AtMostOneSilent
<1> QED
  BY <1>1, <1>2, TypeInit, TypeStep, RxInit, RxStep, PTL DEF Spec

-----------------------------------------------------------------------------
(* The order of the frames.                                                 *)

LEMMA FrameNumbers ==
  ASSUME TypeOK
  PROVE  /\ \A i \in 1..Len(passed) : passed[i] \in Nat
         /\ \A r \in Rx : rxBuf[r] \in Nat
         /\ \A k \in 1..Len(fifo) : fifo[k] \in Nat
<1>1. passed \in Seq(0..MaxFrame) /\ fifo \in Seq(0..MaxFrame) /\ rxBuf \in [Rx -> 0..MaxFrame]
  BY DEF TypeOK
<1>2. 0..MaxFrame \subseteq Nat
  BY EthAssumption
<1>3. \A i \in 1..Len(passed) : passed[i] \in 0..MaxFrame
  BY <1>1, ElementOfSeq
<1>4. \A k \in 1..Len(fifo) : fifo[k] \in 0..MaxFrame
  BY <1>1, ElementOfSeq
<1> QED
  BY <1>1, <1>2, <1>3, <1>4

LEMMA OrderInit == Init => OrderInv
BY DEF Init, OrderInv

LEMMA OrderKeep ==
  ASSUME OrderInv, UNCHANGED <<fifo, nframe, passed, rxBuf, rxOwn>>, RxFirst' = RxFirst
  PROVE  OrderInv'
BY DEF OrderInv

LEMMA OrderArrive ==
  ASSUME TypeOK, OrderInv, Arrive
  PROVE  OrderInv'
<1>1. UNCHANGED <<passed, rxBuf, rxOwn>> /\ RxFirst' = RxFirst /\ nframe' = nframe + 1
  BY DEF Arrive, RxFirst
<1>2. nframe \in Nat /\ fifo \in Seq(0..MaxFrame) /\ Len(fifo) \in Nat
  BY EthAssumption DEF TypeOK
<1>3. /\ \A i \in 1..Len(passed) : passed[i] \in Nat
      /\ \A r \in Rx : rxBuf[r] \in Nat
      /\ \A k \in 1..Len(fifo) : fifo[k] \in Nat
  BY FrameNumbers
<1>4. \A k \in 1..Len(fifo') : \/ k = Len(fifo) + 1 /\ fifo'[k] = nframe + 1
                               \/ k \in 1..Len(fifo) /\ fifo'[k] = fifo[k]
  <2>1. nframe + 1 \in Nat /\ fifo \in Seq(Nat)
    BY <1>2, <1>3
  <2>2. CASE fifo' = fifo
    BY <2>2
  <2>3. CASE fifo' = Append(fifo, nframe + 1)
    BY <1>2, <2>1, <2>3, AppendProperties
  <2> QED
    BY <2>2, <2>3 DEF Arrive
<1>5. \A k \in 1..Len(fifo') : fifo'[k] <= nframe'
  BY <1>1, <1>2, <1>3, <1>4 DEF OrderInv
<1>6. \A j, k \in 1..Len(fifo') : j < k => fifo'[j] < fifo'[k]
  BY <1>1, <1>2, <1>3, <1>4 DEF OrderInv
<1>7. \A r \in Rx, k \in 1..Len(fifo') : rxOwn'[r] = "cpu" => rxBuf'[r] < fifo'[k]
  BY <1>1, <1>2, <1>3, <1>4 DEF OrderInv
<1>8. \A i \in 1..Len(passed), k \in 1..Len(fifo') : passed[i] < fifo'[k]
  BY <1>1, <1>2, <1>3, <1>4 DEF OrderInv
<1>9. /\ \A i \in 1..Len(passed) : passed[i] <= nframe'
      /\ \A r \in Rx : rxOwn'[r] = "cpu" => rxBuf'[r] <= nframe'
  <2>1. \A i \in 1..Len(passed) : passed[i] <= nframe
    BY DEF OrderInv
  <2>2. \A r \in Rx : rxOwn'[r] = "cpu" => rxBuf'[r] <= nframe
    BY <1>1 DEF OrderInv
  <2>3. \A r \in Rx : rxBuf'[r] \in Nat
    BY <1>1, <1>3
  <2> QED
    BY <1>1, <1>2, <1>3, <2>1, <2>2, <2>3
<1> QED
  BY <1>1, <1>5, <1>6, <1>7, <1>8, <1>9 DEF OrderInv

LEMMA OrderWrite ==
  ASSUME TypeOK, RxInv, OrderInv, DmaWrite
  PROVE  OrderInv'
<1>1. /\ UNCHANGED <<passed, nframe>> /\ RxFirst' = RxFirst /\ dmaRx \in Rx /\ RxFirst \in Rx
      /\ rxBuf' = [rxBuf EXCEPT ![dmaRx] = Head(fifo)]
      /\ rxOwn' = [rxOwn EXCEPT ![dmaRx] = "cpu"] /\ fifo' = Tail(fifo) /\ fifo # <<>>
  BY RxArc DEF DmaWrite, RxFirst, TypeOK
<1>2. /\ Len(fifo) \in Nat /\ 1 \in 1..Len(fifo) /\ Head(fifo) = fifo[1]
      /\ \A k \in 1..Len(fifo') : k + 1 \in 1..Len(fifo) /\ fifo'[k] = fifo[k + 1]
  <2>1. fifo \in Seq(0..MaxFrame) /\ fifo # <<>> /\ fifo' = Tail(fifo)
    BY <1>1 DEF TypeOK
  <2>2. Len(fifo) \in Nat /\ 1 \in 1..Len(fifo) /\ Head(fifo) = fifo[1]
    BY <2>1
  <2>3. Len(fifo') = Len(fifo) - 1 /\ \A k \in 1..Len(fifo') : fifo'[k] = fifo[k + 1]
    BY <2>1, HeadTailProperties
  <2>4. \A k \in 1..Len(fifo') : k + 1 \in 1..Len(fifo)
    BY <2>2, <2>3
  <2> QED
    BY <2>2, <2>3, <2>4
<1>3. /\ \A i \in 1..Len(passed) : passed[i] \in Nat
      /\ \A r \in Rx : rxBuf[r] \in Nat
      /\ \A k \in 1..Len(fifo) : fifo[k] \in Nat
  BY FrameNumbers
<1>4. \A r \in Rx : rxOwn'[r] = "cpu" =>
        \/ r = dmaRx /\ rxBuf'[r] = fifo[1]
        \/ r # dmaRx /\ rxOwn[r] = "cpu" /\ rxBuf'[r] = rxBuf[r]
  BY <1>1, <1>2 DEF TypeOK
<1>5. \A r, s \in Rx :
        rxOwn'[r] = "cpu" /\ rxOwn'[s] = "cpu"
          /\ Behind(r, RxFirst, RxN) < Behind(s, RxFirst, RxN) => rxBuf'[r] < rxBuf'[s]
  <2> SUFFICES ASSUME NEW r \in Rx, NEW s \in Rx, rxOwn'[r] = "cpu", rxOwn'[s] = "cpu",
                      Behind(r, RxFirst, RxN) < Behind(s, RxFirst, RxN)
               PROVE  rxBuf'[r] < rxBuf'[s]
    OBVIOUS
  <2>1. /\ Behind(r, RxFirst, RxN) \in Nat /\ Behind(s, RxFirst, RxN) \in Nat
        /\ Behind(dmaRx, RxFirst, RxN) = Waiting /\ Waiting \in Nat
    <3>1. Behind(r, RxFirst, RxN) \in 0..(RxN - 1) /\ Behind(s, RxFirst, RxN) \in 0..(RxN - 1)
      BY <1>1, RxBehind
    <3>2. Behind(dmaRx, RxFirst, RxN) = Waiting /\ Waiting \in 0..RxN
      BY RxWrite, RxArc
    <3> QED
      BY <3>1, <3>2, EthAssumption
  <2>2. r # dmaRx
    <3>1. CASE s = dmaRx
      BY <2>1, <3>1
    <3>2. CASE s # dmaRx
      BY <1>4, <2>1, <3>2 DEF RxInv
    <3> QED
      BY <3>1, <3>2
  <2>3. rxOwn[r] = "cpu" /\ rxBuf'[r] = rxBuf[r]
    BY <1>4, <2>2
  <2>4. CASE s = dmaRx
    BY <1>2, <1>4, <2>3, <2>4 DEF OrderInv
  <2>5. CASE s # dmaRx
    BY <1>4, <2>3, <2>5 DEF OrderInv
  <2> QED
    BY <2>4, <2>5
<1>6. \A r \in Rx : rxOwn'[r] = "cpu" => rxBuf'[r] <= nframe
  BY <1>2, <1>4 DEF OrderInv
<1>7. \A r \in Rx, k \in 1..Len(fifo') : rxOwn'[r] = "cpu" => rxBuf'[r] < fifo'[k]
  <2>1. \A k \in 1..Len(fifo') : fifo[1] < fifo'[k]
    BY <1>2 DEF OrderInv
  <2>2. \A r \in Rx, k \in 1..Len(fifo') : rxOwn[r] = "cpu" => rxBuf[r] < fifo'[k]
    BY <1>2 DEF OrderInv
  <2> QED
    BY <1>4, <2>1, <2>2
<1>8. \A i \in 1..Len(passed), r \in Rx : rxOwn'[r] = "cpu" => passed[i] < rxBuf'[r]
  BY <1>2, <1>4 DEF OrderInv
<1>9. /\ \A j, k \in 1..Len(fifo') : j < k => fifo'[j] < fifo'[k]
      /\ \A k \in 1..Len(fifo') : fifo'[k] <= nframe
      /\ \A i \in 1..Len(passed), k \in 1..Len(fifo') : passed[i] < fifo'[k]
  <2>1. \A j, k \in 1..Len(fifo') : j < k => j + 1 < k + 1
    BY <1>2
  <2>2. \A j, k \in 1..Len(fifo') : j < k => fifo'[j] < fifo'[k]
    BY <1>2, <2>1 DEF OrderInv
  <2>3. \A k \in 1..Len(fifo') : fifo'[k] <= nframe
    BY <1>2 DEF OrderInv
  <2>4. \A i \in 1..Len(passed), k \in 1..Len(fifo') : passed[i] < fifo'[k]
    BY <1>2 DEF OrderInv
  <2> QED
    BY <2>2, <2>3, <2>4
<1> QED
  BY <1>1, <1>5, <1>6, <1>7, <1>8, <1>9 DEF OrderInv

LEMMA OrderGive ==
  ASSUME TypeOK, RxInv, OrderInv, IsrInput
  PROVE  OrderInv'
<1>1. /\ UNCHANGED <<fifo, nframe, rxBuf>> /\ RxFirst = cur /\ RxFirst' = NextRx(cur) /\ cur \in Rx
      /\ rxOwn' = [rxOwn EXCEPT ![cur] = "dma"] /\ rxOwn[cur] = "cpu"
  BY RxGive DEF IsrInput, RxInv, TypeOK, mac
<1>2. passed' = passed \/ passed' = Append(passed, rxBuf[cur])
  BY DEF IsrInput, TcpipInput
<1>3. /\ passed \in Seq(0..MaxFrame) /\ Len(passed) \in Nat /\ rxBuf[cur] \in 0..MaxFrame
      /\ \A i \in 1..Len(passed) : passed[i] \in Nat
      /\ \A r \in Rx : rxBuf[r] \in Nat
      /\ \A k \in 1..Len(fifo) : fifo[k] \in Nat
  <2>1. passed \in Seq(0..MaxFrame) /\ Len(passed) \in Nat
    BY DEF TypeOK
  <2>2. rxBuf[cur] \in 0..MaxFrame
    BY <1>1 DEF TypeOK
  <2> QED
    BY <2>1, <2>2, FrameNumbers
<1>4. \A i \in 1..Len(passed') : \/ i = Len(passed) + 1 /\ passed'[i] = rxBuf[cur]
                                 \/ i \in 1..Len(passed) /\ passed'[i] = passed[i]
  <2>1. CASE passed' = passed
    BY <2>1
  <2>2. CASE passed' = Append(passed, rxBuf[cur])
    BY <1>3, <2>2, AppendProperties
  <2> QED
    BY <1>2, <2>1, <2>2
<1>5. \A r \in Rx : rxOwn'[r] = "cpu" =>
        r # cur /\ rxOwn[r] = "cpu" /\ Behind(r, cur, RxN) > Behind(cur, cur, RxN)
          /\ rxBuf[cur] < rxBuf[r]
  <2> SUFFICES ASSUME NEW r \in Rx, rxOwn'[r] = "cpu"
               PROVE  r # cur /\ rxOwn[r] = "cpu" /\ Behind(r, cur, RxN) > Behind(cur, cur, RxN)
                        /\ rxBuf[cur] < rxBuf[r]
    OBVIOUS
  <2>1. r # cur /\ rxOwn[r] = "cpu"
    BY <1>1 DEF TypeOK
  <2>2. /\ Behind(r, cur, RxN) \in 0..(RxN - 1) /\ (Behind(r, cur, RxN) = 0 <=> r = cur)
        /\ Behind(cur, cur, RxN) = 0
    BY <1>1, RxBehind
  <2>3. Behind(r, cur, RxN) > Behind(cur, cur, RxN)
    BY <2>1, <2>2, EthAssumption
  <2> QED
    BY <1>1, <2>1, <2>3 DEF OrderInv
<1>6. \A r, s \in Rx :
        rxOwn'[r] = "cpu" /\ rxOwn'[s] = "cpu"
          /\ Behind(r, RxFirst', RxN) < Behind(s, RxFirst', RxN) => rxBuf'[r] < rxBuf'[s]
  <2> SUFFICES ASSUME NEW r \in Rx, NEW s \in Rx, rxOwn'[r] = "cpu", rxOwn'[s] = "cpu",
                      Behind(r, NextRx(cur), RxN) < Behind(s, NextRx(cur), RxN)
               PROVE  rxBuf[r] < rxBuf[s]
    BY <1>1
  <2>1. /\ Behind(r, NextRx(cur), RxN) = Behind(r, cur, RxN) - 1 /\ Behind(r, cur, RxN) \in 0..(RxN - 1)
        /\ Behind(s, NextRx(cur), RxN) = Behind(s, cur, RxN) - 1 /\ Behind(s, cur, RxN) \in 0..(RxN - 1)
    BY <1>1, <1>5, RxBehind
  <2>2. Behind(r, cur, RxN) < Behind(s, cur, RxN)
    BY <2>1, EthAssumption
  <2> QED
    BY <1>1, <1>5, <2>2 DEF OrderInv
<1>7. \A i, j \in 1..Len(passed') : i < j => passed'[i] < passed'[j]
  BY <1>1, <1>3, <1>4 DEF OrderInv
<1>8. /\ \A i \in 1..Len(passed') : passed'[i] <= nframe
      /\ \A i \in 1..Len(passed'), k \in 1..Len(fifo) : passed'[i] < fifo[k]
  BY <1>1, <1>3, <1>4 DEF OrderInv
<1>9. \A i \in 1..Len(passed'), r \in Rx : rxOwn'[r] = "cpu" => passed'[i] < rxBuf[r]
  BY <1>3, <1>4, <1>5 DEF OrderInv
<1>10. /\ \A r \in Rx : rxOwn'[r] = "cpu" => rxBuf[r] <= nframe
       /\ \A r \in Rx, k \in 1..Len(fifo) : rxOwn'[r] = "cpu" => rxBuf[r] < fifo[k]
       /\ \A j, k \in 1..Len(fifo) : j < k => fifo[j] < fifo[k]
       /\ \A k \in 1..Len(fifo) : fifo[k] <= nframe
  BY <1>5 DEF OrderInv
<1> QED
  BY <1>1, <1>6, <1>7, <1>8, <1>9, <1>10 DEF OrderInv

LEMMA OrderStep == TypeOK /\ RxInv /\ OrderInv /\ [Next]_vars => OrderInv'
<1> SUFFICES ASSUME TypeOK, RxInv, OrderInv, [Next]_vars PROVE OrderInv'
  OBVIOUS
<1>1. CASE IsrTest
  <2>1. UNCHANGED <<fifo, nframe, passed, rxBuf, rxOwn>>
    BY <1>1 DEF IsrTest, mac
  <2>2. RxFirst' = RxFirst
    BY <1>1 DEF IsrTest, RxFirst
  <2> QED
    BY <2>1, <2>2, OrderKeep
<1>2. CASE IsrEnter \/ IsrClear
  <2>1. UNCHANGED <<fifo, nframe, passed, rxBuf, rxOwn>>
    BY <1>2 DEF IsrEnter, IsrClear, mac, rx
  <2>2. RxFirst' = RxFirst
    BY <1>2 DEF IsrEnter, IsrClear, RxFirst, rx
  <2> QED
    BY <2>1, <2>2, OrderKeep
<1>3. CASE UNCHANGED <<mac, passed, rxBuf, rxOwn, isr, cur, toGet>>
  BY <1>3, OrderKeep DEF mac, RxFirst
<1>4. CASE DmaSuspend \/ DmaOut \/ TcpipThread \/ TcpipPoll \/ Server
  <2>1. UNCHANGED <<mac, passed, rxBuf, rxOwn, isr, cur, toGet>>
    BY <1>4 DEF DmaOut, TcpipThread, Server, DmaSuspend, DmaSend, DmaSendSuspend,
               TcpipFetch, OutCopy, OutSend, TcpipDone, TcpipPoll, SrvCheck, SrvPost, SrvFree, rx
  <2> QED
    BY <1>3, <2>1
<1>5. CASE UNCHANGED vars
  BY <1>3, <1>5 DEF vars, rx
<1> QED
  BY <1>1, <1>2, <1>4, <1>5, OrderArrive, OrderWrite, OrderGive DEF Next, Dma, Isr

(* The stack sees the frames in the order of their arrival, none twice.     *)
THEOREM InOrderCorrect == Spec => []InOrder
<1>1. TypeInv => TypeOK
  BY DEF TypeInv
<1>2. TypeOK /\ OrderInv => InOrder
  <2>1. TypeOK => DOMAIN passed = 1..Len(passed)
    BY DEF TypeOK
  <2> QED
    BY <2>1 DEF OrderInv, InOrder
<1> QED
  BY <1>1, <1>2, TypeInit, TypeStep, RxInit, RxStep, OrderInit, OrderStep, PTL DEF Spec

-----------------------------------------------------------------------------
(* The transmit ring.                                                       *)

LEMMA TxArc ==
  ASSUME TypeOK, TxInv
  PROVE  /\ Queued \in 0..TxN
         /\ Queued = 0 <=> txOwn[dmaTx] = "cpu"
         /\ Queued < TxN => Behind(toSet, dmaTx, TxN) = Queued
         /\ Queued = TxN => toSet = dmaTx
         /\ txOwn[toSet] = "dma" <=> Queued = TxN
<1>1. dmaTx \in Tx /\ toSet \in Tx /\ txOwn[dmaTx] \in {"dma", "cpu"}
  BY DEF TypeOK, Owner
<1>2. Behind(toSet, dmaTx, TxN) \in 0..(TxN - 1) /\ (Behind(toSet, dmaTx, TxN) = 0 <=> toSet = dmaTx)
  BY <1>1, TxBehind
<1>3. /\ Queued \in 0..TxN
      /\ Queued = 0 <=> txOwn[dmaTx] = "cpu"
      /\ Queued < TxN => Behind(toSet, dmaTx, TxN) = Queued
      /\ Queued = TxN => toSet = dmaTx
  BY <1>1, <1>2, EthAssumption DEF Queued, TxInv
<1>4. txOwn[toSet] = "dma" <=> Behind(toSet, dmaTx, TxN) < Queued
  BY <1>1 DEF TxInv
<1> QED
  BY <1>2, <1>3, <1>4, EthAssumption

LEMMA QueuedNext ==
  Queued' = IF txOwn'[dmaTx'] = "cpu" THEN 0
            ELSE IF toSet' = dmaTx' THEN TxN ELSE Behind(toSet', dmaTx', TxN)
BY DEF Queued

LEMMA OutNumbers ==
  ASSUME TypeOK
  PROVE  /\ taken \in Seq(0..MaxOut) /\ wire \in Seq(0..MaxOut)
         /\ Len(taken) \in Nat /\ Len(wire) \in Nat
         /\ \A i \in 1..Len(taken) : taken[i] \in Nat
         /\ \A r \in Tx : txBuf[r] \in 0..MaxOut
         /\ nout \in 0..MaxOut /\ nout \in Nat
<1>1. /\ taken \in Seq(0..MaxOut) /\ wire \in Seq(0..MaxOut) /\ txBuf \in [Tx -> 0..MaxOut]
      /\ nout \in 0..MaxOut
  BY DEF TypeOK
<1>2. 0..MaxOut \subseteq Nat
  BY EthAssumption
<1>3. \A i \in 1..Len(taken) : taken[i] \in 0..MaxOut
  BY <1>1, ElementOfSeq
<1> QED
  BY <1>1, <1>2, <1>3

LEMMA TxInit == Init => TxInv
<1> SUFFICES ASSUME Init PROVE TxInv
  OBVIOUS
<1>1. 0 \in Tx /\ dmaTx = 0 /\ toSet = 0 /\ txOwn = [i \in Tx |-> "cpu"] /\ Queued = 0
  BY EthAssumption DEF Init, Tx, Queued
<1>2. \A i \in Tx : Behind(i, dmaTx, TxN) \in 0..(TxN - 1) /\ txOwn[i] = "cpu"
  BY <1>1, TxBehind
<1>3. out = "idle" /\ taken = <<>> /\ wire = <<>> /\ Len(taken) = 0 /\ Len(wire) = 0
  BY DEF Init
<1> QED
  BY <1>1, <1>2, <1>3 DEF TxInv

LEMMA TxKeep == TxInv /\ UNCHANGED tx => TxInv'
BY DEF TxInv, Queued, Place, tx

LEMMA TxSuspend == TxInv /\ DmaSendSuspend => TxInv'
BY DEF DmaSendSuspend, TxInv, Queued, Place

(* The DMA sends the head of the ring.                                      *)
LEMMA TxSent ==
  ASSUME TypeOK, TxInv, DmaSend
  PROVE  TxInv'
<1> DEFINE d == dmaTx
           n == NextTx(dmaTx)
<1>1. /\ txOwn[d] = "dma" /\ wire' = Append(wire, txBuf[d]) /\ dmaTx' = n
      /\ txOwn' = [txOwn EXCEPT ![d] = "cpu"]
      /\ UNCHANGED <<txBuf, toSet, out, nout, taken>>
  BY DEF DmaSend
<1>2. d \in Tx /\ n \in Tx /\ toSet \in Tx /\ txOwn \in [Tx -> Owner] /\ TxN \in Nat \ {0}
  BY TxBehind, EthAssumption DEF TypeOK
<1>3. Queued \in 1..TxN
  BY <1>1, TxArc, EthAssumption
<1>4. /\ Behind(d, d, TxN) = 0
      /\ Behind(n, d, TxN) = IF n = d THEN 0 ELSE 1
      /\ n = d <=> TxN = 1
  <2>1. Behind(d, d, TxN) = 0
    BY <1>2, TxBehind
  <2>2. (n = d <=> Behind(d, d, TxN) = TxN - 1) /\ Behind(n, d, TxN) = IF n = d THEN 0 ELSE Behind(d, d, TxN) + 1
    BY <1>2, TxBehind
  <2> QED
    BY <1>2, <2>1, <2>2
<1>5. /\ Behind(toSet, d, TxN) = 0 <=> toSet = d
      /\ Behind(toSet, d, TxN) = Behind(n, d, TxN) => toSet = n
      /\ Behind(toSet, n, TxN) = IF toSet = d THEN TxN - 1 ELSE Behind(toSet, d, TxN) - 1
      /\ Behind(toSet, d, TxN) \in 0..(TxN - 1)
  BY <1>2, TxBehind
<1>6. \A r \in Tx : txOwn'[r] = "dma" <=> r # d /\ txOwn[r] = "dma"
  BY <1>1, <1>2
<1>7. \A r \in Tx : /\ txOwn[r] \in {"dma", "cpu"} /\ txOwn'[r] \in {"dma", "cpu"}
                    /\ txOwn[r] = "dma" <=> Behind(r, d, TxN) < Queued
  BY <1>1, <1>2 DEF Owner, TxInv
<1>8. Queued' = Queued - 1 /\ (txOwn'[dmaTx'] = "cpu" => toSet' = dmaTx')
  <2>1. CASE Queued = 1
    <3>1. toSet = n
      BY <1>2, <1>4, <1>5, <2>1, TxArc
    <3>2. txOwn'[n] # "dma"
      BY <1>2, <1>4, <1>6, <1>7, <2>1
    <3> QED
      BY <1>1, <1>2, <1>7, <2>1, <3>1, <3>2, QueuedNext
  <2>2. CASE Queued # 1
    <3>1. n # d /\ txOwn'[n] = "dma"
      BY <1>2, <1>3, <1>4, <1>6, <1>7, <2>2
    <3>2. toSet # n
      BY <1>2, <1>3, <1>4, <1>5, <2>2, <3>1, TxArc
    <3>3. Behind(toSet, n, TxN) = Queued - 1
      BY <1>2, <1>3, <1>5, TxArc
    <3> QED
      BY <1>1, <3>1, <3>2, <3>3, QueuedNext
  <2> QED
    BY <2>1, <2>2
<1>9. \A r \in Tx : r # d => Behind(r, n, TxN) = Behind(r, d, TxN) - 1 /\ Behind(r, d, TxN) \in 0..(TxN - 1)
  BY <1>2, TxBehind
<1>10. \A r \in Tx : txOwn'[r] = "dma" <=> Behind(r, dmaTx', TxN) < Queued'
  <2> SUFFICES ASSUME NEW r \in Tx
               PROVE  txOwn'[r] = "dma" <=> Behind(r, n, TxN) < Queued - 1
    BY <1>1, <1>8
  <2>1. CASE r = d
    <3>1. Behind(r, n, TxN) = TxN - 1
      BY <1>2, <2>1, TxBehind
    <3> QED
      BY <1>2, <1>3, <1>6, <2>1, <3>1
  <2>2. CASE r # d
    BY <1>2, <1>3, <1>6, <1>7, <1>9, <2>2
  <2> QED
    BY <2>1, <2>2
<1>11. /\ Len(wire) \in Nat /\ Len(wire') = Len(wire) + 1 /\ Len(taken) \in Nat
       /\ \A i \in 1..Len(wire) : wire'[i] = wire[i]
       /\ wire'[Len(wire) + 1] = txBuf[d]
  BY <1>1, <1>2, OutNumbers, AppendProperties
<1>12. Len(taken') = Len(wire') + Queued'
  BY <1>1, <1>3, <1>8, <1>11 DEF TxInv
<1>13. \A r \in Tx : txOwn'[r] = "dma" =>
         \/ txBuf'[r] = taken'[Place(r)']
         \/ r = toSet' /\ r = dmaTx' /\ taken'[Len(taken')] < txBuf'[r]
  <2> SUFFICES ASSUME NEW r \in Tx, txOwn'[r] = "dma"
               PROVE  txBuf[r] = taken[Place(r)']
    BY <1>1
  <2>1. r # d /\ txOwn[r] = "dma"
    BY <1>6
  <2>2. Place(r)' = Place(r)
    <3>1. Place(r)' = Len(wire') + 1 + Behind(r, n, TxN)
      BY <1>1 DEF Place
    <3> QED
      BY <1>2, <1>9, <1>11, <2>1, <3>1 DEF Place
  <2> QED
    BY <2>1, <2>2 DEF TxInv
<1>14. \A i \in 1..Len(wire') :
         wire'[i] # taken'[i] => i + TxN - 1 <= Len(taken') /\ taken'[i + TxN - 1] < wire'[i]
  <2> SUFFICES ASSUME NEW i \in 1..Len(wire'), wire'[i] # taken[i]
               PROVE  i + TxN - 1 <= Len(taken) /\ taken[i + TxN - 1] < wire'[i]
    BY <1>1
  <2>1. CASE i \in 1..Len(wire)
    BY <1>11, <2>1 DEF TxInv
  <2>2. CASE i = Len(wire) + 1
    <3>1. Place(d) = i
      BY <1>4, <1>11, <2>2 DEF Place
    <3>2. d = toSet /\ taken[Len(taken)] < txBuf[d]
      BY <1>1, <1>2, <1>11, <2>2, <3>1 DEF TxInv
    <3>3. Queued = TxN
      BY <1>1, <3>2, TxArc
    <3>4. i + TxN - 1 = Len(taken)
      BY <1>2, <1>11, <2>2, <3>3 DEF TxInv
    <3> QED
      BY <1>11, <2>2, <3>2, <3>4
  <2> QED
    BY <1>11, <2>1, <2>2
<1>15. /\ \A i \in 1..Len(taken') : taken'[i] <= nout'
       /\ out' = "copied" => txBuf'[toSet'] = nout' /\ \A i \in 1..Len(taken') : taken'[i] < nout'
  BY <1>1 DEF TxInv
<1> HIDE DEF d, n
<1> QED
  BY <1>8, <1>10, <1>12, <1>13, <1>14, <1>15 DEF TxInv

(* low_level_output copies into the descriptor, whoever has it.             *)
LEMMA TxCopied ==
  ASSUME TypeOK, TxInv, OutCopy
  PROVE  TxInv'
<1>1. /\ nout' = nout + 1 /\ out' = "copied" /\ txBuf' = [txBuf EXCEPT ![toSet] = nout + 1]
      /\ UNCHANGED <<txOwn, dmaTx, toSet, taken, wire>>
  BY DEF OutCopy
<1>2. Queued' = Queued /\ \A r \in Tx : Place(r)' = Place(r)
  BY <1>1 DEF Queued, Place
<1>3. toSet \in Tx /\ txBuf \in [Tx -> 0..MaxOut] /\ TxN \in Nat \ {0}
  BY EthAssumption DEF TypeOK
<1>4. \A i \in 1..Len(taken) : taken[i] < nout + 1 /\ taken[i] <= nout + 1
  BY OutNumbers DEF TxInv
<1>5. txBuf'[toSet] = nout + 1 /\ \A r \in Tx : r # toSet => txBuf'[r] = txBuf[r]
  BY <1>1, <1>3
<1>6. \A r \in Tx : txOwn[r] = "dma" =>
        \/ txBuf'[r] = taken[Place(r)]
        \/ r = toSet /\ r = dmaTx /\ taken[Len(taken)] < txBuf'[r]
  <2> SUFFICES ASSUME NEW r \in Tx, txOwn[r] = "dma"
               PROVE  \/ txBuf'[r] = taken[Place(r)]
                      \/ r = toSet /\ r = dmaTx /\ taken[Len(taken)] < txBuf'[r]
    OBVIOUS
  <2>1. CASE r = toSet
    <3>1. Queued = TxN /\ toSet = dmaTx
      BY <2>1, TxArc
    <3>2. Len(taken) \in 1..Len(taken)
      BY <1>3, <3>1, OutNumbers DEF TxInv
    <3> QED
      BY <1>4, <1>5, <2>1, <3>1, <3>2
  <2>2. CASE r # toSet
    BY <1>5, <2>2 DEF TxInv
  <2> QED
    BY <2>1, <2>2
<1> QED
  BY <1>1, <1>2, <1>4, <1>5, <1>6 DEF TxInv

(* ETH_Tx_Packet takes a frame.                                             *)
LEMMA TxTaken ==
  ASSUME TypeOK, TxInv, OutSend, txOwn[toSet] # "dma"
  PROVE  TxInv'
<1>1. /\ out = "copied" /\ out' = "idle" /\ txOwn' = [txOwn EXCEPT ![toSet] = "dma"]
      /\ toSet' = NextTx(toSet) /\ taken' = Append(taken, nout)
      /\ UNCHANGED <<txBuf, dmaTx, nout, wire>>
  BY DEF OutSend
<1>2. dmaTx \in Tx /\ toSet \in Tx /\ txOwn \in [Tx -> Owner] /\ TxN \in Nat \ {0}
  BY EthAssumption DEF TypeOK
<1>3. Queued \in 0..(TxN - 1) /\ Behind(toSet, dmaTx, TxN) = Queued
  BY <1>2, TxArc
<1>4. /\ Behind(toSet, dmaTx, TxN) = 0 <=> toSet = dmaTx
      /\ \A j \in Tx : Behind(toSet, dmaTx, TxN) = Behind(j, dmaTx, TxN) => toSet = j
      /\ Behind(NextTx(toSet), dmaTx, TxN)
           = IF NextTx(toSet) = dmaTx THEN 0 ELSE Behind(toSet, dmaTx, TxN) + 1
      /\ NextTx(toSet) = dmaTx <=> Behind(toSet, dmaTx, TxN) = TxN - 1
  BY <1>2, TxBehind
<1>5. txOwn'[dmaTx] = "dma"
  BY <1>1, <1>2, <1>3, <1>4, TxArc DEF Owner
<1>6. Queued' = Queued + 1
  BY <1>1, <1>2, <1>3, <1>4, <1>5, QueuedNext
<1>7. \A r \in Tx : \/ r = toSet /\ txOwn'[r] = "dma"
                    \/ r # toSet /\ txOwn'[r] = txOwn[r] /\ Behind(r, dmaTx, TxN) # Queued
  BY <1>1, <1>2, <1>3, <1>4
<1>8. \A r \in Tx : txOwn'[r] = "dma" <=> Behind(r, dmaTx', TxN) < Queued'
  <2> SUFFICES ASSUME NEW r \in Tx
               PROVE  txOwn'[r] = "dma" <=> Behind(r, dmaTx, TxN) < Queued + 1
    BY <1>1, <1>6
  <2>1. Behind(r, dmaTx, TxN) \in 0..(TxN - 1) /\ (txOwn[r] = "dma" <=> Behind(r, dmaTx, TxN) < Queued)
    BY <1>2, TxBehind DEF TxInv
  <2> QED
    BY <1>2, <1>3, <1>7, <2>1
<1>9. /\ Len(taken) \in Nat /\ Len(wire) \in Nat /\ Len(taken') = Len(taken) + 1
      /\ Len(taken) = Len(wire) + Queued
      /\ \A i \in 1..Len(taken) : taken'[i] = taken[i]
      /\ taken'[Len(taken) + 1] = nout
  BY <1>1, OutNumbers, AppendProperties DEF TxInv
<1>10. \A i \in 1..Len(taken') : taken'[i] <= nout
  <2>1. \A i \in 1..Len(taken) : taken[i] <= nout
    BY DEF TxInv
  <2>2. nout <= nout
    BY OutNumbers
  <2> QED
    BY <1>9, <2>1, <2>2
<1>11. \A r \in Tx : txOwn'[r] = "dma" => txBuf[r] = taken'[Place(r)']
  <2> SUFFICES ASSUME NEW r \in Tx, txOwn'[r] = "dma"
               PROVE  txBuf[r] = taken'[Place(r)]
    BY <1>1 DEF Place
  <2>1. CASE r = toSet
    <3>1. Place(r) = Len(taken) + 1
      BY <1>3, <1>9, <2>1 DEF Place
    <3> QED
      BY <1>1, <1>9, <2>1, <3>1 DEF TxInv
  <2>2. CASE r # toSet
    <3>1. txOwn[r] = "dma" /\ txBuf[r] = taken[Place(r)]
      BY <1>7, <2>2 DEF TxInv
    <3>2. Behind(r, dmaTx, TxN) \in 0..(TxN - 1) /\ Behind(r, dmaTx, TxN) < Queued
      BY <1>2, <3>1, TxBehind DEF TxInv
    <3>3. Place(r) \in 1..Len(taken)
      BY <1>2, <1>3, <1>9, <3>2 DEF Place
    <3> QED
      BY <1>9, <3>1, <3>3
  <2> QED
    BY <2>1, <2>2
<1>12. \A i \in 1..Len(wire) :
         wire[i] # taken'[i] => i + TxN - 1 <= Len(taken') /\ taken'[i + TxN - 1] < wire[i]
  <2> SUFFICES ASSUME NEW i \in 1..Len(wire), wire[i] # taken'[i]
               PROVE  i + TxN - 1 <= Len(taken') /\ taken'[i + TxN - 1] < wire[i]
    OBVIOUS
  <2>1. i \in 1..Len(taken)
    BY <1>3, <1>9
  <2>2. i + TxN - 1 <= Len(taken) /\ taken[i + TxN - 1] < wire[i]
    BY <1>9, <2>1 DEF TxInv
  <2>3. i + TxN - 1 \in 1..Len(taken)
    BY <1>2, <1>9, <2>2
  <2> QED
    BY <1>9, <2>2, <2>3
<1>13. txOwn'[dmaTx'] # "cpu"
  BY <1>1, <1>5
<1>14. Len(taken') = Len(wire') + Queued'
  BY <1>1, <1>3, <1>6, <1>9
<1>15. /\ \A i \in 1..Len(taken') : taken'[i] <= nout'
       /\ \A r \in Tx : txOwn'[r] = "dma" => txBuf'[r] = taken'[Place(r)']
       /\ \A i \in 1..Len(wire') :
            wire'[i] # taken'[i] => i + TxN - 1 <= Len(taken') /\ taken'[i + TxN - 1] < wire'[i]
       /\ out' # "copied"
  BY <1>1, <1>10, <1>11, <1>12
<1> QED
  BY <1>8, <1>13, <1>14, <1>15 DEF TxInv

(* ETH_Tx_Packet refuses a frame, and what was copied stays.                *)
LEMMA TxRefused ==
  ASSUME TxInv, OutSend, txOwn[toSet] = "dma"
  PROVE  TxInv'
<1>1. UNCHANGED <<txOwn, txBuf, dmaTx, toSet, nout, taken, wire>> /\ out' = "idle"
  BY DEF OutSend
<1> QED
  BY <1>1 DEF TxInv, Queued, Place

LEMMA TxStep == TypeOK /\ TxInv /\ [Next]_vars => TxInv'
<1> SUFFICES ASSUME TypeOK, TxInv, [Next]_vars PROVE TxInv'
  OBVIOUS
<1>1. CASE Arrive \/ Dma \/ Isr \/ TcpipFetch \/ TcpipDone \/ TcpipPoll \/ Server
  <2>1. UNCHANGED tx
    BY <1>1 DEF Arrive, Dma, DmaWrite, DmaSuspend, Isr, IsrEnter, IsrTest, IsrInput, IsrClear,
               TcpipFetch, TcpipDone, TcpipPoll, Server, SrvCheck, SrvPost, SrvFree
  <2> QED
    BY <2>1, TxKeep
<1>2. CASE UNCHANGED vars
  BY <1>2, TxKeep DEF vars
<1> QED
  BY <1>1, <1>2, TxSent, TxSuspend, TxCopied, TxTaken, TxRefused DEF Next, DmaOut, TcpipThread

-----------------------------------------------------------------------------
(* In either ring, what the CPU and what the DMA holds are two arcs.        *)
THEOREM RingsSplitCorrect == Spec => []RingsSplit
<1>1. TypeInv => TypeOK
  BY DEF TypeInv
<1>2. RxInv /\ TxInv => RingsSplit
  BY DEF RxInv, TxInv, RingsSplit
<1> QED
  BY <1>1, <1>2, TypeInit, TypeStep, RxInit, RxStep, TxInit, TxStep, PTL DEF Spec

(* What leaves is what was taken, in that order, and the only other thing   *)
(* that can go out in its place is a later frame copied over a full ring.   *)
THEOREM WireInOrderCorrect == Spec => []WireInOrder
<1>1. TypeInv => TypeOK
  BY DEF TypeInv
<1>2. TypeOK /\ TxInv => WireInOrder
  <2>1. TypeOK => DOMAIN wire = 1..Len(wire)
    BY DEF TypeOK
  <2> QED
    BY <2>1 DEF TxInv, WireInOrder
<1> QED
  BY <1>1, <1>2, TypeInit, TypeStep, TxInit, TxStep, PTL DEF Spec

-----------------------------------------------------------------------------
(* Pbufs.                                                                   *)

Pbufs(box) == SumFunctionOnSet([i \in 1..Len(box) |-> box[i].pbufs], 1..Len(box))

(* An API call carries no pbuf. *)
PbufInv ==
  /\ pool + kept + hand.pbufs + Pbufs(mbox) = PbufPool
  /\ hand.type = "api" => hand.pbufs = 0
  /\ \A i \in 1..Len(mbox) : mbox[i].type = "api" => mbox[i].pbufs = 0

LEMMA MessagePbufs == \A m \in Message : m.pbufs \in Nat
<1> SUFFICES ASSUME NEW m \in Message PROVE m.pbufs \in Nat
  OBVIOUS
<1>1. MaxPbufs \in Nat
  BY EthAssumption
<1>2. m.pbufs \in 0..MaxPbufs
  BY DEF Message
<1> QED
  BY <1>1, <1>2

LEMMA PbufsNat ==
  ASSUME NEW box \in Seq(Message)
  PROVE  Pbufs(box) \in Nat
<1> DEFINE f == [i \in 1..Len(box) |-> box[i].pbufs]
           S == 1..Len(box)
<1>1. \A i \in S : f[i] \in Nat
  <2> SUFFICES ASSUME NEW i \in S PROVE f[i] \in Nat
    OBVIOUS
  <2>1. box[i] \in Message
    OBVIOUS
  <2> QED
    BY <2>1, MessagePbufs
<1>2. IsFiniteSet(S)
  <2>1. Len(box) \in Int /\ 1 \in Int
    OBVIOUS
  <2> QED
    BY <2>1, FS_Interval
<1> HIDE DEF f, S
<1>3. SumFunctionOnSet(f, S) \in Nat
  BY <1>1, <1>2, SumIs
<1> QED
  BY <1>3 DEF Pbufs, f, S

LEMMA PbufsAppend ==
  ASSUME NEW box \in Seq(Message), NEW m \in Message
  PROVE  Pbufs(Append(box, m)) = Pbufs(box) + m.pbufs
<1> DEFINE n == Len(box)
           S == 1..n
           b == Append(box, m)
           f == [i \in S |-> box[i].pbufs]
           g == [i \in 1..(n + 1) |-> b[i].pbufs]
<1>1. n \in Nat /\ Len(b) = n + 1 /\ b[n + 1] = m /\ \A i \in S : b[i] = box[i]
  OBVIOUS
<1>2. g[n + 1] = m.pbufs /\ m.pbufs \in Nat
  BY <1>1, MessagePbufs
<1>3. \A i \in S : f[i] \in Nat /\ g[i] = f[i]
  <2> SUFFICES ASSUME NEW i \in S PROVE f[i] \in Nat /\ g[i] = f[i]
    OBVIOUS
  <2>1. box[i] \in Message
    OBVIOUS
  <2>3. box[i].pbufs \in Nat
    BY <2>1, MessagePbufs
  <2>2. i \in 1..(n + 1) /\ b[i] = box[i]
    BY <1>1
  <2> QED
    BY <2>1, <2>2, <2>3
<1>4. IsFiniteSet(S)
  <2>1. n \in Int /\ 1 \in Int
    OBVIOUS
  <2> QED
    BY <2>1, FS_Interval
<1>5. n + 1 \notin S /\ S \cup {n + 1} = 1..(n + 1)
  BY <1>1
<1>6. Pbufs(b) = SumFunctionOnSet(g, 1..(n + 1)) /\ Pbufs(box) = SumFunctionOnSet(f, S)
  BY <1>1 DEF Pbufs
<1> DEFINE x == n + 1
<1>7. x \notin S /\ S \cup {x} = 1..(n + 1) /\ g[x] = m.pbufs /\ g[x] \in Nat
  BY <1>2, <1>5
<1> HIDE DEF f, g, S, x, n
<1>9. x \notin S /\ g[x] \in Nat
  BY <1>7
<1>8. SumFunctionOnSet(g, S \cup {x}) = SumFunctionOnSet(f, S) + g[x]
  BY ONLY <1>3, <1>4, <1>9, SumAdd, ZenonT(60)
<1> QED
  BY <1>6, <1>7, <1>8

LEMMA PbufsTail ==
  ASSUME NEW box \in Seq(Message), box # <<>>
  PROVE  Pbufs(box) = Head(box).pbufs + Pbufs(Tail(box)) /\ Head(box) \in Message
<1> DEFINE n == Len(box) - 1
           t == Tail(box)
           f == [i \in 1..(n + 1) |-> box[i].pbufs]
           g == [i \in 1..n |-> t[i].pbufs]
<1>1. /\ n \in Nat /\ Len(box) = n + 1 /\ Len(t) = n /\ Head(box) = box[1]
      /\ \A i \in 1..n : t[i] = box[i + 1] /\ i + 1 \in 1..(n + 1)
  OBVIOUS
<1>2. \A i \in 1..(n + 1) : f[i] \in Nat
  <2> SUFFICES ASSUME NEW i \in 1..(n + 1) PROVE f[i] \in Nat
    OBVIOUS
  <2>1. box[i] \in Message
    BY <1>1
  <2> QED
    BY <2>1, MessagePbufs
<1>3. \A i \in 1..n : g[i] = f[i + 1]
  BY <1>1
<1>4. f[1] = Head(box).pbufs /\ Head(box) \in Message
  BY <1>1
<1>5. Pbufs(box) = SumFunctionOnSet(f, 1..(n + 1)) /\ Pbufs(t) = SumFunctionOnSet(g, 1..n)
  BY <1>1 DEF Pbufs
<1>6. n \in Nat
  BY <1>1
<1> HIDE DEF f, g, n
<1>7. SumFunctionOnSet(f, 1..(n + 1)) = f[1] + SumFunctionOnSet(g, 1..n)
  BY <1>2, <1>3, <1>6, SumTail
<1> QED
  BY <1>4, <1>5, <1>7

LEMMA PbufsKept ==
  ASSUME PbufInv, UNCHANGED <<mbox, hand>>, pool' + kept' = pool + kept,
         pool \in Nat, kept \in Nat, pool' \in Nat, kept' \in Nat, TypeInv
  PROVE  PbufInv'
<1>0. hand \in Message /\ mbox \in Seq(Message)
  BY DEF TypeInv, TypeOK
<1>1. hand.pbufs \in Nat /\ Pbufs(mbox) \in Nat
  BY <1>0, PbufsNat, MessagePbufs
<1>2. UNCHANGED <<mbox, hand>> /\ Pbufs(mbox') = Pbufs(mbox)
  OBVIOUS
<1>3. pool' + kept' + hand'.pbufs + Pbufs(mbox') = PbufPool
  BY <1>1, <1>2 DEF PbufInv
<1> QED
  BY <1>2, <1>3 DEF PbufInv

LEMMA PbufInit == Init => PbufInv
<1> SUFFICES ASSUME Init PROVE PbufInv
  OBVIOUS
<1> DEFINE f == [i \in 1..Len(<<>>) |-> <<>>[i].pbufs]
<1>1. 1..Len(<<>>) = {}
  OBVIOUS
<1>2. Pbufs(<<>>) = 0
  <2>1. SumFunctionOnSet(f, {}) = 0
    BY SumEmpty
  <2> QED
    BY <1>1, <2>1 DEF Pbufs
<1>3. mbox = <<>> /\ pool = PbufPool /\ kept = 0 /\ hand = NoMsg
  BY DEF Init
<1> QED
  BY <1>1, <1>2, <1>3, EthAssumption DEF PbufInv, NoMsg

LEMMA PbufStep == TypeInv /\ PbufInv /\ [Next]_vars => PbufInv'
<1> SUFFICES ASSUME TypeInv, PbufInv, [Next]_vars PROVE PbufInv'
  OBVIOUS
<1>1. /\ pool \in Nat /\ kept \in Nat /\ mbox \in Seq(Message) /\ hand \in Message
      /\ hand.pbufs \in Nat /\ Pbufs(mbox) \in Nat /\ Len(mbox) \in Nat /\ PbufPool \in Nat
  <2>1. pool \in Nat /\ kept \in Nat /\ mbox \in Seq(Message) /\ hand \in Message
    BY EthAssumption DEF TypeInv, TypeOK
  <2>2. hand.pbufs \in Nat /\ Pbufs(mbox) \in Nat
    BY <2>1, PbufsNat, MessagePbufs
  <2>3. Len(mbox) \in Nat /\ PbufPool \in Nat
    BY <2>1, EthAssumption
  <2> QED
    BY <2>1, <2>2, <2>3
<1>2. CASE UNCHANGED <<pool, kept, mbox, hand>>
  BY <1>1, <1>2, PbufsKept
<1>3. CASE IsrInput
  <2>1. UNCHANGED <<kept, hand>>
    BY <1>3 DEF IsrInput
  <2>2. PICK n \in 1..MaxPbufs : IF pool >= n THEN TcpipInput(rxBuf[cur], n)
                                             ELSE UNCHANGED <<mbox, pool, inpkt, passed>>
    BY <1>3 DEF IsrInput
  <2>3. CASE UNCHANGED <<mbox, pool>>
    BY <1>2, <2>1, <2>3
  <2>4. CASE /\ pool >= n /\ pool' = pool - n
             /\ mbox' = Append(mbox, [type |-> "inpkt", pbufs |-> n])
    <3> DEFINE m == [type |-> "inpkt", pbufs |-> n]
    <3>1. m \in Message /\ m.type = "inpkt" /\ m.pbufs = n /\ n \in Nat
      BY EthAssumption DEF Message
    <3>2. mbox' = Append(mbox, m) /\ pool' = pool - n
      BY <2>4
    <3> HIDE DEF m
    <3>3. Pbufs(mbox') = Pbufs(mbox) + n
      BY <1>1, <3>1, <3>2, PbufsAppend
    <3>4. \A i \in 1..Len(mbox') : mbox'[i].type = "api" => mbox'[i].pbufs = 0
      <4>1. \A i \in 1..Len(mbox') : (i \in 1..Len(mbox) /\ mbox'[i] = mbox[i]) \/ mbox'[i] = m
        BY <1>1, <3>1, <3>2
      <4> QED
        BY <3>1, <4>1 DEF PbufInv
    <3>5. pool' + kept' + hand'.pbufs + Pbufs(mbox') = PbufPool
      BY <1>1, <2>1, <3>1, <3>2, <3>3 DEF PbufInv
    <3> QED
      BY <2>1, <3>4, <3>5 DEF PbufInv
  <2> QED
    BY <2>2, <2>3, <2>4 DEF TcpipInput
<1>4. CASE TcpipFetch
  <2>1. /\ hand = NoMsg /\ mbox # <<>> /\ hand' = Head(mbox) /\ mbox' = Tail(mbox)
        /\ UNCHANGED <<pool, kept>>
    BY <1>4 DEF TcpipFetch, mem
  <2>2. Pbufs(mbox) = hand'.pbufs + Pbufs(mbox') /\ hand' \in Message
    BY <1>1, <2>1, PbufsTail
  <2>3. hand'.pbufs \in Nat /\ Pbufs(mbox') \in Nat /\ hand.pbufs = 0
    <3>1. mbox' \in Seq(Message)
      BY <1>1, <2>1
    <3>2. hand.pbufs = 0
      BY <2>1 DEF NoMsg
    <3> QED
      BY <2>2, <3>1, <3>2, PbufsNat, MessagePbufs
  <2>4. pool' + kept' + hand'.pbufs + Pbufs(mbox') = PbufPool
    BY <1>1, <2>1, <2>2, <2>3 DEF PbufInv
  <2>5. /\ hand' = mbox[1] /\ 1 \in 1..Len(mbox)
        /\ \A i \in 1..Len(mbox') : i + 1 \in 1..Len(mbox) /\ mbox'[i] = mbox[i + 1]
    BY <1>1, <2>1
  <2> QED
    BY <2>4, <2>5 DEF PbufInv
<1>5. CASE TcpipDone
  <2>1. hand' = NoMsg /\ NoMsg.pbufs = 0 /\ NoMsg.type = "none" /\ mbox' = mbox
    BY <1>5 DEF TcpipDone, NoMsg
  <2>2. pool' + kept' = pool + kept + hand.pbufs /\ pool' \in Nat /\ kept' \in Nat
    <3>1. CASE hand.type = "api"
      BY <1>1, <1>5, <3>1 DEF TcpipDone, mem, PbufInv
    <3>2. CASE hand.type # "api"
      BY <1>1, <1>5, <3>2 DEF TcpipDone
    <3> QED
      BY <3>1, <3>2
  <2>3. pool' + kept' + hand'.pbufs + Pbufs(mbox') = PbufPool
    <3>1. Pbufs(mbox') = Pbufs(mbox) /\ hand'.pbufs = 0
      BY <2>1
    <3> QED
      BY <1>1, <2>2, <3>1 DEF PbufInv
  <2> QED
    BY <2>1, <2>3 DEF PbufInv
<1>6. CASE SrvPost
  <2>1. mbox = <<>> /\ mbox' = Append(mbox, ApiMsg) /\ UNCHANGED <<pool, kept, hand>>
    BY <1>6 DEF SrvPost, TcpipWaits, mem
  <2>2. ApiMsg \in Message /\ ApiMsg.pbufs = 0
    BY EthAssumption DEF ApiMsg, Message
  <2>3. Pbufs(mbox') = Pbufs(mbox) + 0
    BY <1>1, <2>1, <2>2, PbufsAppend
  <2>4. pool' + kept' + hand'.pbufs + Pbufs(mbox') = PbufPool
    BY <1>1, <2>1, <2>3 DEF PbufInv
  <2>5. \A i \in 1..Len(mbox') : mbox'[i] = ApiMsg
    BY <2>1
  <2> QED
    BY <2>1, <2>2, <2>4, <2>5 DEF PbufInv
<1>7. CASE SrvFree
  <2>1. UNCHANGED <<mbox, hand>>
    BY <1>7 DEF SrvFree, stack
  <2>2. pool' + kept' = pool + kept /\ pool' \in Nat /\ kept' \in Nat
    BY <1>1, <1>7 DEF SrvFree
  <2> QED
    BY <1>1, <2>1, <2>2, PbufsKept
<1>8. CASE UNCHANGED vars \/ Arrive \/ Dma \/ DmaOut \/ IsrEnter \/ IsrTest \/ IsrClear
          \/ OutCopy \/ OutSend \/ TcpipPoll \/ SrvCheck
  <2>1. UNCHANGED <<pool, kept, mbox, hand>>
    BY <1>8
       DEF vars, Arrive, Dma, DmaWrite, DmaSuspend, DmaOut, DmaSend, DmaSendSuspend,
           IsrEnter, IsrTest, IsrClear, OutCopy, OutSend, TcpipPoll, SrvCheck, mem, stack
  <2> QED
    BY <1>2, <2>1
<1> QED
  BY <1>3, <1>4, <1>5, <1>6, <1>7, <1>8 DEF Next, Isr, TcpipThread, Server

(* The mailbox has as many frames as tcpip_msgs are out, less the one in    *)
(* tcpip_thread's hands.                                                    *)
LEMMA InpktCount ==
  ASSUME TypeInv
  PROVE  inpkt + Cardinality({i \in DOMAIN mbox : mbox[i].type = "inpkt"})
           + (IF hand.type = "inpkt" THEN 1 ELSE 0) = MsgPool
<1> DEFINE n == Len(mbox)
           A == {i \in 1..n : mbox[i].type = "api"}
           P == {i \in 1..n : mbox[i].type = "inpkt"}
<1>1. /\ inpkt \in Nat /\ MsgPool \in Nat /\ n \in Nat /\ DOMAIN mbox = 1..n
      /\ hand \in Message /\ \A i \in 1..n : mbox[i] \in Message
  BY EthAssumption DEF TypeInv, TypeOK
<1>2. /\ \A i \in 1..n : mbox[i].type \in {"inpkt", "api"}
      /\ hand.type \in {"none", "inpkt", "api"} /\ (hand.type = "none" <=> hand = NoMsg)
  BY <1>1 DEF TypeInv, ApiInv, Message, NoMsg
<1>3. IsFiniteSet(1..n) /\ Cardinality(1..n) = n
  <2>1. 1 \in Int /\ n \in Int
    BY <1>1
  <2>2. Cardinality(1..n) = IF 1 > n THEN 0 ELSE n - 1 + 1
    BY <2>1, FS_Interval
  <2>3. IsFiniteSet(1..n)
    BY <2>1, FS_Interval
  <2>4. (IF 1 > n THEN 0 ELSE n - 1 + 1) = n
    BY <1>1
  <2> QED
    BY <2>2, <2>3, <2>4
<1>4. P = (1..n) \ A /\ A \subseteq 1..n
  BY <1>2
<1>5. CASE A = {}
  <2>1. Cardinality(P) = n
    BY <1>3, <1>4, <1>5
  <2>2. srv = "wait" <=> hand.type = "api"
    BY <1>5 DEF TypeInv, ApiInv
  <2> HIDE DEF P, A
  <2>3. inpkt + Cardinality(P) + (IF hand.type = "inpkt" THEN 1 ELSE 0) = MsgPool
    BY <1>1, <1>2, <2>1, <2>2 DEF TypeInv, CountInv
  <2> QED
    BY <1>1, <2>3 DEF P
<1>6. CASE A # {}
  <2>1. PICK k \in A : TRUE
    BY <1>6
  <2>2. k \in 1..n /\ mbox[k].type = "api" /\ hand.type # "api" /\ srv = "wait"
    BY <2>1 DEF TypeInv, ApiInv
  <2>3. P = (1..n) \ {k}
    <3>1. \A i \in 1..n : mbox[i].type = "api" => i = k
      BY <2>2 DEF TypeInv, ApiInv
    <3> QED
      BY <1>2, <2>2, <3>1
  <2> HIDE DEF P, A
  <2>4. Cardinality(P) = n - 1
    BY <1>3, <2>2, <2>3, FS_RemoveElement
  <2>5. inpkt + Cardinality(P) + (IF hand.type = "inpkt" THEN 1 ELSE 0) = MsgPool
    BY <1>1, <1>2, <2>2, <2>4 DEF TypeInv, CountInv
  <2> QED
    BY <1>1, <2>5 DEF P
<1> QED
  BY <1>5, <1>6

(* No pbuf and no tcpip_msg is lost or given back twice, whatever fails on  *)
(* the way of a frame.                                                      *)
THEOREM ConservedCorrect == Spec => []Conserved
<1>1. TypeInv /\ PbufInv => Conserved
  <2> SUFFICES ASSUME TypeInv, PbufInv PROVE Conserved
    OBVIOUS
  <2>1. DOMAIN mbox = 1..Len(mbox)
    BY DEF TypeInv, TypeOK
  <2>2. SumFunction([i \in DOMAIN mbox |-> mbox[i].pbufs]) = Pbufs(mbox)
    BY <2>1 DEF SumFunction, Pbufs
  <2> QED
    BY <2>2, InpktCount DEF Conserved, PbufInv
<1> QED
  BY <1>1, TypeInit, TypeStep, PbufInit, PbufStep, PTL DEF Spec
=============================================================================
