--------------------------- MODULE SpiLinkProofs ---------------------------
(* Theorems about SpiLink, for every packet length and any number of        *)
(* restarts.                                                                *)
EXTENDS SpiLink, TLAPS

(* What the slave's program does with a byte keeps its position in range.   *)
LEMMA StepRange ==
  ASSUME NEW s \in 0..(13 + PktLen), NEW b
  PROVE  Step(s, b) \in 0..(13 + PktLen)
  BY SpiLinkAssumption, SMT DEF Step

(* The byte a call sends is a byte of the packet or the filler.             *)
LEMMA ArgRange ==
  ASSUME NEW s \in 0..(13 + PktLen)
  PROVE  Arg(s) \in 0..PktLen
  BY SpiLinkAssumption, SMT DEF Arg, Fill

(* A byte that reaches the slave is one of Byte, shifted or not.            *)
LEMMA GotRange ==
  ASSUME NEW b \in Byte, NEW got \in Got(b)
  PROVE  got \in Byte
  BY DEF Got, Byte

(* An exchange keeps the slave's variables in range.                        *)
LEMMA ExchangeType ==
  ASSUME TypeOK, NEW b \in Byte, Exchange(b)
  PROVE  /\ slave' = slave /\ s_wait' = s_wait
         /\ s_pos' \in 0..(13 + PktLen) /\ dr' \in 0..PktLen /\ stale' \in Byte
PROOF
<1>1. CASE slave = "down"
  BY <1>1 DEF Exchange, svars, TypeOK
<1>2. CASE slave = "init"
  BY <1>2, GotRange DEF Exchange, TypeOK
<1>3. CASE slave = "run"
  <2>1. /\ UNCHANGED <<slave, s_wait, stale>>
        /\ dr' = IF s_wait = "rxne" THEN Arg(s_pos') ELSE Arg(s_pos)
        /\ \E got \in Got(b) : s_pos' = Step(s_pos, got)
    BY <1>3 DEF Exchange
  <2>2. s_pos' \in 0..(13 + PktLen)
    BY <2>1, StepRange DEF TypeOK
  <2>. QED BY <2>1, <2>2, ArgRange DEF TypeOK
<1>. QED BY <1>1, <1>2, <1>3 DEF TypeOK

(* What spi_task sends.                                                     *)
LEMMA SentByte ==
  ASSUME TypeOK
  PROVE  (IF m_pos < 14 THEN rqst_buf[m_pos + 1] ELSE "0") \in Byte
  BY SMT DEF TypeOK, rqst_buf, Byte

(* What the master reads is a byte of the packet or the filler.             *)
LEMMA FromSlaveRange == ASSUME TypeOK PROVE FromSlave \subseteq 0..PktLen
  BY SpiLinkAssumption DEF FromSlave, TypeOK, Fill

(* The next position of spi_task is one of its positions.                   *)
LEMMA NextPosRange ==
  ASSUME TypeOK, NEW in \in 0..PktLen
  PROVE  NextPos(in) \in 0..(13 + PktLen)
  BY SpiLinkAssumption, SMT DEF NextPos, TypeOK

(* Every step keeps every variable in its range.                            *)
LEMMA TypeStep == TypeOK /\ [Next]_vars => TypeOK'
PROOF
<1>. SUFFICES ASSUME TypeOK, [Next]_vars PROVE TypeOK'
  OBVIOUS
<1>. USE SpiLinkAssumption
<1>1. CASE MasterBoot
  <2>1. "ff" \in Byte
    BY DEF Byte
  <2>. QED BY <1>1, <2>1, ExchangeType DEF MasterBoot, TypeOK
<1>2. CASE MasterByte
  <2>. DEFINE sent == IF m_pos < 14 THEN rqst_buf[m_pos + 1] ELSE "0"
  <2>1. sent \in Byte /\ Exchange(sent)
    BY <1>2, SentByte DEF MasterByte
  <2>2. /\ slave' \in {"down", "init", "run"} /\ s_wait' \in {"rxne", "txe"}
        /\ s_pos' \in 0..(13 + PktLen) /\ dr' \in 0..PktLen /\ stale' \in Byte
    <3>. HIDE DEF sent
    <3>. QED BY <2>1, ExchangeType DEF TypeOK
  <2>3. m_pos' \in 0..(13 + PktLen) /\ intact' \in BOOLEAN
    <3>1. PICK in \in FromSlave :
            /\ m_pos' = NextPos(in)
            /\ intact' = IF m_pos < 14 THEN intact
                         ELSE (m_pos = 14 \/ intact) /\ in = m_pos - 14
      BY <1>2 DEF MasterByte
    <3>2. intact' \in BOOLEAN
      BY <3>1 DEF TypeOK
    <3>. QED BY <3>1, <3>2, FromSlaveRange, NextPosRange
  <2>4. /\ recv_ok' \in BOOLEAN /\ cut' \in BOOLEAN
        /\ UNCHANGED <<master, slip, nreset>>
    BY <1>2 DEF MasterByte, TypeOK
  <2>. QED BY <2>2, <2>3, <2>4 DEF TypeOK
<1>3. CASE MasterTake
  BY <1>3 DEF MasterTake, svars, TypeOK
<1>4. CASE SlaveConfig
  BY <1>4 DEF SlaveConfig, mvars, TypeOK, Byte
<1>5. CASE SlaveLoop
  <2>1. Step(0, stale) \in 0..(13 + PktLen)
    BY StepRange
  <2>. QED BY <1>5, <2>1 DEF SlaveLoop, mvars, TypeOK, Fill
<1>6. CASE SlaveReset
  BY <1>6 DEF SlaveReset, mvars, TypeOK
<1>7. CASE MasterReset
  <2>1. slip' \in BOOLEAN
    BY <1>7, Zenon DEF MasterReset, TypeOK
  <2>2. /\ m_pos' = 0 /\ nreset' \in 0..MaxReset
        /\ master' = "boot" /\ recv_ok' = FALSE /\ intact' = FALSE
        /\ UNCHANGED <<slave, s_pos, dr, s_wait, stale, cut>>
    BY <1>7, SMT DEF MasterReset, svars, TypeOK
  <2>3. m_pos' \in 0..(13 + PktLen)
    BY <2>2, SMT
  <2>. QED BY <2>1, <2>2, <2>3, Zenon DEF TypeOK
<1>8. CASE UNCHANGED vars
  BY <1>8 DEF vars, mvars, svars, TypeOK
<1>. QED BY <1>1, <1>2, <1>3, <1>4, <1>5, <1>6, <1>7, <1>8 DEF Next, Master, Slave

-----------------------------------------------------------------------------
(* The data register across an exchange: it still belongs to the call the   *)
(* slave is in or to the one before, and inside a packet it moves on by one *)
(* byte.                                                                    *)
LEMMA ExchangeDr ==
  ASSUME TypeOK, DrFollows, NEW b \in Byte, Exchange(b)
  PROVE  /\ DrFollows'
         /\ slave = "run" /\ dr < PktLen - 1 => slave' = "run" /\ dr' = dr + 1
PROOF
<1>. USE SpiLinkAssumption
<1>1. CASE slave # "run"
  BY <1>1 DEF Exchange, svars, DrFollows, TypeOK
<1>2. CASE slave = "run"
  <2>1. /\ UNCHANGED <<slave, s_wait, stale>>
        /\ dr' = IF s_wait = "rxne" THEN Arg(s_pos') ELSE Arg(s_pos)
    BY <1>2 DEF Exchange
  <2>2. PICK got : s_pos' = Step(s_pos, got)
    BY <1>2 DEF Exchange
  <2>3. s_pos \in 0..(13 + PktLen) /\ dr \in 0..PktLen
    BY DEF TypeOK
  <2>4. s_pos >= 14 => s_pos' = IF s_pos < 13 + PktLen THEN s_pos + 1 ELSE 0
    BY <2>2, <2>3, SMT DEF Step
  <2>5. CASE s_wait = "rxne"
    BY <1>2, <2>1, <2>3, <2>4, <2>5, SMT DEF DrFollows, Arg, Fill
  <2>6. CASE s_wait = "txe"
    BY <1>2, <2>1, <2>3, <2>4, <2>6, SMT DEF DrFollows, Arg, Fill
  <2>. QED BY <2>5, <2>6 DEF TypeOK
<1>. QED BY <1>1, <1>2

(* One byte of spi_task keeps the invariant: the header check and the read  *)
(* loop follow the packet.                                                  *)
LEMMA SafeByte == IInv /\ MasterByte => (DrFollows /\ RxFollows /\ BootIdle /\ PacketIntact)'
PROOF
<1>. SUFFICES ASSUME IInv, MasterByte PROVE (DrFollows /\ RxFollows /\ BootIdle /\ PacketIntact)'
  OBVIOUS
<1>. USE SpiLinkAssumption
<1>. DEFINE sent == IF m_pos < 14 THEN rqst_buf[m_pos + 1] ELSE "0"
<1>1. TypeOK /\ DrFollows /\ RxFollows
  BY DEF IInv
<1>2. /\ DrFollows'
      /\ slave = "run" /\ dr < PktLen - 1 => slave' = "run" /\ dr' = dr + 1
  <2>1. sent \in Byte /\ Exchange(sent)
    BY <1>1, SentByte DEF MasterByte
  <2>. HIDE DEF sent
  <2>. QED BY <1>1, <2>1, ExchangeDr
<1>3. PICK in \in FromSlave :
        /\ m_pos' = NextPos(in)
        /\ intact' = IF m_pos < 14 THEN intact
                     ELSE (m_pos = 14 \/ intact) /\ in = m_pos - 14
  BY DEF MasterByte
<1>4. /\ m_pos \in 0..(13 + PktLen) /\ dr \in 0..PktLen /\ in \in 0..PktLen
      /\ (slip' <=> slip) /\ (recv_ok' => m_pos = 13 + PktLen)
      /\ (m_pos > 14 => (cut' <=> cut))
  BY <1>1, FromSlaveRange DEF TypeOK, MasterByte
<1>5. /\ slave # "run" => in = PktLen
      /\ slave = "run" /\ slip => in \in {0, PktLen}
      /\ slave = "run" /\ ~slip => in = dr
  BY <1>3 DEF FromSlave, Fill
<1>b. m_pos >= 14 => (intact' <=> (m_pos = 14 \/ intact) /\ in = m_pos - 14)
  <2>1. m_pos >= 14 => ~(m_pos < 14)
    BY <1>4, SMT
  <2>. QED BY <1>3, <2>1, Zenon
<1>a. BootIdle'
  BY DEF MasterByte, BootIdle
<1>. HIDE DEF sent
<1>. SUFFICES RxFollows' /\ PacketIntact'
  BY <1>2, <1>a
<1>6. CASE m_pos < 14
  BY <1>3, <1>4, <1>6, SMT DEF NextPos, RxFollows, PacketIntact
<1>7. CASE m_pos = 14
  <2>1. m_pos' = IF Reads(in) = "s" THEN 15 ELSE 0
    BY <1>3, <1>7, SMT DEF NextPos
  <2>2. Reads(in) = "s" => in = 0 \/ in = 6
    BY <1>4, SMT DEF Reads, Text
  <2>3. intact' <=> in = 0
    BY <1>b, <1>7, SMT
  <2>4. PacketIntact'
    BY <1>4, <1>7, SMT DEF PacketIntact
  <2>5. CASE Reads(in) = "s"
    <3>1. slave = "run"
      BY <1>4, <1>5, <2>2, <2>5, SMT
    <3>2. ~slip => dr = in /\ dr' = dr + 1
      BY <1>2, <1>4, <1>5, <2>2, <2>5, <3>1, SMT
    <3>3. slave' = "run" /\ m_pos' = 15
      BY <1>2, <1>3, <1>4, <1>5, <2>1, <2>5, <3>1 DEF MasterByte, Exchange
    <3>. QED BY <1>4, <2>2, <2>3, <2>4, <2>5, <3>2, <3>3, SMT DEF RxFollows
  <2>6. CASE Reads(in) # "s"
    BY <2>1, <2>4, <2>6, SMT DEF RxFollows
  <2>. QED BY <2>5, <2>6
<1>8. CASE m_pos = 15
  <2>1. m_pos' = IF Reads(in) = "S" THEN 16 ELSE 0
    BY <1>3, <1>8, SMT DEF NextPos
  <2>2. Reads(in) = "S" => in = 1
    BY <1>4, SMT DEF Reads, Text
  <2>3. intact' <=> (intact /\ in = 1)
    BY <1>b, <1>8, SMT
  <2>. QED BY <1>1, <1>2, <1>4, <1>5, <1>8, <2>1, <2>2, <2>3, SMT DEF RxFollows, PacketIntact
<1>9. CASE m_pos > 15
  <2>1. m_pos' \in {m_pos + 1, 0} /\ (m_pos = 13 + PktLen => m_pos' = 0)
    BY <1>3, <1>4, <1>9, SMT DEF NextPos
  <2>2. intact' <=> (intact /\ in = m_pos - 14)
    BY <1>b, <1>4, <1>9, SMT
  <2>. QED BY <1>1, <1>2, <1>4, <1>5, <1>9, <2>1, <2>2, SMT DEF RxFollows, PacketIntact
<1>. QED BY <1>4, <1>6, <1>7, <1>8, <1>9, SMT

(* Every step keeps the invariant.                                          *)
LEMMA SafeStep == IInv /\ [Next]_vars => IInv'
PROOF
<1>. SUFFICES ASSUME IInv, [Next]_vars PROVE IInv'
  OBVIOUS
<1>. USE SpiLinkAssumption
<1>1. TypeOK /\ TypeOK'
  BY TypeStep DEF IInv
<1>. SUFFICES (DrFollows /\ RxFollows /\ BootIdle /\ PacketIntact)'
  BY <1>1 DEF IInv
<1>2. CASE MasterBoot
  <2>1. "ff" \in Byte /\ Exchange("ff") /\ UNCHANGED <<m_pos, recv_ok, intact, slip, cut>>
    BY <1>2 DEF Byte, MasterBoot
  <2>2. m_pos = 0
    BY <1>2 DEF MasterBoot, IInv, BootIdle
  <2>. QED BY <1>1, <2>1, <2>2, ExchangeDr, SMT DEF IInv, RxFollows, BootIdle, PacketIntact
<1>3. CASE MasterByte
  BY <1>3, SafeByte
<1>4. CASE MasterTake
  BY <1>4 DEF MasterTake, svars, IInv, DrFollows, RxFollows, BootIdle, PacketIntact
<1>5. CASE SlaveConfig
  BY <1>5 DEF SlaveConfig, mvars, IInv, DrFollows, RxFollows, BootIdle, PacketIntact
<1>6. CASE SlaveLoop
  BY <1>6, SMT DEF SlaveLoop, mvars, IInv, DrFollows, RxFollows, BootIdle, PacketIntact, Arg
<1>7. CASE SlaveReset
  BY <1>7 DEF SlaveReset, mvars, IInv, DrFollows, RxFollows, BootIdle, PacketIntact
<1>8. CASE MasterReset
  BY <1>1, <1>8, SMT DEF MasterReset, svars, IInv, DrFollows, RxFollows, BootIdle, PacketIntact
<1>9. CASE UNCHANGED vars
  BY <1>9 DEF vars, mvars, svars, IInv, DrFollows, RxFollows, BootIdle, PacketIntact
<1>. QED BY <1>2, <1>3, <1>4, <1>5, <1>6, <1>7, <1>8, <1>9 DEF Next, Master, Slave

(* The initial state satisfies the invariant.                               *)
LEMMA SafeInit == Init => IInv
PROOF
<1>. SUFFICES ASSUME Init PROVE IInv
  OBVIOUS
<1>. USE SpiLinkAssumption
<1>1. TypeOK
  <2>1. 0 \in 0..(13 + PktLen) /\ PktLen \in 0..PktLen /\ 0 \in 0..MaxReset
    BY SMT
  <2>2. "none" \in Byte
    BY DEF Byte
  <2>. QED BY <2>1, <2>2, Zenon DEF Init, TypeOK, Fill
<1>2. DrFollows /\ RxFollows /\ BootIdle /\ PacketIntact
  BY DEF Init, DrFollows, RxFollows, BootIdle, PacketIntact
<1>. QED BY <1>1, <1>2 DEF IInv

(* The invariant holds in every reachable state.                            *)
THEOREM InvCorrect == Spec => []IInv
  BY SafeInit, SafeStep, PTL DEF Spec

(* spi_task's header check is enough: a reply that passes it is the whole   *)
(* packet in place, after any restarts, unless the slave restarts in it.    *)
THEOREM PacketIntactCorrect == Spec => []PacketIntact
PROOF
<1>1. IInv => PacketIntact
  BY DEF IInv
<1>. QED BY <1>1, InvCorrect, PTL

(* Every variable of the two boards stays in its range.                     *)
THEOREM TypeCorrect == Spec => []TypeOK
PROOF
<1>1. IInv => TypeOK
  BY DEF IInv
<1>. QED BY <1>1, InvCorrect, PTL

-----------------------------------------------------------------------------
(* A slave that lags.                                                       *)

(* No request is answered in time: the 'a' that starts the packet is one of *)
(* the request's, and by the last of them the first byte goes out one late. *)
LagInv ==
  slave = "run" /\ s_wait = "txe" /\ ~slip /\ s_pos \in 14..17 => m_pos # s_pos - 1

LEMMA LagExchange ==
  ASSUME TypeOK, LagInv, Exchange(IF m_pos < 14 THEN rqst_buf[m_pos + 1] ELSE "0"),
         m_pos' = m_pos + 1 \/ m_pos' = 0, UNCHANGED slip
  PROVE  LagInv'
PROOF
<1>. DEFINE b == IF m_pos < 14 THEN rqst_buf[m_pos + 1] ELSE "0"
<1>1. Exchange(b)
  OBVIOUS
<1>2. m_pos = 12 => b = "t"
  BY DEF rqst_buf
<1>. HIDE DEF b
<1>. SUFFICES ASSUME slave' = "run", s_wait' = "txe", ~slip, s_pos' \in 14..17
              PROVE  m_pos' # s_pos' - 1
  BY DEF LagInv
<1>3. slave = "run" /\ s_wait = "txe" /\ s_pos' = Step(s_pos, b)
  BY <1>1 DEF Exchange, svars, Got
<1>4. m_pos \in Nat /\ s_pos \in Nat
  BY SpiLinkAssumption DEF TypeOK
<1>5. s_pos' = s_pos + 1 /\ (s_pos = 13 => b = "a")
  BY <1>3, <1>4, SMT DEF Step
<1>6. CASE s_pos = 13
  <2>1. m_pos # 12
    BY <1>2, <1>5, <1>6
  <2>. QED BY <1>4, <1>5, <1>6, <2>1
<1>7. CASE s_pos # 13
  <2>1. s_pos \in 14..17 /\ m_pos # s_pos - 1
    BY <1>3, <1>4, <1>5, <1>7 DEF LagInv
  <2>. QED BY <1>4, <1>5, <2>1
<1>. QED BY <1>6, <1>7

LEMMA LagStep == IInv /\ LagInv /\ [Next]_vars => LagInv'
PROOF
<1>. SUFFICES ASSUME IInv, LagInv, [Next]_vars PROVE LagInv'
  OBVIOUS
<1>1. TypeOK /\ BootIdle
  BY DEF IInv
<1>2. CASE MasterBoot
  <2>1. m_pos' = 0
    BY <1>1, <1>2 DEF MasterBoot, BootIdle
  <2>. QED BY <2>1 DEF LagInv
<1>3. CASE MasterByte
  <2>1. \E in \in FromSlave : m_pos' = NextPos(in)
    BY <1>3 DEF MasterByte
  <2>2. m_pos' = m_pos + 1 \/ m_pos' = 0
    BY <2>1 DEF NextPos
  <2>3. UNCHANGED slip /\ Exchange(IF m_pos < 14 THEN rqst_buf[m_pos + 1] ELSE "0")
    BY <1>3 DEF MasterByte
  <2>. QED BY <1>1, <2>2, <2>3, LagExchange
<1>4. CASE MasterTake
  BY <1>4 DEF MasterTake, svars, LagInv
<1>5. CASE SlaveConfig \/ SlaveReset
  <2>1. slave' # "run"
    BY <1>5 DEF SlaveConfig, SlaveReset
  <2>. QED BY <2>1 DEF LagInv
<1>6. CASE SlaveLoop
  <2>1. s_pos' = 0 \/ s_pos' = Step(0, stale)
    BY <1>6 DEF SlaveLoop
  <2>2. s_pos' \in {0, 1}
    BY <2>1, SMT DEF Step
  <2>. QED BY <2>2 DEF LagInv
<1>7. CASE MasterReset
  <2>1. m_pos' = 0
    BY <1>7 DEF MasterReset
  <2>. QED BY <2>1 DEF LagInv
<1>8. CASE UNCHANGED vars
  BY <1>8 DEF vars, mvars, svars, LagInv
<1>. QED BY <1>2, <1>3, <1>4, <1>5, <1>6, <1>7, <1>8 DEF Next, Master, Slave

(* A slave that lags one byte behind is not found again: no reply of its    *)
(* passes the three letters of the header check.                            *)
THEOREM LagCorrect == Spec => LagIsForEver
PROOF
<1>1. Init => LagInv
  BY DEF Init, LagInv
<1>2. IInv /\ LagInv /\ [Next]_vars =>
        [slave = "run" /\ s_wait = "txe" /\ m_pos <= 16 => m_pos' <= 16]_vars
  <2>. SUFFICES ASSUME IInv, LagInv, Next, slave = "run", s_wait = "txe", m_pos <= 16
                PROVE  m_pos' <= 16
    OBVIOUS
  <2>1. m_pos \in Nat /\ TypeOK /\ DrFollows
    BY SpiLinkAssumption DEF IInv, TypeOK
  <2>2. CASE MasterByte
    <3>1. PICK in \in FromSlave : m_pos' = NextPos(in)
      BY <2>2 DEF MasterByte
    <3>2. CASE m_pos # 16
      <4>1. m_pos' = m_pos + 1 \/ m_pos' = 0
        BY <3>1 DEF NextPos
      <4>. QED BY <2>1, <3>2, <4>1
    <3>3. CASE m_pos = 16
      <4>1. in \in {Fill, 0} \/ (~slip /\ in = dr)
        BY <3>1 DEF FromSlave
      <4>2. ~slip => dr # 2
        <5>. SUFFICES ASSUME ~slip, dr = 2 PROVE FALSE
          OBVIOUS
        <5>1. s_pos = 17
          BY <2>1, SpiLinkAssumption, SMT DEF DrFollows, Fill
        <5>. QED BY <3>3, <5>1 DEF LagInv
      <4>3. in # 2 /\ in \in Nat
        BY <2>1, <4>1, <4>2, SpiLinkAssumption, SMT DEF TypeOK, Fill
      <4>4. Reads(in) # "N"
        BY <4>3, SMT DEF Reads, Text
      <4>5. m_pos' = 0
        BY <3>1, <3>3, <4>4 DEF NextPos
      <4>. QED BY <4>5
    <3>. QED BY <3>2, <3>3
  <2>3. CASE MasterBoot \/ MasterTake \/ Slave \/ SlaveReset
    <3>1. m_pos' = m_pos
      BY <2>3 DEF MasterBoot, MasterTake, Slave, SlaveConfig, SlaveLoop, SlaveReset, mvars
    <3>. QED BY <3>1
  <2>4. CASE MasterReset
    <3>1. m_pos' = 0
      BY <2>4 DEF MasterReset
    <3>. QED BY <3>1
  <2>. QED BY <2>2, <2>3, <2>4 DEF Next, Master
<1>. QED BY <1>1, <1>2, LagStep, InvCorrect, PTL DEF Spec, LagIsForEver
=============================================================================
