------------------------------ MODULE SpiLink ------------------------------
(***************************************************************************)
(* The SPI link between the gateway (USER/main.c spi_task, HARDWARE/SPI)    *)
(* and the sensor board (PZ103_SPI_Slave/Users/main.c, app/spi): byte by    *)
(* byte, with restarts of either board in any place.                        *)
(*                                                                         *)
(* The master clocks; an exchange moves one byte each way, so it is one     *)
(* step of both.  The slave's program is a position s_pos in its endless    *)
(* loop: 0..2 wait for 's','R','N', 3..12 skip ten bytes, 13 wait for 'a',  *)
(* 14 + k sends byte k of the packet.  It is always inside                  *)
(* SPI2_WriteReadData, in one of its two waiting loops: for RXNE with its   *)
(* byte in the data register, or still for TXE because the register holds   *)
(* the byte of an earlier call.  The second happens only when a byte was    *)
(* received before the first call: SPI2_Config switches the receiver on     *)
(* long before main looks at it.                                           *)
(*                                                                         *)
(* Nothing frames the bytes (the slave select is managed by software on     *)
(* both sides), so a board that restarts inside a byte leaves the two       *)
(* shifted against each other by some bits: slip.                           *)
(***************************************************************************)
EXTENDS Integers, Sequences

CONSTANTS
  PktLen,      \* TIMXX_RECV_LEN
  MaxReset     \* bound: restarts of the two boards together

ASSUME SpiLinkAssumption == PktLen \in Nat /\ PktLen > 14 /\ MaxReset \in Nat

rqst_buf == <<"s", "R", "N", "L", "M", "D", "s", "c", "a", "n", "d", "a", "t", "a">>
Text == <<"s", "S", "N", "L", "M", "D", "s", "c", "a", "n", "d", "a", "t", "a">>

(* A byte from the slave is the index of the packet's byte, or Fill: 0x00,  *)
(* an idle line, an empty transmitter.                                      *)
Fill == PktLen
Reads(in) == IF in < 14 THEN Text[in + 1] ELSE "data"

(* Bytes to the slave; "?" for the wrong bytes of a slip.                   *)
Byte == {"s", "R", "N", "L", "M", "D", "c", "a", "n", "d", "t", "0", "ff", "?", "none"}

VARIABLES
  master,      \* "boot" or "run"
  m_pos,       \* next byte of spi_task: 0..13 the request, 14 + k byte k of the reply
  recv_ok,     \* a packet is complete and not yet decoded
  intact,      \* history: every byte in spi_recvbuf is the packet's byte of its place
  slave,       \* "down", "init" (receiver on, main not in its loop yet), "run"
  s_pos,       \* position in the slave's loop
  dr,          \* the slave's data register: the byte that goes out next
  s_wait,      \* loop of SPI2_WriteReadData the slave is in: "rxne" or "txe"
  stale,       \* byte received before the first SPI2_WriteReadData, or "none"
  slip,        \* the boards disagree on where a byte begins
  cut,         \* history: the slave restarted after the header of this reply
  nreset

mvars == <<master, m_pos, recv_ok, intact>>
svars == <<slave, s_pos, dr, s_wait, stale>>
vars == <<mvars, svars, slip, cut, nreset>>

Arg(s) == IF s >= 14 THEN s - 14 ELSE Fill      \* what the call at position s sends

(* The position after the call at s returned b. *)
Step(s, b) ==
  LET test == CASE s = 0 -> "s" [] s = 1 -> "R" [] s = 2 -> "N" [] s = 13 -> "a" [] OTHER -> b
  IN IF b = test /\ s < 13 + PktLen THEN s + 1 ELSE 0

Init ==
  /\ master = "boot" /\ m_pos = 0 /\ recv_ok = FALSE /\ intact = FALSE
  /\ slave = "down" /\ s_pos = 0 /\ dr = Fill /\ s_wait = "rxne" /\ stale = "none"
  /\ slip = FALSE /\ cut = FALSE /\ nreset = 0

-----------------------------------------------------------------------------
(* An exchange of the master's byte b against a byte in \in FromSlave.  With *)
(* slip each side gets bits of two bytes: they may read as one letter,      *)
(* never as two in a row of "sSN" or "sRN".                                 *)
Got(b) == IF slip THEN {"?", "s", "a"} ELSE {b}

FromSlave == IF slave # "run" THEN {Fill} ELSE IF slip THEN {Fill, 0} ELSE {dr}

Exchange(b) ==
  \/ /\ slave = "down" /\ UNCHANGED svars
  \/ /\ slave = "init"      \* later bytes are lost in an overrun
     /\ IF stale = "none" THEN stale' \in Got(b) ELSE UNCHANGED stale
     /\ UNCHANGED <<slave, s_pos, dr, s_wait>>
  \/ /\ slave = "run"
     /\ \E got \in Got(b) : s_pos' = Step(s_pos, got)
     /\ dr' = IF s_wait = "rxne" THEN Arg(s_pos') ELSE Arg(s_pos)
     /\ UNCHANGED <<slave, s_wait, stale>>

(* spi_task.  A header that does not match ends the cycle; so does the last *)
(* byte of the packet, with recv_ok.                                        *)

MasterBoot ==  \* SPI2_Init and its SPI2_ReadWriteByte(0xff)
  /\ master = "boot" /\ master' = "run"
  /\ Exchange("ff")
  /\ UNCHANGED <<m_pos, recv_ok, intact, slip, cut, nreset>>

(* Faulty variant: after a wrong first byte the reply is awaited without a  *)
(* new request.                                                             *)
NextPosWaits(in) ==
  LET test == CASE m_pos = 14 -> "s" [] m_pos = 15 -> "S" [] m_pos = 16 -> "N"
                [] OTHER -> Reads(in)
  IN IF m_pos < 14 \/ (Reads(in) = test /\ m_pos < 13 + PktLen) THEN m_pos + 1
     ELSE IF m_pos \in 14..16 THEN 14 ELSE 0

(* Faulty variant: only the first letter of the header is compared. *)
NextPosFirstOnly(in) ==
  LET test == IF m_pos = 14 THEN "s" ELSE Reads(in)
  IN IF m_pos < 14 \/ (Reads(in) = test /\ m_pos < 13 + PktLen) THEN m_pos + 1 ELSE 0

(* Faulty variant: one byte more is read than the buffer has. *)
NextPosTooFar(in) ==
  LET test == CASE m_pos = 14 -> "s" [] m_pos = 15 -> "S" [] m_pos = 16 -> "N"
                [] OTHER -> Reads(in)
  IN IF m_pos < 14 \/ (Reads(in) = test /\ m_pos <= 13 + PktLen) THEN m_pos + 1 ELSE 0

NextPos(in) ==
  LET test == CASE m_pos = 14 -> "s" [] m_pos = 15 -> "S" [] m_pos = 16 -> "N"
                [] OTHER -> Reads(in)
  IN IF m_pos < 14 \/ (Reads(in) = test /\ m_pos < 13 + PktLen) THEN m_pos + 1 ELSE 0

MasterByte ==
  /\ master = "run" /\ ~recv_ok
  /\ Exchange(IF m_pos < 14 THEN rqst_buf[m_pos + 1] ELSE "0")
  /\ recv_ok' = (m_pos = 13 + PktLen)
  /\ \E in \in FromSlave :
       /\ m_pos' = NextPos(in)
       /\ intact' = IF m_pos < 14 THEN intact
                    ELSE (m_pos = 14 \/ intact) /\ in = m_pos - 14
  /\ cut' = IF m_pos <= 14 THEN FALSE ELSE cut
  /\ UNCHANGED <<master, slip, nreset>>

MasterTake ==  \* the packet is decoded; module Gateway, SpiCheck
  /\ master = "run" /\ recv_ok /\ recv_ok' = FALSE
  /\ UNCHANGED <<master, m_pos, intact, svars, slip, cut, nreset>>

-----------------------------------------------------------------------------
(* Start-up of the slave, and restarts.                                     *)

SlaveConfig ==  \* SPI2_Config up to SPI_Cmd; perhaps in the middle of a byte
  /\ slave = "down" /\ slave' = "init"
  /\ stale' = "none" /\ slip' \in BOOLEAN
  /\ UNCHANGED <<s_pos, dr, s_wait, mvars, cut, nreset>>

SlaveLoop ==   \* first SPI2_WriteReadData: a stale byte makes it return at once
  /\ slave = "init" /\ slave' = "run"
  /\ dr' = Fill
  /\ IF stale = "none"
       THEN s_pos' = 0 /\ s_wait' = "rxne"
       ELSE s_pos' = Step(0, stale) /\ s_wait' = "txe"
  /\ UNCHANGED <<stale, mvars, slip, cut, nreset>>

SlaveReset ==
  /\ slave # "down" /\ nreset < MaxReset /\ nreset' = nreset + 1
  /\ slave' = "down" /\ cut' = TRUE
  /\ UNCHANGED <<s_pos, dr, s_wait, stale, mvars, slip>>

MasterReset == \* also in the middle of a byte
  /\ master = "run" /\ nreset < MaxReset /\ nreset' = nreset + 1
  /\ master' = "boot" /\ m_pos' = 0 /\ recv_ok' = FALSE /\ intact' = FALSE
  /\ slip' \in {slip, TRUE}
  /\ UNCHANGED <<svars, cut>>

Master == MasterBoot \/ MasterByte \/ MasterTake
Slave == SlaveConfig \/ SlaveLoop
Next == Master \/ Slave \/ SlaveReset \/ MasterReset

Spec == Init /\ [][Next]_vars

(* The master never waits: its receive loop ends by itself, and the scan is *)
(* decoded as long as Gateway's server is not stuck.  The slave's start-up  *)
(* waits for nothing.  Restarts are not fair, and MaxReset bounds them.     *)
FairSpec == Spec /\ WF_vars(Master) /\ WF_vars(Slave)

-----------------------------------------------------------------------------
(* The type invariant.                                                      *)
TypeOK ==
  /\ master \in {"boot", "run"} /\ m_pos \in 0..(13 + PktLen)
  /\ recv_ok \in BOOLEAN /\ intact \in BOOLEAN
  /\ slave \in {"down", "init", "run"} /\ s_pos \in 0..(13 + PktLen)
  /\ dr \in 0..PktLen /\ s_wait \in {"rxne", "txe"} /\ stale \in Byte
  /\ slip \in BOOLEAN /\ cut \in BOOLEAN /\ nreset \in 0..MaxReset

(* A reply that passes the three letter header check is the whole packet,   *)
(* in place, from its first byte, whatever restarts came before: only a     *)
(* restart of the slave inside the reply can spoil it.                      *)
PacketIntact == recv_ok /\ ~cut => intact

(* What makes PacketIntact inductive.  The data register holds the byte of  *)
(* the call the slave is in, or of the call before that one.                *)
DrFollows ==
  slave = "run" =>
    IF s_wait = "rxne" THEN dr = Arg(s_pos)
    ELSE dr # Fill => s_pos = IF dr < PktLen - 1 THEN dr + 15 ELSE 0

(* Inside a reply the next byte on the line is the one that belongs to the  *)
(* master's place in the packet; after the first letter it may still be the *)
(* other "s" of the packet, or a letter made by a slip.                     *)
RxFollows ==
  m_pos > 14 /\ ~cut =>
    /\ slave = "run"
    /\ IF m_pos = 15 THEN slip \/ dr = 7 \/ (intact /\ dr = 1)
                     ELSE ~slip /\ intact /\ dr = m_pos - 14

(* A master that has not booted is not inside a cycle.                      *)
BootIdle == master = "boot" => m_pos = 0

IInv == TypeOK /\ DrFollows /\ RxFollows /\ BootIdle /\ PacketIntact

(* The boards agree on the bytes, and the slave answers without delay.      *)
InStep == slave = "run" /\ s_wait = "rxne" /\ ~slip

(* As long as the boards are in step, packets keep arriving: from any two   *)
(* positions a restart may leave them in, requests and header checks find   *)
(* each other again.                                                        *)
Recovers == []<>(recv_ok \/ ~InStep)

(* A slave that lags one byte behind is not recovered by anything but its   *)
(* restart: the one byte that is checked after an answered request comes    *)
(* before the packet, and the check bytes of the requests sent while the    *)
(* packet runs off meet no header in it.                                    *)
LagIsForEver ==
  [][slave = "run" /\ s_wait = "txe" /\ m_pos <= 16 => m_pos' <= 16]_vars
=============================================================================
