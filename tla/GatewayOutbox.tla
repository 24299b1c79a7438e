--------------------------- MODULE GatewayOutbox ---------------------------
(* How Gateway implements ScanOutbox.                                       *)
EXTENDS Gateway

(* Piece i of the wire ends a scan that was sent whole, to one client, the  *)
(* pieces one behind the other.                                             *)
Whole(i) ==
  LET n == wire[i].x.len
  IN /\ IsScan(wire[i].x) /\ wire[i].k = n /\ i >= n
     /\ \A j \in 1..n : wire[i + j - n] = [wire[i] EXCEPT !.k = j]

SentScans == {<<wire[i].to, wire[i].x.id>> : i \in {n \in DOMAIN wire : Whole(n)}}

HeldScan == IF recv_ok \/ spi_pc \in {"enter", "decode"} THEN spi_recvbuf.id ELSE 0

PostedScan ==
  IF /\ tcp_server_flag /\ srv_pc # "clear" /\ spi_pc # "decode"
     /\ IsScan(tcp_server_sendbuf[1])
     /\ \A c \in Conn : <<c, tcp_server_sendbuf[1].id>> \notin SentScans
    THEN tcp_server_sendbuf[1].id ELSE 0

Outbox == INSTANCE ScanOutbox WITH
  made <- nscan, held <- HeldScan, posted <- PostedScan, sent <- SentScans

(* Each scan read from the sensor is posted only when the former one was    *)
(* taken, and is then delivered whole, once and to one client, or dropped:  *)
(* by a failed write, for an echo, or because a write that was called for a *)
(* shorter echo cuts it off.  The steps of the three tasks map to the steps *)
(* of ScanOutbox.                                                           *)
Refinement == Outbox!Spec
=============================================================================
