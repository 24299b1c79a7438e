---------------------------- MODULE GatewayInv ----------------------------
(***************************************************************************)
(* The inductive invariant of Gateway from which GatewayProofs derives the  *)
(* safety properties.  Its parts say, in this order: where a connection and *)
(* a write begin and end; who is inside the critical section; what the      *)
(* recvmboxes and recvbuf hold; what spi_task and tcp_server_thread know at *)
(* each place; what a write under way was called for, what it has sent      *)
(* and where it left off; whose text the buffer holds; and how the scans    *)
(* that are sent, posted and held are ordered.                              *)
(***************************************************************************)
EXTENDS Gateway

(* The buffer holds one content in its first pieces and is cleared behind.  *)
Shape ==
  \A k \in 1..Chunks :
    tcp_server_sendbuf[k] =
      IF k <= tcp_server_sendbuf[1].len THEN tcp_server_sendbuf[1] ELSE Zero

ControlInv ==
  /\ newconn = NoConn <=> srv_pc = "accept"
  /\ srv_pc # "sending" => write_offset = 0
  /\ srv_pc = "sending" => write_offset < write_len

LockInv ==
  /\ irq = "spi" <=> spi_pc = "decode"
  /\ irq = "srv" <=> srv_pc = "copy"
  /\ irq = "spi" => srv_pc \in {"accept", "fetch", "sending", "closing"}

MboxOK(c, mbox) ==
  /\ Len(mbox) <= MboxCap
  /\ \A i \in 1..Len(mbox) : mbox[i] = Zero \/ mbox[i].from = c

ConnInv ==
  /\ \A c \in Conn : MboxOK(c, conn[c].recvmbox)
  /\ srv_pc \in {"enter", "copy"} => recvbuf.from = newconn

Holding == recv_ok \/ spi_pc \in {"enter", "decode"}

SpiInv ==
  /\ Holding => IsScan(spi_recvbuf) /\ spi_recvbuf.len >= 1
  /\ spi_pc \in {"enter", "decode"} => ~recv_ok
  /\ spi_pc = "enter" /\ tcp_server_flag => ~IsScan(tcp_server_sendbuf[1])
  /\ spi_pc = "decode" =>
       /\ spi_i >= 1 /\ spi_i <= spi_recvbuf.len + 1
       /\ \A k \in 1..Chunks :
            tcp_server_sendbuf[k] = IF k < spi_i THEN spi_recvbuf ELSE Zero

SrvInv ==
  /\ irq = "on" => Shape
  /\ srv_pc \in {"write", "sending", "clear"} => tcp_server_flag
  /\ srv_pc = "sending" /\ irq = "on" => tcp_server_sendbuf[1] # Zero
  /\ srv_pc = "copy" =>
       /\ srv_i >= 1 /\ srv_i <= recvbuf.len + 1
       /\ \A k \in 1..Chunks :
            tcp_server_sendbuf[k] = IF k < srv_i THEN recvbuf ELSE Zero

(* The content a blocked write was called for is a text of the served       *)
(* client, which only a scan replaces, or a scan that is still in the       *)
(* buffer; and once the write has sent a piece of a scan, or one behind its *)
(* end, that scan stays there.                                              *)
CalledInv ==
  srv_pc = "sending" =>
    /\ called # Zero /\ write_len = called.len
    /\ called.from # 0 => called.from = newconn
    /\ called.from = 0 => spi_pc # "decode" /\ tcp_server_sendbuf[1] = called
    /\ tcp_server_sendbuf[1].from # 0 => tcp_server_sendbuf[1] = called

WireInv ==
  srv_pc = "sending" /\ write_offset > 0 =>
    /\ wire # <<>>
    /\ wire[Len(wire)].to = newconn
    /\ wire[Len(wire)].x.from = 0 =>
         /\ spi_pc # "decode" /\ tcp_server_sendbuf[1].from = 0
         /\ wire[Len(wire)].x = tcp_server_sendbuf[write_offset]

(* ScanComplete, with what it takes to go on behind the last piece.         *)
CompleteInv ==
  \A i \in 1..Len(wire) :
    IsScan(wire[i].of) /\ wire[i].k < wire[i].of.len =>
      \/ i < Len(wire) /\ wire[i + 1] = [wire[i] EXCEPT !.k = @ + 1]
      \/ /\ i = Len(wire) /\ srv_pc = "sending" /\ newconn = wire[i].to
         /\ write_offset = wire[i].k /\ called = wire[i].of /\ wire[i].x = called
      \/ Fatal(wire[i].to)

EchoInv ==
  tcp_server_flag /\ irq = "on" /\ tcp_server_sendbuf[1].from # 0 =>
    /\ srv_pc \in {"loop", "write", "sending", "clear"}
    /\ tcp_server_sendbuf[1].from = newconn

(* The scans on the wire come before the posted content, which may be sent  *)
(* in part, and before the scan that spi_task holds.                        *)
SentBefore(e) ==
  IsScan(e.x) =>
    /\ e.x.id <= nscan
    /\ Holding => e.x.id < spi_recvbuf.id
    /\ tcp_server_flag /\ irq = "on" /\ IsScan(tcp_server_sendbuf[1]) /\ srv_pc # "clear" =>
         \/ e.x.id < tcp_server_sendbuf[1].id
         \/ e.x = tcp_server_sendbuf[1] /\ e.k <= write_offset

OrderInv ==
  /\ \A i \in 1..Len(wire) : SentBefore(wire[i])
  /\ Holding => spi_recvbuf.id \in 1..nscan
  /\ tcp_server_flag /\ irq = "on" /\ IsScan(tcp_server_sendbuf[1]) =>
       /\ tcp_server_sendbuf[1].id \in 1..nscan
       /\ Holding => tcp_server_sendbuf[1].id < spi_recvbuf.id

(* Every part holds in every reachable state: the critical sections and the *)
(* two flags recv_ok and LWIP_SEND_DATA hand each content from its writer   *)
(* to tcp_write, through all interleavings of the three tasks.              *)
IInv ==
  /\ ControlInv /\ LockInv /\ ConnInv /\ SpiInv /\ SrvInv
  /\ CalledInv /\ WireInv /\ CompleteInv /\ EchoInv /\ OrderInv
=============================================================================
