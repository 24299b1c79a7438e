------------------------------ MODULE Gateway ------------------------------
(***************************************************************************)
(* The data path of the STM32F407 gateway: spi_task (USER/main.c) decodes   *)
(* sensor scans into the shared tcp_server_sendbuf, tcp_server_thread       *)
(* (tcp_server_demo.c) sends that buffer to the one client it serves and    *)
(* echoes what the client sends, and tcpip_thread runs the lwIP callbacks   *)
(* (recv_tcp, sent_tcp, err_tcp, accept_function, do_write, do_close).      *)
(*                                                                         *)
(* Scheduling is part of the model.  uC/OS-II runs the ready task of the    *)
(* smallest priority number: tcpip_thread 5, tcp_server_thread 6, spi_task  *)
(* 8.  spi_task therefore moves only while tcp_server_thread is pended      *)
(* (SrvPended), tcpip_thread moves at any time, and nobody but the owner    *)
(* moves while interrupts are off (OS_ENTER_CRITICAL, variable irq).        *)
(*                                                                         *)
(* A content of the buffer is a record [from, id, len]: from = 0 is a scan  *)
(* of the sensor, from = c a text of client c, and Zero a buffer that       *)
(* memset cleared.  A content fills the first len pieces of the buffer and  *)
(* leaves the rest cleared; contents differ in length, and netconn_write    *)
(* keeps the length (strlen) of the content it was called for.              *)
(***************************************************************************)
EXTENDS Integers, Sequences, FiniteSets

CONSTANTS
  MaxScan,     \* bound: packets the sensor delivers
  MaxMsg,      \* bound: segments with a text all clients send
  MaxConn,     \* bound: connections the clients open
  NumNetconn,  \* MEMP_NUM_NETCONN without the listening one
  MboxCap,     \* MAX_QUEUE_ENTRIES, the size of a recvmbox
  PbufPool,    \* PBUF_POOL_SIZE, shared by everything that is received
  Chunks,      \* size of tcp_server_sendbuf, in the pieces tcp_write may take
  SndBuf,      \* TCP_SND_BUF, in pieces
  Stalls,      \* clients that may shut their window and never open it again
  ScanLens,    \* lengths a decoded scan may have
  TextLens     \* lengths a text of a client may have, besides 0

ASSUME GatewayAssumption ==
  /\ MaxScan \in Nat /\ MaxMsg \in Nat /\ MaxConn \in Nat
  /\ NumNetconn \in Nat \ {0} /\ MboxCap \in Nat \ {0} /\ PbufPool \in Nat \ {0}
  /\ Chunks \in Nat \ {0} /\ SndBuf \in Nat \ {0}
  /\ Stalls \subseteq 1..MaxConn
  /\ ScanLens \subseteq 1..Chunks /\ TextLens \subseteq 1..Chunks

Conn == 1..MaxConn
Zero == [from |-> 0, id |-> 0, len |-> 0]  \* memset buffer; also the NULL message of a mailbox
Content == [from : 0..MaxConn, id : 0..(MaxScan + MaxMsg), len : 0..Chunks]
IsScan(x) == x.from = 0 /\ x # Zero
NoConn == 0
Blank == [k \in 1..Chunks |-> Zero]

VARIABLES
  tcp_server_flag,     \* LWIP_SEND_DATA is set
  tcp_server_sendbuf,  \* the shared buffer, piece by piece
  irq,                 \* "on", or the task that is inside OS_ENTER_CRITICAL
  spi_pc, recv_ok, spi_recvbuf, spi_i, nscan,         \* spi_task
  srv_pc, newconn, recvbuf, srv_i,                    \* tcp_server_thread
  write_offset, write_len,  \* conn->write_offset, current_msg->msg.w.len
  called,              \* history: the content netconn_write was called for
  conn, acceptmbox, nmsg,                             \* lwIP and the clients
  wire                 \* history: the pieces tcp_write took, in order

buf == <<tcp_server_flag, tcp_server_sendbuf, irq>>
spi == <<spi_pc, recv_ok, spi_recvbuf, spi_i, nscan>>
write == <<write_offset, write_len, called>>
srv == <<srv_pc, newconn, recvbuf, srv_i, write>>
net == <<conn, acceptmbox, nmsg>>
vars == <<buf, spi, srv, net, wire>>

SpiPC == {"poll", "check", "enter", "decode"}
SrvPC == {"accept", "loop", "write", "sending", "clear", "recv", "fetch",
          "enter", "copy", "close", "closing"}

(* A connection as lwIP sees it.  phase: not opened, in the acceptmbox,     *)
(* handed to tcp_server_thread, deleted.  pcb: conn->pcb.tcp # NULL.        *)
Netconn == [phase : {"unused", "queued", "served", "deleted"}, pcb : BOOLEAN,
            last_err : {"OK", "RST", "ABRT"}, recvmbox : Seq(Content),
            fin : BOOLEAN, unacked : 0..SndBuf]

NewNetconn == [phase |-> "unused", pcb |-> FALSE, last_err |-> "OK",
               recvmbox |-> <<>>, fin |-> FALSE, unacked |-> 0]

Init ==
  /\ tcp_server_flag = FALSE /\ tcp_server_sendbuf = Blank /\ irq = "on"
  /\ spi_pc = "poll" /\ recv_ok = FALSE /\ spi_recvbuf = Zero /\ spi_i = 0 /\ nscan = 0
  /\ srv_pc = "accept" /\ newconn = NoConn /\ recvbuf = Zero /\ srv_i = 0
  /\ write_offset = 0 /\ write_len = 0 /\ called = Zero
  /\ conn = [c \in Conn |-> NewNetconn] /\ acceptmbox = <<>> /\ nmsg = 0
  /\ wire = <<>>

-----------------------------------------------------------------------------
(* lwIP and kernel helpers.                                                 *)

Fatal(c) == conn[c].last_err # "OK"                       \* ERR_IS_FATAL
Full(c) == Len(conn[c].recvmbox) >= MboxCap               \* sys_mbox_valid answers 0
Served(c) == newconn = c /\ conn[c].phase = "served"

(* pbufs of the pool that recvmboxes and the netbuf being echoed hold.      *)
Held ==
  Cardinality({p \in Conn \X (1..MboxCap) :
                 LET mbox == conn[p[1]].recvmbox
                 IN p[2] <= Len(mbox) /\ mbox[p[2]] # Zero})
  + (IF srv_pc \in {"enter", "copy"} THEN 1 ELSE 0)
PbufFree == Held < PbufPool

(* tcp_server_thread waits in OSQPend or OSSemPend and nothing woke it.     *)
SrvPended ==
  \/ srv_pc = "accept" /\ acceptmbox = <<>>
  \/ srv_pc = "fetch" /\ conn[newconn].recvmbox = <<>>
  \/ srv_pc \in {"sending", "closing"}

SpiMayRun == SrvPended /\ irq \in {"on", "spi"}
SrvMayRun == irq \in {"on", "srv"}
NetMayRun == irq = "on"

-----------------------------------------------------------------------------
(* spi_task.  One scan is read with interrupts off, so it is one step; the  *)
(* byte exchange itself is module SpiLink.                                  *)

SpiPoll ==   \* request, header check, packet into spi_recvbuf
  /\ SpiMayRun /\ spi_pc = "poll"
  /\ spi_pc' = "check"
  /\ \/ UNCHANGED <<recv_ok, spi_recvbuf, nscan>>         \* recv_ok, or no 'sSN' came
     \/ /\ ~recv_ok /\ nscan < MaxScan
        /\ nscan' = nscan + 1
        /\ \E len \in ScanLens : spi_recvbuf' = [from |-> 0, id |-> nscan + 1, len |-> len]
        /\ recv_ok' = TRUE
  /\ UNCHANGED <<spi_i, buf, srv, net, wire>>

(* Faulty variant: LWIP_SEND_DATA is not tested. *)
SpiCheckNoFlag ==
  /\ SpiMayRun /\ spi_pc = "check"
  /\ IF recv_ok
       THEN recv_ok' = FALSE /\ spi_pc' = "enter"
       ELSE spi_pc' = "poll" /\ UNCHANGED recv_ok
  /\ UNCHANGED <<spi_recvbuf, spi_i, nscan, buf, srv, net, wire>>

SpiCheck ==  \* the test of recv_ok and the flag, before OS_ENTER_CRITICAL
  /\ SpiMayRun /\ spi_pc = "check"
  /\ IF recv_ok /\ ~tcp_server_flag
       THEN recv_ok' = FALSE /\ spi_pc' = "enter"
       ELSE spi_pc' = "poll" /\ UNCHANGED recv_ok
  /\ UNCHANGED <<spi_recvbuf, spi_i, nscan, buf, srv, net, wire>>

SpiEnter ==  \* OS_ENTER_CRITICAL, memset
  /\ SpiMayRun /\ spi_pc = "enter" /\ irq = "on"
  /\ irq' = "spi" /\ tcp_server_sendbuf' = Blank
  /\ spi_i' = 1 /\ spi_pc' = "decode"
  /\ UNCHANGED <<tcp_server_flag, recv_ok, spi_recvbuf, nscan, srv, net, wire>>

SpiDecode ==  \* TIMXX_Decode writes the buffer front to back
  /\ SpiMayRun /\ spi_pc = "decode" /\ spi_i <= spi_recvbuf.len
  /\ tcp_server_sendbuf' = [tcp_server_sendbuf EXCEPT ![spi_i] = spi_recvbuf]
  /\ spi_i' = spi_i + 1
  /\ UNCHANGED <<tcp_server_flag, irq, spi_pc, recv_ok, spi_recvbuf, nscan, srv, net, wire>>

SpiPost ==   \* set LWIP_SEND_DATA, OS_EXIT_CRITICAL, OSTimeDlyHMSM
  /\ SpiMayRun /\ spi_pc = "decode" /\ spi_i > spi_recvbuf.len
  /\ tcp_server_flag' = TRUE /\ irq' = "on"
  /\ spi_i' = 0 /\ spi_pc' = "poll"
  /\ UNCHANGED <<tcp_server_sendbuf, recv_ok, spi_recvbuf, nscan, srv, net, wire>>

SpiTask == SpiPoll \/ SpiCheck \/ SpiEnter \/ SpiDecode \/ SpiPost

-----------------------------------------------------------------------------
(* tcp_server_thread.                                                       *)

SrvAccept == \* netconn_accept; a timeout only calls it again
  /\ SrvMayRun /\ srv_pc = "accept" /\ acceptmbox # <<>>
  /\ newconn' = Head(acceptmbox) /\ acceptmbox' = Tail(acceptmbox)
  /\ conn' = [conn EXCEPT ![newconn'].phase = "served"]
  /\ srv_pc' = "loop"
  /\ UNCHANGED <<recvbuf, srv_i, write, nmsg, buf, spi, wire>>

SrvLoop ==   \* anything to send?
  /\ SrvMayRun /\ srv_pc = "loop"
  /\ srv_pc' = IF tcp_server_flag THEN "write" ELSE "recv"
  /\ UNCHANGED <<newconn, recvbuf, srv_i, write, buf, spi, net, wire>>

Pieces(c, of, offset, n) ==  \* n pieces from the offset on, as the buffer holds them now
  [i \in 1..n |-> [to |-> c, k |-> offset + i, of |-> of, x |-> tcp_server_sendbuf[offset + i]]]

WriteFinished ==
  /\ srv_pc' = "clear"
  /\ write_offset' = 0 /\ write_len' = 0 /\ called' = Zero

(* Faulty variant: the available < len test of do_writemore is missing. *)
DoWriteMoreNoLimit(c, of, len, offset, unack) ==
  LET n == len - offset
  IN /\ wire' = wire \o Pieces(c, of, offset, n)
     /\ conn' = [conn EXCEPT ![c].unacked = unack + n]
     /\ WriteFinished

(* Faulty variant: a write that is taken in part returns as a non-blocking  *)
(* one does.                                                                *)
DoWriteMoreOnce(c, of, len, offset, unack) ==
  LET fits == SndBuf - unack
      rest == len - offset
  IN \E n \in {0, IF fits < rest THEN fits ELSE rest} :
       /\ wire' = wire \o Pieces(c, of, offset, n)
       /\ conn' = [conn EXCEPT ![c].unacked = unack + n]
       /\ WriteFinished

(* do_writemore: tcp_write takes as much of what is left of len as the send *)
(* buffer has room for, or nothing when it is out of memory (ERR_MEM, tried *)
(* again later).  unack is the number of pieces still unacknowledged when   *)
(* it runs, of the content the write was called for.                        *)
DoWriteMore(c, of, len, offset, unack) ==
  LET fits == SndBuf - unack
      rest == len - offset
  IN \E n \in {0, IF fits < rest THEN fits ELSE rest} :
       /\ wire' = wire \o Pieces(c, of, offset, n)
       /\ conn' = [conn EXCEPT ![c].unacked = unack + n]
       /\ IF n = rest
            THEN WriteFinished
            ELSE /\ srv_pc' = "sending"
                 /\ write_offset' = offset + n /\ write_len' = len /\ called' = of

StrlenIs(n) ==
  /\ \A k \in 1..n : tcp_server_sendbuf[k] # Zero
  /\ n < Chunks => tcp_server_sendbuf[n + 1] = Zero

SrvWrite ==  \* netconn_write: length 0 and a dead connection return at once
  /\ SrvMayRun /\ srv_pc = "write"
  /\ \E len \in 0..Chunks :
       /\ StrlenIs(len)
       /\ IF len = 0 \/ Fatal(newconn)
            THEN srv_pc' = "clear" /\ UNCHANGED <<write, conn, wire>>
            ELSE DoWriteMore(newconn, tcp_server_sendbuf[1], len, 0, conn[newconn].unacked)
  /\ UNCHANGED <<newconn, recvbuf, srv_i, acceptmbox, nmsg, buf, spi>>

(* Faulty variant: LWIP_SEND_DATA is not cleared after the write. *)
SrvClearForgotten ==
  /\ SrvMayRun /\ srv_pc = "clear"
  /\ srv_pc' = "recv"
  /\ UNCHANGED <<newconn, recvbuf, srv_i, write, buf, spi, net, wire>>

SrvClear ==  \* whatever netconn_write returned
  /\ SrvMayRun /\ srv_pc = "clear"
  /\ tcp_server_flag' = FALSE /\ srv_pc' = "recv"
  /\ UNCHANGED <<tcp_server_sendbuf, irq, newconn, recvbuf, srv_i, write, spi, net, wire>>

(* Faulty variant: netconn_recv polls: an empty recvmbox returns at once. *)
SrvRecvNoWait ==
  /\ SrvMayRun /\ srv_pc = "recv"
  /\ srv_pc' = IF Full(newconn) \/ Fatal(newconn) \/ conn[newconn].recvmbox = <<>>
                 THEN "loop" ELSE "fetch"
  /\ UNCHANGED <<newconn, recvbuf, srv_i, write, buf, spi, net, wire>>

SrvRecv ==   \* netconn_recv up to the pend: a full mailbox is "invalid"
  /\ SrvMayRun /\ srv_pc = "recv"
  /\ srv_pc' = IF Full(newconn) \/ Fatal(newconn) THEN "loop" ELSE "fetch"
  /\ UNCHANGED <<newconn, recvbuf, srv_i, write, buf, spi, net, wire>>

(* Faulty variant: newconn->recv_timeout is left at 0, wait for ever. *)
SrvTimeoutNever == FALSE /\ UNCHANGED vars

SrvTimeout == \* the 10 ms recv_timeout of the pend expires
  /\ NetMayRun /\ srv_pc = "fetch" /\ conn[newconn].recvmbox = <<>>
  /\ srv_pc' = "loop"
  /\ UNCHANGED <<newconn, recvbuf, srv_i, write, buf, spi, net, wire>>

SrvFetch ==  \* a segment is copied to tcp_server_recvbuf; NULL gives ERR_CLSD
  /\ SrvMayRun /\ srv_pc = "fetch" /\ conn[newconn].recvmbox # <<>>
  /\ LET m == Head(conn[newconn].recvmbox)
     IN IF m = Zero THEN srv_pc' = "close" /\ UNCHANGED recvbuf
                    ELSE srv_pc' = "enter" /\ recvbuf' = m
  /\ conn' = [conn EXCEPT ![newconn].recvmbox = Tail(@)]
  /\ UNCHANGED <<newconn, srv_i, write, acceptmbox, nmsg, buf, spi, wire>>

SrvEnter ==  \* OS_ENTER_CRITICAL, memset; LWIP_SEND_DATA is not looked at
  /\ SrvMayRun /\ srv_pc = "enter" /\ irq = "on"
  /\ irq' = "srv" /\ tcp_server_sendbuf' = Blank
  /\ srv_i' = 1 /\ srv_pc' = "copy"
  /\ UNCHANGED <<tcp_server_flag, newconn, recvbuf, write, spi, net, wire>>

SrvCopy ==   \* memcpy of strlen(recvbuf) bytes: nothing for an empty text
  /\ SrvMayRun /\ srv_pc = "copy" /\ srv_i <= recvbuf.len
  /\ tcp_server_sendbuf' = [tcp_server_sendbuf EXCEPT ![srv_i] = recvbuf]
  /\ srv_i' = srv_i + 1
  /\ UNCHANGED <<tcp_server_flag, irq, srv_pc, newconn, recvbuf, write, spi, net, wire>>

(* Faulty variant: netconn_recv is called again before the echo is sent. *)
SrvPostReceivesFirst ==
  /\ SrvMayRun /\ srv_pc = "copy" /\ srv_i > recvbuf.len
  /\ tcp_server_flag' = TRUE /\ irq' = "on"
  /\ srv_i' = 0 /\ srv_pc' = "recv" /\ recvbuf' = Zero
  /\ UNCHANGED <<tcp_server_sendbuf, newconn, write, spi, net, wire>>

SrvPost ==   \* set LWIP_SEND_DATA, OS_EXIT_CRITICAL, netbuf_delete
  /\ SrvMayRun /\ srv_pc = "copy" /\ srv_i > recvbuf.len
  /\ tcp_server_flag' = TRUE /\ irq' = "on"
  /\ srv_i' = 0 /\ srv_pc' = "loop" /\ recvbuf' = Zero
  /\ UNCHANGED <<tcp_server_sendbuf, newconn, write, spi, net, wire>>

(* netconn_drain, then the pcb and the netconn go; back to netconn_accept.  *)
Delete ==
  /\ conn' = [conn EXCEPT ![newconn] = [@ EXCEPT !.phase = "deleted", !.pcb = FALSE,
                                                 !.recvmbox = <<>>, !.fin = FALSE,
                                                 !.unacked = 0]]
  /\ newconn' = NoConn /\ srv_pc' = "accept"

SrvClose ==  \* netconn_close, netconn_delete; tcp_close may be out of memory
  /\ SrvMayRun /\ srv_pc = "close"
  /\ \/ Delete
     \/ /\ conn[newconn].pcb
        /\ srv_pc' = "closing"
        /\ conn' = [conn EXCEPT ![newconn].recvmbox = <<>>]
        /\ UNCHANGED newconn
  /\ UNCHANGED <<recvbuf, srv_i, write, acceptmbox, nmsg, buf, spi, wire>>

TcpServerThread ==
  \/ SrvAccept \/ SrvLoop \/ SrvWrite \/ SrvClear \/ SrvRecv \/ SrvTimeout
  \/ SrvFetch \/ SrvEnter \/ SrvCopy \/ SrvPost \/ SrvClose

-----------------------------------------------------------------------------
(* tcpip_thread, driven by the clients' segments and by the TCP timers.     *)

Opened == {c \in Conn : conn[c].phase # "unused"}
Alive == {c \in Conn : conn[c].phase \in {"queued", "served"}}

NetConnect(c) == \* accept_function; without a free netconn the client is refused
  /\ NetMayRun /\ PbufFree
  /\ c = Cardinality(Opened) + 1 /\ Cardinality(Alive) < NumNetconn
  /\ conn' = [conn EXCEPT ![c] = [@ EXCEPT !.phase = "queued", !.pcb = TRUE]]
  /\ acceptmbox' = Append(acceptmbox, c)
  /\ UNCHANGED <<nmsg, buf, spi, srv, wire>>

(* recv_tcp and err_tcp post to a recvmbox only when sys_mbox_valid says 1; *)
(* what is not posted is acknowledged and gone.                             *)
Post(mbox, m) == IF Len(mbox) >= MboxCap THEN mbox ELSE Append(mbox, m)

NetData(c) == \* recv_tcp with a text, empty if it starts with NUL; the segment
              \* may carry the FIN too, then recv_tcp runs again with p = NULL
  /\ NetMayRun /\ PbufFree
  /\ c \in Alive /\ conn[c].pcb /\ ~conn[c].fin
  /\ \E len \in {0} \cup TextLens, fin \in BOOLEAN :
       LET text == [from |-> c, id |-> IF len = 0 THEN 0 ELSE nmsg + 1, len |-> len]
           mbox == Post(conn[c].recvmbox, text)
       IN /\ len # 0 => nmsg < MaxMsg
          /\ nmsg' = IF len = 0 THEN nmsg ELSE nmsg + 1
          /\ conn' = [conn EXCEPT ![c] =
               [@ EXCEPT !.fin = fin, !.recvmbox = IF fin THEN Post(mbox, Zero) ELSE mbox]]
  /\ UNCHANGED <<acceptmbox, buf, spi, srv, wire>>

NetFin(c) == \* recv_tcp with p = NULL
  /\ NetMayRun /\ PbufFree
  /\ c \in Alive /\ conn[c].pcb /\ ~conn[c].fin
  /\ conn' = [conn EXCEPT ![c] = [@ EXCEPT !.fin = TRUE, !.recvmbox = Post(conn[c].recvmbox, Zero)]]
  /\ UNCHANGED <<acceptmbox, nmsg, buf, spi, srv, wire>>

(* Faulty variant: a close that waits for memory is not tried again.        *)
ProgressWriteOnly(c, unack) ==
  /\ Served(c) /\ srv_pc = "sending"
  /\ DoWriteMore(c, called, write_len, write_offset, unack)
  /\ UNCHANGED newconn

(* sent_tcp for n acknowledged pieces, poll_tcp for n = 0: the blocked      *)
(* write or close of the connection goes on.                                *)
Progress(c, unack) ==
  \/ /\ Served(c) /\ srv_pc = "sending"
     /\ DoWriteMore(c, called, write_len, write_offset, unack)
     /\ UNCHANGED newconn
  \/ /\ Served(c) /\ srv_pc = "closing"
     /\ Delete
     /\ UNCHANGED <<write, wire>>

NetPoll(c) ==
  /\ NetMayRun /\ c \in Alive /\ conn[c].pcb
  /\ Progress(c, conn[c].unacked)
  /\ UNCHANGED <<recvbuf, srv_i, acceptmbox, nmsg, buf, spi>>

NetAck(c) ==
  /\ NetMayRun /\ PbufFree /\ c \in Alive /\ conn[c].pcb
  /\ \E n \in 1..conn[c].unacked :
       \/ Progress(c, conn[c].unacked - n)
       \/ /\ ~(Served(c) /\ srv_pc \in {"sending", "closing"})
          /\ conn' = [conn EXCEPT ![c].unacked = @ - n]
          /\ UNCHANGED <<newconn, srv_pc, write, wire>>
  /\ UNCHANGED <<recvbuf, srv_i, acceptmbox, nmsg, buf, spi>>

(* err_tcp: a blocked write returns the error, a blocked close goes on to   *)
(* netconn_delete, and a NULL wakes a pending netconn_recv.                 *)
NetError(c, err) ==
  /\ NetMayRun /\ c \in Alive /\ conn[c].pcb
  /\ IF Served(c) /\ srv_pc = "closing"
       THEN Delete /\ UNCHANGED write
       ELSE /\ conn' = [conn EXCEPT ![c] = [@ EXCEPT !.pcb = FALSE, !.last_err = err,
                          !.unacked = 0, !.recvmbox = Post(conn[c].recvmbox, Zero)]]
            /\ IF Served(c) /\ srv_pc = "sending"
                 THEN WriteFinished
                 ELSE UNCHANGED <<srv_pc, write>>
            /\ UNCHANGED newconn
  /\ UNCHANGED <<recvbuf, srv_i, acceptmbox, nmsg, buf, spi, wire>>

NetReset(c) == PbufFree /\ NetError(c, "RST")             \* the client sends RST
NetAbort(c) == conn[c].unacked > 0 /\ NetError(c, "ABRT") \* retransmissions exhausted

TcpipThread ==
  \E c \in Conn : \/ NetConnect(c) \/ NetData(c) \/ NetFin(c) \/ NetPoll(c)
                  \/ NetAck(c) \/ NetReset(c) \/ NetAbort(c)

Next == SpiTask \/ TcpServerThread \/ TcpipThread

Spec == Init /\ [][Next]_vars

(* tcp_server_thread has priority over everything but the stack, so it gets *)
(* on whenever it can.  spi_task is preempted again and again, but every    *)
(* pend of the server lasts at least until the next clock tick and leaves   *)
(* it the processor: strong fairness.  TCP sees to an acknowledgement or    *)
(* gives up after TCP_MAXRTX retransmissions, but not with a client whose   *)
(* window is shut: that one is probed without a limit (tcp.c:831-843), and  *)
(* netconn_write has no timeout.  poll_tcp runs every two seconds; ERR_MEM  *)
(* is "only a temporary error" (api_msg.c), so polls do not run out of      *)
(* memory for ever.  Clients are not obliged to send, close or reset, or to *)
(* stop sending.                                                            *)
Fairness ==
  /\ WF_vars(TcpServerThread)
  /\ SF_vars(SpiTask)
  /\ \A c \in Conn : WF_vars(NetPoll(c))
  /\ \A c \in Conn \ Stalls : WF_vars(NetAck(c) \/ NetAbort(c))

FairSpec == Spec /\ Fairness

-----------------------------------------------------------------------------
(* The type invariant: every variable of the tasks, the stack and the wire  *)
(* stays in its range.                                                      *)
TypeOK ==
  /\ tcp_server_flag \in BOOLEAN
  /\ tcp_server_sendbuf \in [1..Chunks -> Content]
  /\ irq \in {"on", "spi", "srv"}
  /\ spi_pc \in SpiPC /\ recv_ok \in BOOLEAN /\ spi_recvbuf \in Content
  /\ spi_i \in 0..(Chunks + 1) /\ nscan \in 0..MaxScan
  /\ srv_pc \in SrvPC /\ newconn \in Conn \cup {NoConn} /\ recvbuf \in Content
  /\ srv_i \in 0..(Chunks + 1)
  /\ write_offset \in 0..Chunks /\ write_len \in 0..Chunks /\ called \in Content
  /\ conn \in [Conn -> Netconn] /\ (\A c \in Conn : Len(conn[c].recvmbox) <= MboxCap)
  /\ acceptmbox \in Seq(Conn) /\ nmsg \in 0..MaxMsg
  /\ wire \in Seq([to : Conn, k : 1..Chunks, of : Content, x : Content])

(* A netconn_write called for a scan sends that scan and nothing else.  And *)
(* a write called for an echo, whose content spi_task may replace while it  *)
(* is blocked, sends from the first piece of a scan on only what follows in *)
(* that scan, or the cleared pieces behind its end, and to the same client: *)
(* a scan is cut off or padded there, but never mixed with another content. *)
ScanIntact ==
  \A i \in DOMAIN wire :
    /\ IsScan(wire[i].of) => wire[i].x = wire[i].of
    /\ i > 1 /\ wire[i].k > 1 /\ wire[i - 1].x.from = 0 =>
         /\ wire[i].to = wire[i - 1].to
         /\ wire[i].x = IF wire[i].k <= wire[i - 1].x.len THEN wire[i - 1].x ELSE Zero

(* A scan that netconn_write was called for arrives as a whole: each piece  *)
(* is followed by the next one, or its write still goes on, or the          *)
(* connection broke.  No partial write is left standing.                    *)
ScanComplete ==
  \A i \in DOMAIN wire :
    IsScan(wire[i].of) /\ wire[i].k < wire[i].of.len =>
      \/ i < Len(wire) /\ wire[i + 1] = [wire[i] EXCEPT !.k = @ + 1]
      \/ i = Len(wire) /\ srv_pc = "sending" /\ newconn = wire[i].to
      \/ Fatal(wire[i].to)

(* The cleared buffer is never sent by itself, as the memset and the refill *)
(* of each writer are one critical section for the reader in tcpip_thread:  *)
(* a cleared piece goes out only behind the first one, in a write that was  *)
(* called for an echo.                                                      *)
NoBlankSent ==
  \A i \in DOMAIN wire : wire[i].x = Zero => wire[i].k > 1 /\ wire[i].of.from # 0

(* No scan is sent twice and none overtakes an older one, also not across   *)
(* the connections, whatever was overwritten or lost in between.            *)
ScansInOrder ==
  \A i, j \in DOMAIN wire :
    i < j /\ IsScan(wire[i].x) /\ IsScan(wire[j].x) =>
      \/ wire[i].x.id < wire[j].x.id
      \/ wire[i].x.id = wire[j].x.id /\ wire[i].k < wire[j].k

(* A text a client sent is echoed to that client only: tcp_server_sendbuf   *)
(* outlives a connection, an echo in it must not.                           *)
EchoToSender ==
  \A i \in DOMAIN wire : wire[i].x.from # 0 => wire[i].to = wire[i].x.from

(* A scan that is posted and not yet cleared by the server is overwritten   *)
(* only by an echo, never by the next scan: the test of LWIP_SEND_DATA,     *)
(* outside the critical section as it is, does hold for spi_task's own      *)
(* posts, across every preemption between the test and the memset.          *)
PendingScanKept ==
  [][ tcp_server_flag /\ irq = "on" /\ IsScan(tcp_server_sendbuf[1])
        /\ tcp_server_sendbuf' # tcp_server_sendbuf
      => srv_pc = "enter" ]_vars

(* The served connection will never be released again: every netconn_recv   *)
(* returns an error that tcp_server_thread does not handle.                 *)
Stuck == newconn # NoConn /\ (Fatal(newconn) \/ Full(newconn))

(* A client that keeps sending can keep the server from ever waiting.       *)
Streaming == []<><<\E c \in Conn : NetData(c)>>_vars

(* The lower tasks get the processor again and again, unless the server is  *)
(* stuck or clients send for ever: nothing else, no write, echo, error or   *)
(* close, takes the loop round again and again without a pend.              *)
LowerTasksRun == []<>(SrvPended \/ Stuck) \/ Streaming

(* What was posted is taken from the buffer as long as a client is served   *)
(* that goes on reading, whatever the clients before it left behind.        *)
PendingTaken ==
  \A c \in Conn \ Stalls :
    (tcp_server_flag /\ newconn = c) ~> (~tcp_server_flag \/ newconn # c)

(* A client whose close has reached the recvmbox (a full one does not take  *)
(* the NULL message of recv_tcp) and that goes on reading is released,      *)
(* unless the server is stuck.                                              *)
CloseReleased ==
  \A c \in Conn \ Stalls :
    (Served(c) /\ \E i \in DOMAIN conn[c].recvmbox : conn[c].recvmbox[i] = Zero)
      ~> (conn[c].phase = "deleted" \/ Stuck)

-----------------------------------------------------------------------------
(* What comments of the source say and the code does not keep.              *)

(* "send the received data back to the client" (tcp_server_demo.c:99):      *)
(* every netconn_write sends the content it was called for.                 *)
WriteIntact == \A i \in DOMAIN wire : wire[i].x = wire[i].of

(* "wait 10ms" (tcp_server_demo.c:52), led_task "delay 500ms" (main.c:226): *)
(* the server's loop waits, and the tasks below it run, for ever; leave out *)
(* clients that never stop sending.                                         *)
ServerWaits == []<>SrvPended \/ Streaming
=============================================================================
