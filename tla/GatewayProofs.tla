--------------------------- MODULE GatewayProofs ---------------------------
(***************************************************************************)
(* The safety properties of Gateway for every value of its constants.       *)
(* TypeOK is inductive with ControlInv; the other parts of IInv are then    *)
(* preserved one task at a time.  At the end, Gateway implements            *)
(* ScanOutbox: each step of the tasks and of the stack reads, posts,        *)
(* delivers or drops one scan of the outbox, or changes nothing in it.      *)
(***************************************************************************)
EXTENDS GatewayInv, GatewayOutbox, SequenceTheorems, TLAPS

Piece == [to : Conn, k : 1..Chunks, of : Content, x : Content]

(* What DoWriteMore does to the wire, in terms of lengths and elements. *)
LEMMA WireGrows ==
  ASSUME TypeOK, NEW c \in Conn, NEW of \in Content, NEW offset \in 0..Chunks,
         NEW n \in 0..(Chunks - offset), wire' = wire \o Pieces(c, of, offset, n)
  PROVE  /\ wire' \in Seq(Piece)
         /\ Len(wire') = Len(wire) + n
         /\ \A i \in 1..Len(wire) : wire'[i] = wire[i]
         /\ \A i \in 1..n : wire'[Len(wire) + i] =
              [to |-> c, k |-> offset + i, of |-> of, x |-> tcp_server_sendbuf[offset + i]]
<1> DEFINE f == Pieces(c, of, offset, n)
<1>1. Chunks \in Nat /\ offset \in Nat /\ n \in Nat /\ offset + n <= Chunks
  BY GatewayAssumption
<1>2. \A i \in 1..n : offset + i \in 1..Chunks
  BY <1>1
<1>3. \A i \in 1..n : f[i] \in Piece
  BY <1>2 DEF TypeOK, Piece, Pieces
<1>4. f \in Seq(Piece) /\ Len(f) = n
  <2>1. f \in [1..n -> Piece]
    BY <1>3 DEF Pieces
  <2> QED
    BY <2>1, <1>1, SeqDef, LenProperties
<1>5. wire \in Seq(Piece) /\ Len(wire) \in Nat
  BY DEF TypeOK, Piece
<1>6. /\ wire \o f \in Seq(Piece)
      /\ Len(wire \o f) = Len(wire) + Len(f)
      /\ \A i \in 1..(Len(wire) + Len(f)) :
           (wire \o f)[i] = IF i <= Len(wire) THEN wire[i] ELSE f[i - Len(wire)]
  BY <1>4, <1>5, ConcatProperties
<1>7. \A i \in 1..n : f[i] =
        [to |-> c, k |-> offset + i, of |-> of, x |-> tcp_server_sendbuf[offset + i]]
  BY DEF Pieces
<1>8. wire' = wire \o f
  OBVIOUS
<1> HIDE DEF f
<1>9. \A i \in 1..n : wire'[Len(wire) + i] = f[i]
  BY <1>1, <1>4, <1>5, <1>6, <1>8
<1> QED
  BY <1>1, <1>4, <1>5, <1>6, <1>7, <1>8, <1>9

(* The two ways do_writemore ends, with the number n of pieces it took. *)
Continues(of, len, offset, n) ==
  \/ offset + n = len /\ WriteFinished
  \/ /\ offset + n < len
     /\ srv_pc' = "sending" /\ write_offset' = offset + n /\ write_len' = len /\ called' = of

LEMMA WriteOutcome ==
  ASSUME TypeOK, NEW c \in Conn, NEW of \in Content, NEW len \in 0..Chunks,
         NEW offset \in 0..Chunks, offset < len,
         NEW unack \in 0..SndBuf, DoWriteMore(c, of, len, offset, unack)
  PROVE  \E n \in 0..(len - offset) :
           /\ unack + n \in 0..SndBuf
           /\ conn' = [conn EXCEPT ![c].unacked = unack + n]
           /\ wire' = wire \o Pieces(c, of, offset, n)
           /\ Continues(of, len, offset, n)
<1> DEFINE fits == SndBuf - unack
           rest == len - offset
<1>1. PICK n \in {0, IF fits < rest THEN fits ELSE rest} :
        /\ wire' = wire \o Pieces(c, of, offset, n)
        /\ conn' = [conn EXCEPT ![c].unacked = unack + n]
        /\ IF n = rest
             THEN WriteFinished
             ELSE /\ srv_pc' = "sending"
                  /\ write_offset' = offset + n /\ write_len' = len /\ called' = of
  BY DEF DoWriteMore
<1>2. n \in 0..rest /\ unack + n \in 0..SndBuf
  BY GatewayAssumption
<1>3. n \in 0..(len - offset)
  BY <1>2
<1>4. \/ n = rest /\ WriteFinished
      \/ /\ n # rest /\ srv_pc' = "sending"
         /\ write_offset' = offset + n /\ write_len' = len /\ called' = of
  BY <1>1, Zenon
<1>5. n = rest => offset + n = len
  BY <1>2, GatewayAssumption
<1>6. n # rest => offset + n < len
  BY <1>2, GatewayAssumption
<1> HIDE DEF fits, rest
<1>7. Continues(of, len, offset, n)
  BY <1>4, <1>5, <1>6, Zenon DEF Continues
<1> QED
  BY <1>1, <1>2, <1>3, <1>7, Zenon

(* A post keeps a recvmbox in its type and capacity, and adds at most m.    *)
LEMMA MboxPost ==
  ASSUME NEW mbox \in Seq(Content), NEW m \in Content, Len(mbox) <= MboxCap
  PROVE  /\ Post(mbox, m) \in Seq(Content)
         /\ Len(Post(mbox, m)) <= MboxCap
         /\ \A i \in 1..Len(Post(mbox, m)) :
              \/ Post(mbox, m)[i] = m
              \/ i \in 1..Len(mbox) /\ Post(mbox, m)[i] = mbox[i]
<1>1. Len(mbox) \in Nat /\ MboxCap \in Nat
  BY GatewayAssumption
<1>2. CASE Len(mbox) >= MboxCap
  BY <1>1, <1>2 DEF Post
<1>3. CASE ~(Len(mbox) >= MboxCap)
  <2>1. Post(mbox, m) = Append(mbox, m)
    BY <1>3 DEF Post
  <2> QED
    BY <1>1, <1>3, <2>1, AppendProperties
<1> QED
  BY <1>2, <1>3

(* The NULL message is one of the contents.                                 *)
LEMMA ZeroContent == Zero \in Content
  BY GatewayAssumption DEF Zero, Content

(* The length of a content fits the buffer, its number is a natural.        *)
LEMMA ContentTyped ==
  ASSUME NEW x \in Content
  PROVE  x.len \in 0..Chunks /\ x.id \in Nat
BY GatewayAssumption DEF Content

-----------------------------------------------------------------------------
(* Types.  Every step changes at most one connection.                       *)

TypeInv == TypeOK /\ ControlInv /\ ConnInv

ConnOK == conn \in [Conn -> Netconn] /\ \A c \in Conn : MboxOK(c, conn[c].recvmbox)

(* Replacing the entry of one connection by a good one keeps the table good.*)
LEMMA ConnUpdate ==
  ASSUME ConnOK, NEW c \in Conn, NEW r \in Netconn, MboxOK(c, r.recvmbox),
         conn' = [conn EXCEPT ![c] = r]
  PROVE  ConnOK'
<1>1. conn' \in [Conn -> Netconn]
  BY DEF ConnOK
<1>2. \A d \in Conn : MboxOK(d, conn'[d].recvmbox)
  <2> TAKE d \in Conn
  <2>1. conn'[d] = IF d = c THEN r ELSE conn[d]
    BY DEF ConnOK
  <2> QED
    BY <2>1 DEF ConnOK
<1> QED
  BY <1>1, <1>2 DEF ConnOK, MboxOK

(* A post of NULL or of the client's own text keeps a recvmbox good.        *)
LEMMA ConnPost ==
  ASSUME NEW c \in Conn, NEW mbox \in Seq(Content), MboxOK(c, mbox),
         NEW m \in Content, m = Zero \/ m.from = c
  PROVE  Post(mbox, m) \in Seq(Content) /\ MboxOK(c, Post(mbox, m))
<1>1. /\ Post(mbox, m) \in Seq(Content)
      /\ Len(Post(mbox, m)) <= MboxCap
      /\ \A i \in 1..Len(Post(mbox, m)) :
           \/ Post(mbox, m)[i] = m
           \/ i \in 1..Len(mbox) /\ Post(mbox, m)[i] = mbox[i]
  BY MboxPost DEF MboxOK
<1> QED
  BY <1>1 DEF MboxOK

(* What is fetched is NULL or the client's own text, and the rest is good.  *)
LEMMA ConnTail ==
  ASSUME NEW c \in Conn, NEW mbox \in Seq(Content), MboxOK(c, mbox), mbox # <<>>
  PROVE  /\ Tail(mbox) \in Seq(Content) /\ MboxOK(c, Tail(mbox))
         /\ Head(mbox) \in Content /\ (Head(mbox) = Zero \/ Head(mbox).from = c)
<1>1. /\ Head(mbox) \in Content /\ Tail(mbox) \in Seq(Content)
      /\ Len(Tail(mbox)) = Len(mbox) - 1
      /\ \A i \in 1..Len(Tail(mbox)) : Tail(mbox)[i] = mbox[i + 1]
  BY HeadTailProperties
<1>2. Len(mbox) \in Nat /\ Len(mbox) >= 1 /\ Head(mbox) = mbox[1]
  BY EmptySeq
<1>3. Len(Tail(mbox)) <= MboxCap
  BY <1>1, <1>2, GatewayAssumption DEF MboxOK
<1>4. \A i \in 1..Len(Tail(mbox)) : i + 1 \in 1..Len(mbox)
  BY <1>1, <1>2
<1> QED
  BY <1>1, <1>2, <1>3, <1>4 DEF MboxOK

(* A drained recvmbox is good.                                              *)
LEMMA ConnEmpty ==
  ASSUME NEW c
  PROVE  <<>> \in Seq(Content) /\ MboxOK(c, <<>>) /\ 0 \in 0..SndBuf
<1>1. <<>> \in Seq(Content) /\ Len(<<>>) = 0
  BY EmptySeq
<1> QED
  BY <1>1, GatewayAssumption DEF MboxOK

(* The initial state has its types.                                         *)
LEMMA TypeInit == Init => TypeInv
<1> SUFFICES ASSUME Init PROVE TypeInv
  OBVIOUS
<1>1. NewNetconn \in Netconn /\ NewNetconn.recvmbox = <<>>
  BY ConnEmpty DEF NewNetconn, Netconn
<1>2. ConnOK
  BY <1>1, ConnEmpty DEF Init, ConnOK
<1>3. /\ tcp_server_sendbuf \in [1..Chunks -> Content]
      /\ spi_recvbuf \in Content /\ recvbuf \in Content
  BY ZeroContent DEF Init, Blank
<1>4. /\ 0 \in 0..(Chunks + 1) /\ 0 \in 0..Chunks
      /\ 0 \in 0..MaxScan /\ 0 \in 0..MaxMsg
  BY GatewayAssumption
<1>5. <<>> \in Seq(Conn) /\ <<>> \in Seq([to : Conn, k : 1..Chunks, of : Content, x : Content])
  BY EmptySeq
<1>6. \A c \in Conn : Len(conn[c].recvmbox) <= MboxCap
  BY <1>2 DEF ConnOK, MboxOK
<1>7. TypeOK
  BY <1>2, <1>3, <1>4, <1>5, <1>6 DEF Init, TypeOK, SpiPC, SrvPC, ConnOK
<1>8. ControlInv /\ ConnInv
  BY <1>2 DEF Init, ControlInv, ConnInv, ConnOK
<1> QED
  BY <1>7, <1>8 DEF TypeInv

(* Nothing the stack, the server or the connections own has changed. *)
Frame ==
  /\ UNCHANGED <<srv_pc, newconn, recvbuf, srv_i, write_offset, write_len, called>>
  /\ UNCHANGED <<conn, acceptmbox, nmsg, wire>>

(* The steps of spi_task keep the types.                                    *)
LEMMA TypeSpi ==
  ASSUME TypeInv, SpiTask
  PROVE  TypeInv'
<1>1. Frame
  BY DEF Frame, SpiTask, SpiPoll, SpiCheck, SpiEnter, SpiDecode, SpiPost, buf, srv, write, net
<1>2. ControlInv' /\ ConnInv'
  BY <1>1 DEF Frame, TypeInv, ControlInv, ConnInv, MboxOK
<1>3. /\ srv_pc' \in SrvPC /\ newconn' \in Conn \cup {NoConn} /\ recvbuf' \in Content
      /\ srv_i' \in 0..(Chunks + 1) /\ write_offset' \in 0..Chunks
      /\ write_len' \in 0..Chunks /\ called' \in Content
      /\ conn' \in [Conn -> Netconn]
      /\ \A c \in Conn : Len(conn'[c].recvmbox) <= MboxCap
      /\ acceptmbox' \in Seq(Conn) /\ nmsg' \in 0..MaxMsg
      /\ wire' \in Seq([to : Conn, k : 1..Chunks, of : Content, x : Content])
  BY <1>1 DEF Frame, TypeInv, TypeOK
<1>4. /\ tcp_server_flag' \in BOOLEAN
      /\ tcp_server_sendbuf' \in [1..Chunks -> Content]
      /\ irq' \in {"on", "spi", "srv"}
      /\ spi_pc' \in SpiPC /\ recv_ok' \in BOOLEAN /\ spi_recvbuf' \in Content
      /\ spi_i' \in 0..(Chunks + 1) /\ nscan' \in 0..MaxScan
  <2>1. CASE SpiPoll
    <3>1. nscan < MaxScan =>
            /\ nscan + 1 \in 0..MaxScan
            /\ \A len \in ScanLens : [from |-> 0, id |-> nscan + 1, len |-> len] \in Content
      BY GatewayAssumption DEF TypeInv, TypeOK, Content
    <3> QED
      BY <2>1, <3>1 DEF SpiPoll, TypeInv, TypeOK, SpiPC, buf
  <2>2. CASE SpiCheck
    BY <2>2 DEF SpiCheck, TypeInv, TypeOK, SpiPC, buf
  <2>3. CASE SpiEnter
    <3>1. Blank \in [1..Chunks -> Content] /\ 1 \in 0..(Chunks + 1)
      BY ZeroContent, GatewayAssumption DEF Blank
    <3> QED
      BY <2>3, <3>1 DEF SpiEnter, TypeInv, TypeOK, SpiPC
  <2>4. CASE SpiDecode
    <3>1. spi_recvbuf.len \in 0..Chunks
      BY DEF TypeInv, TypeOK, Content
    <3>2. spi_i' \in 0..(Chunks + 1)
      BY <2>4, <3>1, GatewayAssumption DEF SpiDecode, TypeInv, TypeOK
    <3> QED
      BY <2>4, <3>2 DEF SpiDecode, TypeInv, TypeOK
  <2>5. CASE SpiPost
    <3>1. 0 \in 0..(Chunks + 1)
      BY GatewayAssumption
    <3> QED
      BY <2>5, <3>1 DEF SpiPost, TypeInv, TypeOK, SpiPC
  <2> QED
    BY <2>1, <2>2, <2>3, <2>4, <2>5 DEF SpiTask
<1> QED
  BY <1>2, <1>3, <1>4 DEF TypeInv, TypeOK

(* What a call of do_writemore leaves behind, as far as types go. *)
WriteTyped ==
  /\ wire' \in Seq([to : Conn, k : 1..Chunks, of : Content, x : Content])
  /\ write_offset' \in 0..Chunks /\ write_len' \in 0..Chunks /\ called' \in Content
  /\ srv_pc' # "sending" => write_offset' = 0
  /\ srv_pc' = "sending" => write_offset' < write_len'

LEMMA TypeWrite ==
  ASSUME TypeOK, ConnOK, NEW c \in Conn, NEW of \in Content, NEW len \in 0..Chunks,
         NEW offset \in 0..Chunks, offset < len,
         NEW unack \in 0..SndBuf, DoWriteMore(c, of, len, offset, unack)
  PROVE  ConnOK' /\ WriteTyped /\ srv_pc' \in {"clear", "sending"}
<1>1. PICK n \in 0..(len - offset) :
        /\ unack + n \in 0..SndBuf
        /\ conn' = [conn EXCEPT ![c].unacked = unack + n]
        /\ wire' = wire \o Pieces(c, of, offset, n)
        /\ Continues(of, len, offset, n)
  BY WriteOutcome
<1>2. ConnOK'
  <2>1. conn[c] \in Netconn
    BY DEF ConnOK
  <2>2. [conn[c] EXCEPT !.unacked = unack + n] \in Netconn
    BY <1>1, <2>1 DEF Netconn
  <2>3. [conn[c] EXCEPT !.unacked = unack + n].recvmbox = conn[c].recvmbox
    BY <2>1 DEF Netconn
  <2> QED
    BY <1>1, <2>2, <2>3, ConnUpdate DEF ConnOK
<1>3. wire' \in Seq(Piece)
  <2>1. n \in 0..(Chunks - offset)
    BY GatewayAssumption
  <2> QED
    BY <1>1, <2>1, WireGrows
<1>4. /\ srv_pc' \in {"clear", "sending"}
      /\ write_offset' \in 0..Chunks /\ write_len' \in 0..Chunks /\ called' \in Content
      /\ srv_pc' # "sending" => write_offset' = 0
      /\ srv_pc' = "sending" => write_offset' < write_len'
  <2>1. CASE WriteFinished
    BY <2>1, ZeroContent, GatewayAssumption DEF WriteFinished
  <2>2. CASE /\ offset + n < len
             /\ srv_pc' = "sending" /\ write_offset' = offset + n
             /\ write_len' = len /\ called' = of
    <3>1. offset + n \in 0..Chunks
      BY <2>2, GatewayAssumption
    <3> QED
      BY <2>2, <3>1
  <2> QED
    BY <1>1, <2>1, <2>2 DEF Continues
<1> QED
  BY <1>2, <1>3, <1>4 DEF Piece, WriteTyped

(* netconn_delete keeps the table of connections good.                      *)
LEMMA DeleteConn ==
  ASSUME ConnOK, newconn \in Conn, Delete
  PROVE  ConnOK'
<1> DEFINE r == [conn[newconn] EXCEPT !.phase = "deleted", !.pcb = FALSE,
                                      !.recvmbox = <<>>, !.fin = FALSE, !.unacked = 0]
<1>1. conn[newconn] \in Netconn
  BY DEF ConnOK
<1>2. r \in Netconn /\ r.recvmbox = <<>>
  BY <1>1, ConnEmpty DEF Netconn
<1>3. conn' = [conn EXCEPT ![newconn] = r]
  BY DEF Delete
<1> HIDE DEF r
<1>4. MboxOK(newconn, r.recvmbox)
  BY <1>2, ConnEmpty
<1> QED
  BY <1>2, <1>3, <1>4, ConnUpdate

(* The steps of tcp_server_thread keep the types.                           *)
LEMMA TypeSrv ==
  ASSUME TypeInv, TcpServerThread
  PROVE  TypeInv'
<1> USE DEF buf, spi, net, write
<1>1. /\ spi_pc' \in SpiPC /\ recv_ok' \in BOOLEAN /\ spi_recvbuf' \in Content
      /\ spi_i' \in 0..(Chunks + 1) /\ nscan' \in 0..MaxScan
      /\ nmsg' \in 0..MaxMsg
  <2>1. UNCHANGED <<spi, nmsg>>
    BY DEF TcpServerThread, SrvAccept, SrvLoop, SrvWrite, SrvClear, SrvRecv, SrvTimeout,
           SrvFetch, SrvEnter, SrvCopy, SrvPost, SrvClose
  <2> QED
    BY <2>1 DEF TypeInv, TypeOK
<1>2. ConnOK /\ Len(acceptmbox) \in Nat
  BY DEF TypeInv, TypeOK, ConnInv, ConnOK
<1>3. srv_pc # "accept" =>
        /\ newconn \in Conn /\ conn[newconn] \in Netconn
        /\ conn[newconn].recvmbox \in Seq(Content)
        /\ MboxOK(newconn, conn[newconn].recvmbox)
  <2>1. srv_pc # "accept" => newconn \in Conn /\ conn[newconn] \in Netconn
    BY DEF TypeInv, TypeOK, ControlInv
  <2> QED
    BY <1>2, <2>1 DEF ConnOK, Netconn
<1>w. SrvWrite =>
        \/ srv_pc' = "clear" /\ UNCHANGED <<write, conn, wire>>
        \/ ConnOK' /\ WriteTyped /\ srv_pc' \in {"clear", "sending"}
  <2> SUFFICES ASSUME SrvWrite, NEW len \in 0..Chunks, len # 0,
                      DoWriteMore(newconn, tcp_server_sendbuf[1], len, 0, conn[newconn].unacked)
               PROVE  ConnOK' /\ WriteTyped /\ srv_pc' \in {"clear", "sending"}
    BY DEF SrvWrite
  <2>1. newconn \in Conn /\ conn[newconn].unacked \in 0..SndBuf
    BY <1>3 DEF SrvWrite, Netconn
  <2>2. 0 \in 0..Chunks /\ 0 < len /\ tcp_server_sendbuf[1] \in Content
    BY GatewayAssumption DEF TypeInv, TypeOK
  <2> QED
    BY <1>2, <2>1, <2>2, TypeWrite DEF TypeInv
<1>4. ConnOK'
  <2>1. CASE SrvAccept
    <3>1. newconn' \in Conn /\ conn[newconn'] \in Netconn
      BY <2>1, HeadTailProperties DEF SrvAccept, TypeInv, TypeOK
    <3>2. [conn[newconn'] EXCEPT !.phase = "served"] \in Netconn
      BY <3>1 DEF Netconn
    <3>3. [conn[newconn'] EXCEPT !.phase = "served"].recvmbox = conn[newconn'].recvmbox
      BY <3>1 DEF Netconn
    <3> QED
      BY <1>2, <2>1, <3>1, <3>2, <3>3, ConnUpdate DEF SrvAccept, ConnOK
  <2>2. CASE SrvWrite
    BY <1>2, <1>w, <2>2 DEF ConnOK, MboxOK
  <2>3. CASE SrvFetch
    <3>1. /\ newconn \in Conn /\ conn[newconn] \in Netconn
          /\ Tail(conn[newconn].recvmbox) \in Seq(Content)
          /\ MboxOK(newconn, Tail(conn[newconn].recvmbox))
      BY <1>3, <2>3, ConnTail DEF SrvFetch
    <3> DEFINE r == [conn[newconn] EXCEPT !.recvmbox = Tail(conn[newconn].recvmbox)]
    <3>2. r \in Netconn /\ r.recvmbox = Tail(conn[newconn].recvmbox)
      BY <3>1 DEF Netconn
    <3>3. conn' = [conn EXCEPT ![newconn] = r]
      BY <2>3 DEF SrvFetch
    <3> QED
      BY <1>2, <3>1, <3>2, <3>3, ConnUpdate
  <2>4. CASE SrvClose
    <3>1. newconn \in Conn /\ conn[newconn] \in Netconn
      BY <1>3, <2>4 DEF SrvClose
    <3>2. CASE Delete
      BY <1>2, <3>1, <3>2, DeleteConn
    <3>3. CASE conn' = [conn EXCEPT ![newconn].recvmbox = <<>>]
      <4> DEFINE r == [conn[newconn] EXCEPT !.recvmbox = <<>>]
      <4>1. r \in Netconn /\ r.recvmbox = <<>>
        BY <3>1, ConnEmpty DEF Netconn
      <4>2. conn' = [conn EXCEPT ![newconn] = r]
        BY <3>3
      <4> HIDE DEF r
      <4>3. MboxOK(newconn, r.recvmbox)
        BY <4>1, ConnEmpty
      <4> QED
        BY <1>2, <3>1, <4>1, <4>2, <4>3, ConnUpdate
    <3> QED
      BY <2>4, <3>2, <3>3 DEF SrvClose
  <2>5. CASE UNCHANGED conn
    BY <1>2, <2>5 DEF ConnOK, MboxOK
  <2> QED
    BY <2>1, <2>2, <2>3, <2>4, <2>5 DEF TcpServerThread, SrvLoop, SrvClear, SrvRecv,
       SrvTimeout, SrvEnter, SrvCopy, SrvPost
<1>5. /\ tcp_server_flag' \in BOOLEAN /\ irq' \in {"on", "spi", "srv"}
      /\ tcp_server_sendbuf' \in [1..Chunks -> Content]
  <2>1. Blank \in [1..Chunks -> Content]
    BY ZeroContent DEF Blank
  <2>2. CASE SrvEnter \/ SrvCopy
    BY <2>1, <2>2 DEF SrvEnter, SrvCopy, TypeInv, TypeOK
  <2>3. CASE UNCHANGED tcp_server_sendbuf
             /\ irq' \in {irq, "on"} /\ tcp_server_flag' \in {tcp_server_flag, TRUE, FALSE}
    BY <2>3 DEF TypeInv, TypeOK
  <2> QED
    BY <2>2, <2>3 DEF TcpServerThread, SrvAccept, SrvLoop, SrvWrite, SrvClear, SrvRecv,
       SrvTimeout, SrvFetch, SrvPost, SrvClose
<1>6. acceptmbox' \in Seq(Conn) /\ newconn' \in Conn \cup {NoConn}
  <2>1. CASE SrvAccept
    BY <2>1, HeadTailProperties DEF SrvAccept, TypeInv, TypeOK
  <2>2. CASE UNCHANGED acceptmbox /\ newconn' \in {newconn, NoConn}
    BY <2>2 DEF TypeInv, TypeOK
  <2> QED
    BY <2>1, <2>2 DEF TcpServerThread, SrvLoop, SrvWrite, SrvClear, SrvRecv,
       SrvTimeout, SrvFetch, SrvEnter, SrvCopy, SrvPost, SrvClose, Delete
<1>7. srv_i' \in 0..(Chunks + 1)
  <2>1. 0 \in 0..(Chunks + 1) /\ 1 \in 0..(Chunks + 1)
    BY GatewayAssumption
  <2>2. recvbuf.len \in 0..Chunks
    BY DEF TypeInv, TypeOK, Content
  <2>3. srv_i <= recvbuf.len => srv_i + 1 \in 0..(Chunks + 1)
    BY <2>2, GatewayAssumption DEF TypeInv, TypeOK
  <2>4. srv_i' = srv_i \/ srv_i' = 0 \/ srv_i' = 1
          \/ (srv_i <= recvbuf.len /\ srv_i' = srv_i + 1)
    BY DEF TcpServerThread, SrvAccept, SrvLoop, SrvWrite, SrvClear, SrvRecv, SrvTimeout,
       SrvFetch, SrvEnter, SrvCopy, SrvPost, SrvClose
  <2> QED
    BY <2>1, <2>3, <2>4 DEF TypeInv, TypeOK
<1>8. srv_pc' \in SrvPC /\ WriteTyped
  <2>1. CASE SrvWrite /\ ~UNCHANGED <<write, conn, wire>>
    BY <1>w, <2>1 DEF SrvPC
  <2>2. CASE UNCHANGED <<write, wire>> /\ srv_pc # "sending"
             /\ srv_pc' \in SrvPC \ {"sending"}
    BY <2>2 DEF TypeInv, TypeOK, ControlInv, WriteTyped
  <2> QED
    BY <1>w, <2>1, <2>2 DEF TcpServerThread, SrvAccept, SrvLoop, SrvWrite, SrvClear, SrvRecv,
       SrvTimeout, SrvFetch, SrvEnter, SrvCopy, SrvPost, SrvClose, Delete, SrvPC
<1>9. newconn' = NoConn <=> srv_pc' = "accept"
  <2>1. CASE SrvAccept
    <3>1. newconn' \in Conn
      BY <2>1, HeadTailProperties DEF SrvAccept, TypeInv, TypeOK
    <3> QED
      BY <2>1, <3>1, GatewayAssumption DEF SrvAccept, Conn, NoConn
  <2>2. CASE Delete
    BY <2>2 DEF Delete
  <2>3. CASE UNCHANGED newconn /\ srv_pc # "accept" /\ srv_pc' # "accept"
    BY <2>3 DEF TypeInv, ControlInv
  <2> QED
    BY <2>1, <2>2, <2>3 DEF TcpServerThread, SrvLoop, SrvWrite, SrvClear, SrvRecv,
       SrvTimeout, SrvFetch, SrvEnter, SrvCopy, SrvPost, SrvClose, DoWriteMore, WriteFinished
<1>10. /\ recvbuf' \in Content
       /\ srv_pc' \in {"enter", "copy"} => recvbuf'.from = newconn'
  <2>1. CASE SrvFetch
    <3>1. LET m == Head(conn[newconn].recvmbox)
          IN newconn \in Conn /\ m \in Content /\ (m = Zero \/ m.from = newconn)
      BY <1>3, <2>1, ConnTail DEF SrvFetch
    <3> QED
      BY <2>1, <3>1 DEF SrvFetch, TypeInv, TypeOK
  <2>2. CASE SrvEnter \/ SrvCopy
    BY <2>2 DEF SrvEnter, SrvCopy, TypeInv, TypeOK, ConnInv
  <2>3. CASE recvbuf' \in {recvbuf, Zero} /\ srv_pc' \notin {"enter", "copy"}
    BY <2>3, ZeroContent DEF TypeInv, TypeOK
  <2> QED
    BY <2>1, <2>2, <2>3 DEF TcpServerThread, SrvAccept, SrvLoop, SrvWrite, SrvClear,
       SrvRecv, SrvTimeout, SrvPost, SrvClose, Delete, DoWriteMore, WriteFinished
<1> QED
  BY <1>1, <1>4, <1>5, <1>6, <1>7, <1>8, <1>9, <1>10
     DEF TypeInv, TypeOK, ControlInv, ConnInv, ConnOK, MboxOK, WriteTyped

(* The steps of tcpip_thread that only post to a recvmbox or count.         *)
LEMMA TypeSegment ==
  ASSUME TypeOK, ConnOK, NEW c \in Conn,
         NetConnect(c) \/ NetData(c) \/ NetFin(c)
  PROVE  ConnOK'
<1>1. /\ conn[c] \in Netconn /\ MboxOK(c, conn[c].recvmbox)
      /\ conn[c].recvmbox \in Seq(Content)
  BY DEF ConnOK, Netconn
<1>2. CASE NetConnect(c)
  <2> DEFINE r == [conn[c] EXCEPT !.phase = "queued", !.pcb = TRUE]
  <2>1. r \in Netconn /\ r.recvmbox = conn[c].recvmbox
    BY <1>1 DEF Netconn
  <2>2. conn' = [conn EXCEPT ![c] = r]
    BY <1>2 DEF NetConnect
  <2> HIDE DEF r
  <2> QED
    BY <1>1, <2>1, <2>2, ConnUpdate
<1>3. CASE NetData(c)
  <2>1. PICK len \in {0} \cup TextLens, fin \in BOOLEAN :
          LET text == [from |-> c, id |-> IF len = 0 THEN 0 ELSE nmsg + 1, len |-> len]
              mbox == Post(conn[c].recvmbox, text)
          IN /\ len # 0 => nmsg < MaxMsg
             /\ nmsg' = IF len = 0 THEN nmsg ELSE nmsg + 1
             /\ conn' = [conn EXCEPT ![c] =
                  [@ EXCEPT !.fin = fin, !.recvmbox = IF fin THEN Post(mbox, Zero) ELSE mbox]]
    BY <1>3 DEF NetData
  <2> DEFINE text == [from |-> c, id |-> IF len = 0 THEN 0 ELSE nmsg + 1, len |-> len]
             q == Post(conn[c].recvmbox, text)
             qq == IF fin THEN Post(q, Zero) ELSE q
             r == [conn[c] EXCEPT !.fin = fin, !.recvmbox = qq]
  <2>2. text \in Content /\ text.from = c
    <3>1. c \in 0..MaxConn /\ c # 0 /\ len \in 0..Chunks /\ 0 \in 0..(MaxScan + MaxMsg)
      BY GatewayAssumption DEF Conn
    <3>2. nmsg \in 0..MaxMsg /\ MaxMsg \in Nat /\ MaxScan \in Nat
      BY GatewayAssumption DEF TypeOK
    <3>3. len # 0 => nmsg + 1 \in 0..(MaxScan + MaxMsg)
      BY <2>1, <3>2
    <3> QED
      BY <3>1, <3>3 DEF Content
  <2> HIDE DEF text
  <2>3. q \in Seq(Content) /\ MboxOK(c, q)
    BY <1>1, <2>2, ConnPost
  <2>4. Post(q, Zero) \in Seq(Content) /\ MboxOK(c, Post(q, Zero))
    BY <2>3, ConnPost, ZeroContent
  <2>5. qq \in Seq(Content) /\ MboxOK(c, qq)
    BY <2>3, <2>4
  <2>6. conn' = [conn EXCEPT ![c] = r]
    BY <2>1 DEF text
  <2> HIDE DEF qq
  <2>7. r \in Netconn /\ r.recvmbox = qq
    BY <1>1, <2>5 DEF Netconn
  <2> HIDE DEF r
  <2> QED
    BY <2>5, <2>6, <2>7, ConnUpdate
<1>4. CASE NetFin(c)
  <2> DEFINE q == Post(conn[c].recvmbox, Zero)
             r == [conn[c] EXCEPT !.fin = TRUE, !.recvmbox = q]
  <2>1. q \in Seq(Content) /\ MboxOK(c, q)
    BY <1>1, ConnPost, ZeroContent
  <2>2. r \in Netconn /\ r.recvmbox = q
    BY <1>1, <2>1 DEF Netconn
  <2>3. conn' = [conn EXCEPT ![c] = r]
    BY <1>4 DEF NetFin
  <2> HIDE DEF r, q
  <2> QED
    BY <2>1, <2>2, <2>3, ConnUpdate
<1> QED
  BY <1>2, <1>3, <1>4

(* sent_tcp and poll_tcp, which may carry on a blocked write or close.      *)
LEMMA TypeProgress ==
  ASSUME TypeOK, ConnOK, ControlInv, NEW c \in Conn, NEW unack \in 0..SndBuf,
         Progress(c, unack)
  PROVE  /\ ConnOK' /\ WriteTyped
         /\ newconn' \in Conn \cup {NoConn} /\ (newconn' = NoConn <=> srv_pc' = "accept")
         /\ srv_pc' \in {"accept", "clear", "sending"}
<1>1. newconn = c
  BY DEF Progress, Served
<1>2. CASE /\ srv_pc = "sending" /\ DoWriteMore(c, called, write_len, write_offset, unack)
           /\ UNCHANGED newconn
  <2>1. /\ write_offset \in 0..Chunks /\ write_len \in 0..Chunks /\ called \in Content
        /\ write_offset < write_len
    BY <1>2 DEF TypeOK, ControlInv
  <2>2. newconn' # NoConn
    BY <1>1, <1>2, GatewayAssumption DEF Conn, NoConn
  <2>3. ConnOK' /\ WriteTyped /\ srv_pc' \in {"clear", "sending"}
    BY <1>2, <2>1, TypeWrite
  <2> QED
    BY <1>1, <1>2, <2>2, <2>3
<1>3. CASE srv_pc = "closing" /\ Delete /\ UNCHANGED <<write, wire>>
  <2>1. ConnOK'
    BY <1>1, <1>3, DeleteConn
  <2> QED
    BY <1>3, <2>1 DEF Delete, TypeOK, ControlInv, WriteTyped, write
<1> QED
  BY <1>2, <1>3 DEF Progress

(* The steps of tcpip_thread keep the types.                                *)
LEMMA TypeNet ==
  ASSUME TypeInv, TcpipThread
  PROVE  TypeInv'
<1> USE DEF buf, spi, srv, write
<1>1. PICK c \in Conn :
        \/ NetConnect(c) \/ NetData(c) \/ NetFin(c) \/ NetPoll(c)
        \/ NetAck(c) \/ NetReset(c) \/ NetAbort(c)
  BY DEF TcpipThread
<1>2. /\ TypeOK /\ ControlInv /\ ConnOK /\ conn[c] \in Netconn
      /\ conn[c].recvmbox \in Seq(Content)
      /\ MboxOK(c, conn[c].recvmbox) /\ conn[c].unacked \in 0..SndBuf
  BY DEF TypeInv, TypeOK, ConnInv, ConnOK, Netconn
<1>3. UNCHANGED <<tcp_server_flag, tcp_server_sendbuf, irq, spi_pc, recv_ok, spi_recvbuf,
                  spi_i, nscan, recvbuf, srv_i>>
  BY <1>1 DEF NetConnect, NetData, NetFin, NetPoll, NetAck, NetReset, NetAbort, NetError
<1>4. acceptmbox' \in Seq(Conn) /\ nmsg' \in 0..MaxMsg
  <2>1. UNCHANGED acceptmbox \/ acceptmbox' = Append(acceptmbox, c)
    BY <1>1 DEF NetConnect, NetData, NetFin, NetPoll, NetAck, NetReset, NetAbort, NetError
  <2>2. nmsg' = nmsg \/ (nmsg < MaxMsg /\ nmsg' = nmsg + 1)
    BY <1>1 DEF NetConnect, NetData, NetFin, NetPoll, NetAck, NetReset, NetAbort, NetError
  <2>3. Append(acceptmbox, c) \in Seq(Conn)
    BY <1>2, AppendProperties DEF TypeOK
  <2>4. acceptmbox' \in Seq(Conn)
    BY <1>2, <2>1, <2>3 DEF TypeOK
  <2>5. nmsg \in 0..MaxMsg /\ MaxMsg \in Nat
    BY <1>2, GatewayAssumption DEF TypeOK
  <2>6. nmsg' \in 0..MaxMsg
    BY <2>2, <2>5
  <2> QED
    BY <2>4, <2>6
<1>5. /\ ConnOK' /\ WriteTyped
      /\ newconn' \in Conn \cup {NoConn} /\ (newconn' = NoConn <=> srv_pc' = "accept")
      /\ srv_pc' \in {srv_pc, "accept", "clear", "sending"}
      /\ srv_pc' \notin {"accept", "clear", "sending"} => newconn' = newconn
  <2>1. CASE NetConnect(c) \/ NetData(c) \/ NetFin(c)
    <3>1. ConnOK'
      BY <1>2, <2>1, TypeSegment
    <3>2. UNCHANGED <<srv, wire>>
      BY <2>1 DEF NetConnect, NetData, NetFin
    <3> QED
      BY <1>2, <3>1, <3>2 DEF TypeOK, ControlInv, WriteTyped
  <2>2. CASE \E u \in 0..SndBuf : Progress(c, u)
    <3> QED
      BY <1>2, <2>2, TypeProgress
  <2>3. CASE NetAck(c) /\ ~\E u \in 0..SndBuf : Progress(c, u)
    <3>1. PICK n \in 1..conn[c].unacked :
            \/ Progress(c, conn[c].unacked - n)
            \/ /\ conn' = [conn EXCEPT ![c].unacked = @ - n]
               /\ UNCHANGED <<newconn, srv_pc, write, wire>>
      BY <2>3 DEF NetAck
    <3>2. conn[c].unacked - n \in 0..SndBuf
      <4>1. SndBuf \in Nat
        BY GatewayAssumption
      <4>2. \A u \in 0..SndBuf : \A k \in 1..u : u - k \in 0..SndBuf
        BY <4>1
      <4> QED
        BY <1>2, <4>2
    <3> DEFINE r == [conn[c] EXCEPT !.unacked = conn[c].unacked - n]
    <3>3. conn' = [conn EXCEPT ![c] = r] /\ UNCHANGED <<newconn, srv_pc, write, wire>>
      BY <2>3, <3>1, <3>2
    <3>4. r \in Netconn /\ r.recvmbox = conn[c].recvmbox
      BY <1>2, <3>2 DEF Netconn
    <3> HIDE DEF r
    <3>5. ConnOK'
      BY <1>2, <3>3, <3>4, ConnUpdate
    <3> QED
      BY <1>2, <3>3, <3>5 DEF TypeOK, ControlInv, WriteTyped
  <2>4. CASE NetPoll(c)
    BY <1>2, <2>4, <2>2 DEF NetPoll
  <2>5. CASE NetReset(c) \/ NetAbort(c)
    <3>1. PICK err \in {"RST", "ABRT"} : NetError(c, err)
      BY <2>5 DEF NetReset, NetAbort
    <3>2. CASE Served(c) /\ srv_pc = "closing"
      <4>1. Delete /\ UNCHANGED <<write, wire>> /\ newconn = c
        BY <3>1, <3>2 DEF NetError, Served
      <4>2. ConnOK'
        BY <1>2, <4>1, DeleteConn
      <4> QED
        BY <1>2, <3>2, <4>1, <4>2 DEF Delete, TypeOK, ControlInv, WriteTyped
    <3>3. CASE ~(Served(c) /\ srv_pc = "closing")
      <4> DEFINE q == Post(conn[c].recvmbox, Zero)
                 r == [conn[c] EXCEPT !.pcb = FALSE, !.last_err = err,
                                      !.unacked = 0, !.recvmbox = q]
      <4>1. q \in Seq(Content) /\ MboxOK(c, q)
        BY <1>2, ConnPost, ZeroContent
      <4>2. conn' = [conn EXCEPT ![c] = r]
        BY <3>1, <3>3 DEF NetError
      <4> HIDE DEF q
      <4>3. r \in Netconn /\ r.recvmbox = q
        BY <1>2, <4>1, ConnEmpty DEF Netconn
      <4> HIDE DEF r
      <4>4. ConnOK'
        BY <1>2, <4>1, <4>2, <4>3, ConnUpdate
      <4>5. /\ UNCHANGED <<newconn, wire>>
            /\ \/ srv_pc = "sending" /\ WriteFinished
               \/ UNCHANGED <<srv_pc, write>>
        BY <3>1, <3>3 DEF NetError
      <4>6. 0 \in 0..Chunks
        BY GatewayAssumption
      <4> QED
        BY <1>2, <4>4, <4>5, <4>6, ZeroContent DEF TypeOK, ControlInv, WriteTyped, WriteFinished
    <3> QED
      BY <3>2, <3>3
  <2> QED
    BY <1>1, <2>1, <2>2, <2>3, <2>4, <2>5
<1>6. TypeOK'
  BY <1>2, <1>3, <1>4, <1>5 DEF TypeOK, ConnOK, MboxOK, SrvPC, WriteTyped
<1>7. ControlInv'
  BY <1>5 DEF ControlInv, WriteTyped
<1>8. ConnInv'
  BY <1>3, <1>5 DEF TypeInv, ConnInv, ConnOK, MboxOK
<1> QED
  BY <1>6, <1>7, <1>8 DEF TypeInv

(* Every step keeps the types.                                              *)
LEMMA TypeStep ==
  ASSUME TypeInv, [Next]_vars
  PROVE  TypeInv'
<1>1. CASE Next
  BY <1>1, TypeSpi, TypeSrv, TypeNet DEF Next
<1>2. CASE UNCHANGED vars
  BY <1>2 DEF vars, buf, spi, srv, write, net, TypeInv, TypeOK, ControlInv, ConnInv, MboxOK
<1> QED
  BY <1>1, <1>2

(* In every behaviour of the three tasks each variable keeps to its range:  *)
(* in particular no recvmbox, send buffer or write offset overruns.         *)
THEOREM TypeCorrect == Spec => []TypeOK
<1>1. TypeInv => TypeOK
  BY DEF TypeInv
<1>2. Spec => []TypeInv
  BY TypeInit, TypeStep, PTL DEF Spec
<1> QED
  BY <1>1, <1>2, PTL

-----------------------------------------------------------------------------
(* The inductive invariant.                                                 *)

SafeInv == LockInv /\ SpiInv /\ SrvInv /\ CalledInv /\ WireInv /\ EchoInv /\ OrderInv

(* The content that the write under way was called for.                     *)
Of == IF srv_pc = "sending" THEN called ELSE tcp_server_sendbuf[1]

(* A step of do_writemore that takes n pieces of the posted content.        *)
Sends(n) ==
  /\ irq = "on" /\ srv_pc \in {"write", "sending"} /\ newconn \in Conn
  /\ tcp_server_flag /\ tcp_server_sendbuf[1] # Zero
  /\ Of \in Content /\ Of # Zero /\ write_offset < Of.len /\ write_offset + n <= Of.len
  /\ Len(wire') = Len(wire) + n
  /\ \A i \in 1..Len(wire) : wire'[i] = wire[i]
  /\ \A i \in 1..n : wire'[Len(wire) + i] =
       [to |-> newconn, k |-> write_offset + i, of |-> Of,
        x |-> tcp_server_sendbuf[write_offset + i]]
  /\ UNCHANGED <<buf, spi, newconn, recvbuf, srv_i>>
  /\ Continues(Of, Of.len, write_offset, n)

(* A step of the server, or of the stack on its behalf, that touches        *)
(* neither the buffer nor the wire and does not leave a write half done.    *)
Quiet ==
  /\ irq = "on" /\ UNCHANGED <<buf, spi, wire>>
  /\ srv_pc \notin {"copy", "clear"} /\ srv_pc' \notin {"copy", "sending"}
  /\ srv_pc' = "write" => tcp_server_flag
  /\ srv_pc' = "clear" => srv_pc \in {"write", "sending"}
  /\ srv_pc = "sending" => srv_pc' = "clear"
  /\ srv_pc \in {"loop", "write", "sending"} /\ tcp_server_flag =>
       srv_pc' \in {"write", "clear"} /\ UNCHANGED newconn

(* What Shape says of a piece, and of strlen.                               *)
LEMMA ShapePiece ==
  ASSUME TypeOK, Shape, NEW k \in 1..Chunks
  PROVE  /\ tcp_server_sendbuf[1] \in Content
         /\ tcp_server_sendbuf[k] \in {tcp_server_sendbuf[1], Zero}
         /\ k <= tcp_server_sendbuf[1].len => tcp_server_sendbuf[k] = tcp_server_sendbuf[1]
         /\ k > tcp_server_sendbuf[1].len => tcp_server_sendbuf[k] = Zero
<1>1. 1 \in 1..Chunks /\ tcp_server_sendbuf[1] \in Content
  BY GatewayAssumption DEF TypeOK
<1>2. tcp_server_sendbuf[1].len \in 0..Chunks
  BY <1>1 DEF Content
<1>3. tcp_server_sendbuf[k] =
        IF k <= tcp_server_sendbuf[1].len THEN tcp_server_sendbuf[1] ELSE Zero
  BY DEF Shape
<1> QED
  BY <1>1, <1>2, <1>3, GatewayAssumption

LEMMA ShapeLength ==
  ASSUME TypeOK, Shape, NEW n \in 1..Chunks, StrlenIs(n)
  PROVE  tcp_server_sendbuf[1] # Zero /\ n = tcp_server_sendbuf[1].len
<1> DEFINE len == tcp_server_sendbuf[1].len
<1>1. /\ Chunks \in Nat \ {0} /\ 1 \in 1..n /\ 1 \in 1..Chunks /\ n \in 1..n
      /\ n < Chunks => n + 1 \in 1..Chunks
  BY GatewayAssumption
<1>2. len \in 0..Chunks
  BY <1>1 DEF TypeOK, Content
<1>3. tcp_server_sendbuf[1] # Zero /\ tcp_server_sendbuf[n] # Zero
  BY <1>1 DEF StrlenIs
<1>4. n <= len
  BY <1>1, <1>2, <1>3, ShapePiece
<1>5. ~(n < len)
  <2> SUFFICES ASSUME n < len PROVE FALSE
    OBVIOUS
  <2>1. n < Chunks /\ n + 1 <= len
    BY <1>1, <1>2
  <2>2. tcp_server_sendbuf[n + 1] = tcp_server_sendbuf[1]
    BY <1>1, <2>1, ShapePiece
  <2> QED
    BY <1>3, <2>1, <2>2 DEF StrlenIs
<1> QED
  BY <1>1, <1>2, <1>3, <1>4, <1>5

(* A do_writemore appends the next pieces of the buffer, for the served client.*)
LEMMA WriteSends ==
  ASSUME TypeInv, SafeInv, newconn \in Conn, irq = "on", NEW unack \in 0..SndBuf,
         srv_pc \in {"write", "sending"}, tcp_server_sendbuf[1] # Zero,
         Of \in Content, Of # Zero, write_offset < Of.len,
         DoWriteMore(newconn, Of, Of.len, write_offset, unack),
         UNCHANGED <<buf, spi, newconn, recvbuf, srv_i>>
  PROVE  \E n \in 0..Chunks : Sends(n)
<1>1. /\ TypeOK /\ write_offset \in 0..Chunks /\ Of.len \in 0..Chunks /\ Len(wire) \in Nat
  BY ContentTyped DEF TypeInv, TypeOK
<1>2. PICK n \in 0..(Of.len - write_offset) :
        /\ wire' = wire \o Pieces(newconn, Of, write_offset, n)
        /\ Continues(Of, Of.len, write_offset, n)
  BY <1>1, WriteOutcome
<1>3. n \in 0..Chunks /\ n \in 0..(Chunks - write_offset) /\ write_offset + n <= Of.len
  BY <1>1, GatewayAssumption
<1>4. /\ Len(wire') = Len(wire) + n
      /\ \A i \in 1..Len(wire) : wire'[i] = wire[i]
      /\ \A i \in 1..n : wire'[Len(wire) + i] =
           [to |-> newconn, k |-> write_offset + i, of |-> Of,
            x |-> tcp_server_sendbuf[write_offset + i]]
  BY <1>1, <1>2, <1>3, WireGrows
<1>5. tcp_server_flag
  BY DEF SafeInv, SrvInv
<1>6. Sends(n)
  BY <1>2, <1>3, <1>4, <1>5 DEF Sends
<1> QED
  BY <1>3, <1>6

(* So does the first one of a netconn_write, unless it sends nothing.       *)
LEMMA SrvWriteSends ==
  ASSUME TypeInv, SafeInv, SrvWrite
  PROVE  \/ Quiet /\ srv_pc # "sending"
         \/ \E n \in 0..Chunks : Sends(n)
<1>1. irq = "on" /\ srv_pc = "write" /\ UNCHANGED <<buf, spi, newconn, recvbuf, srv_i>>
  BY DEF SrvWrite, SrvMayRun, SafeInv, LockInv
<1>2. newconn \in Conn /\ write_offset = 0
  BY <1>1 DEF TypeInv, TypeOK, ControlInv
<1>3. conn[newconn].unacked \in 0..SndBuf
  BY <1>2 DEF TypeInv, TypeOK, Netconn
<1>4. ASSUME NEW len \in 0..Chunks, len # 0, StrlenIs(len),
             DoWriteMore(newconn, tcp_server_sendbuf[1], len, 0, conn[newconn].unacked)
      PROVE  \E n \in 0..Chunks : Sends(n)
  <2>1. len \in 1..Chunks /\ 1 \in 1..Chunks
    BY <1>4, GatewayAssumption
  <2>2. /\ tcp_server_sendbuf[1] # Zero /\ len = tcp_server_sendbuf[1].len
        /\ tcp_server_sendbuf[1] \in Content
    BY <1>1, <1>4, <2>1, ShapeLength, ShapePiece DEF TypeInv, SafeInv, SrvInv
  <2>3. Of = tcp_server_sendbuf[1]
    BY <1>1 DEF Of
  <2>4. /\ Of \in Content /\ Of # Zero /\ write_offset < Of.len
        /\ DoWriteMore(newconn, Of, Of.len, write_offset, conn[newconn].unacked)
    BY <1>2, <1>4, <2>1, <2>2, <2>3
  <2> QED
    BY <1>1, <1>2, <1>3, <2>2, <2>4, WriteSends
<1>5. CASE srv_pc' = "clear" /\ UNCHANGED <<write, conn, wire>>
  BY <1>1, <1>5 DEF Quiet
<1> QED
  BY <1>4, <1>5 DEF SrvWrite

(* So do the later ones, in sent_tcp and poll_tcp.                          *)
LEMMA ProgressSends ==
  ASSUME TypeInv, SafeInv, NEW c \in Conn, NEW unack \in 0..SndBuf, Progress(c, unack),
         irq = "on", UNCHANGED <<buf, spi, recvbuf, srv_i>>
  PROVE  \/ Quiet /\ srv_pc # "sending"
         \/ \E n \in 0..Chunks : Sends(n)
<1>1. CASE srv_pc = "closing"
  BY <1>1 DEF Progress, Quiet, Delete
<1>2. CASE srv_pc = "sending"
  <2>1. /\ newconn = c /\ DoWriteMore(c, called, write_len, write_offset, unack)
        /\ UNCHANGED newconn
        /\ tcp_server_sendbuf[1] # Zero
    BY <1>2 DEF Progress, Served, SafeInv, SrvInv
  <2>2. /\ Of = called /\ called \in Content /\ called # Zero /\ write_len = called.len
        /\ write_offset < write_len
    BY <1>2 DEF Of, SafeInv, CalledInv, TypeInv, TypeOK, ControlInv
  <2> QED
    BY <1>2, <2>1, <2>2, WriteSends
<1> QED
  BY <1>1, <1>2 DEF Progress

(* The next piece of the buffer, for the parts of the invariant.            *)
LEMMA NextPiece ==
  ASSUME TypeInv, SafeInv, NEW n \in 0..Chunks, Sends(n), NEW j \in 1..n
  PROVE  /\ write_offset + j \in 1..Chunks
         /\ tcp_server_sendbuf[write_offset + j] \in {tcp_server_sendbuf[1], Zero}
         /\ IsScan(Of) => tcp_server_sendbuf[write_offset + j] = Of
         /\ tcp_server_sendbuf[1].from # 0 =>
              tcp_server_sendbuf[write_offset + j] = tcp_server_sendbuf[1]
<1>1. TypeOK /\ Shape /\ write_offset \in 0..Chunks /\ Of.len \in 0..Chunks
  <2>1. TypeOK /\ Shape /\ Of \in Content
    BY DEF Sends, SafeInv, SrvInv, TypeInv
  <2>2. Of.len \in 0..Chunks
    BY <2>1, ContentTyped
  <2> QED
    BY <2>1, <2>2 DEF TypeOK
<1>2. write_offset + j \in 1..Chunks /\ write_offset + j <= Of.len
  BY <1>1, GatewayAssumption DEF Sends
<1>3. /\ IsScan(Of) => Of = tcp_server_sendbuf[1]
      /\ tcp_server_sendbuf[1].from # 0 => Of = tcp_server_sendbuf[1]
  BY DEF Of, Sends, SafeInv, CalledInv, IsScan
<1> QED
  BY <1>1, <1>2, <1>3, ShapePiece

(* Appending the next pieces of the buffer keeps SafeInv.                   *)
LEMMA SafeSend ==
  ASSUME TypeInv, SafeInv, NEW n \in 0..Chunks, Sends(n)
  PROVE  SafeInv'
<1> USE DEF buf, spi
<1>1. /\ UNCHANGED <<tcp_server_flag, tcp_server_sendbuf, irq, nscan, spi_recvbuf, recv_ok,
                     spi_pc, spi_i, newconn, recvbuf, srv_i>>
      /\ srv_pc \in {"write", "sending"} /\ tcp_server_flag /\ irq = "on"
      /\ tcp_server_sendbuf[1] # Zero
      /\ Continues(Of, Of.len, write_offset, n)
  BY DEF Sends
<1>2. srv_pc' \in {"clear", "sending"}
  BY <1>1 DEF Continues, WriteFinished
<1>3. LockInv' /\ EchoInv'
  BY <1>1, <1>2 DEF SafeInv, LockInv, EchoInv
<1>4. SpiInv'
  BY <1>1 DEF SafeInv, SpiInv, Holding, LockInv, IsScan
<1>5. SrvInv'
  BY <1>1, <1>2 DEF SafeInv, SrvInv, Shape
<1>6. /\ Len(wire) \in Nat /\ write_offset \in 0..Chunks /\ Chunks \in Nat /\ Chunks # 0
      /\ Of.len \in 0..Chunks /\ n \in Nat
  BY GatewayAssumption DEF TypeInv, TypeOK, Sends, Content
<1>7. srv_pc' = "sending" =>
        write_offset' = write_offset + n /\ called' = Of /\ write_len' = Of.len
  BY <1>1 DEF Continues, WriteFinished
<1>8. CalledInv'
  <2> SUFFICES ASSUME srv_pc' = "sending" PROVE CalledInv'
    BY DEF CalledInv
  <2>1. Of # Zero /\ spi_pc # "decode"
    BY <1>1 DEF Sends, SafeInv, LockInv
  <2>2. CASE srv_pc = "sending"
    BY <1>1, <1>7, <2>1, <2>2 DEF SafeInv, CalledInv, Of
  <2>3. CASE srv_pc = "write"
    BY <1>1, <1>7, <2>1, <2>3 DEF SafeInv, CalledInv, EchoInv, Of
  <2> QED
    BY <1>1, <2>2, <2>3
<1>9. WireInv'
  <2> SUFFICES ASSUME srv_pc' = "sending", write_offset' > 0
               PROVE  /\ wire' # <<>>
                      /\ wire'[Len(wire')].to = newconn
                      /\ wire'[Len(wire')].x.from = 0 =>
                           /\ spi_pc # "decode" /\ tcp_server_sendbuf[1].from = 0
                           /\ wire'[Len(wire')].x = tcp_server_sendbuf[write_offset']
    BY <1>1 DEF WireInv
  <2>1. spi_pc # "decode" /\ write_offset' = write_offset + n
    BY <1>1, <1>7 DEF SafeInv, LockInv
  <2>2. CASE n = 0
    <3>1. srv_pc = "sending" /\ write_offset > 0 /\ write_offset' = write_offset
      BY <1>1, <1>6, <2>1, <2>2 DEF TypeInv, ControlInv
    <3>2. wire # <<>> /\ Len(wire) >= 1
      BY <1>6, <3>1, EmptySeq DEF SafeInv, WireInv, TypeInv, TypeOK
    <3>3. Len(wire') = Len(wire) /\ wire'[Len(wire')] = wire[Len(wire)]
      BY <1>6, <2>2, <3>2 DEF Sends
    <3> QED
      BY <1>6, <2>1, <3>1, <3>2, <3>3 DEF SafeInv, WireInv
  <2>3. CASE n # 0
    <3>1. Len(wire') = Len(wire) + n /\ n \in 1..n
      BY <1>6, <2>3 DEF Sends
    <3>2. wire'[Len(wire')] = [to |-> newconn, k |-> write_offset + n, of |-> Of,
                               x |-> tcp_server_sendbuf[write_offset + n]]
      BY <3>1 DEF Sends
    <3>3. wire' # <<>>
      BY <1>6, <2>3, <3>1
    <3>4. tcp_server_sendbuf[1].from # 0 =>
            tcp_server_sendbuf[write_offset + n] = tcp_server_sendbuf[1]
      BY <3>1, NextPiece
    <3> QED
      BY <2>1, <3>2, <3>3, <3>4
  <2> QED
    BY <2>2, <2>3
<1>10. OrderInv'
  <2>1. (\A i \in 1..Len(wire) : SentBefore(wire[i]))'
    <3> SUFFICES ASSUME NEW i \in 1..Len(wire')
                 PROVE  SentBefore(wire[i])'
      OBVIOUS
    <3>1. CASE i <= Len(wire)
      <4>0. i \in 1..Len(wire) /\ wire \in Seq(Piece)
        BY <1>6, <3>1 DEF TypeInv, TypeOK, Piece
      <4>1. wire'[i] = wire[i] /\ wire[i] \in Piece /\ SentBefore(wire[i])
        BY <4>0 DEF Sends, SafeInv, OrderInv
      <4>2. wire[i].k \in Nat
        BY <4>1, <1>6 DEF Piece
      <4>3. srv_pc # "clear" /\ (srv_pc' = "clear" \/ write_offset' = write_offset + n)
        BY <1>1, <1>2, <1>7
      <4>4. wire[i].k <= write_offset => wire[i].k <= write_offset + n
        BY <1>6, <4>2
      <4> QED
        BY <1>1, <4>1, <4>3, <4>4 DEF SentBefore, IsScan, Holding
    <3>2. CASE i > Len(wire)
      <4> DEFINE j == i - Len(wire)
      <4>1. j \in 1..n /\ Len(wire) + j = i
        BY <1>6, <3>2 DEF Sends
      <4>2. wire'[i] = [to |-> newconn, k |-> write_offset + j, of |-> Of,
                        x |-> tcp_server_sendbuf[write_offset + j]]
        BY <4>1 DEF Sends
      <4> HIDE DEF j
      <4>3. write_offset + j <= write_offset + n
        BY <1>6, <4>1
      <4>4. /\ wire'[i].x = tcp_server_sendbuf[1] \/ wire'[i].x = Zero
            /\ wire'[i].k = write_offset + j
        BY <4>1, <4>2, NextPiece
      <4>5. srv_pc' = "clear" \/ write_offset' = write_offset + n
        BY <1>2, <1>7
      <4>6. /\ IsScan(tcp_server_sendbuf[1]) =>
                 /\ tcp_server_sendbuf[1].id \in 1..nscan
                 /\ Holding => tcp_server_sendbuf[1].id < spi_recvbuf.id
        BY <1>1 DEF SafeInv, OrderInv
      <4>7. nscan \in Nat
        BY GatewayAssumption DEF TypeInv, TypeOK
      <4>8. IsScan(tcp_server_sendbuf[1]) => tcp_server_sendbuf[1].id <= nscan
        BY <4>6, <4>7
      <4>9. ~IsScan(Zero)
        BY DEF IsScan
      <4> QED
        BY <1>1, <4>3, <4>4, <4>5, <4>6, <4>8, <4>9 DEF SentBefore, IsScan, Holding
    <3> QED
      BY <1>6, <3>1, <3>2 DEF Sends
  <2> QED
    BY <1>1, <2>1 DEF SafeInv, OrderInv, Holding, IsScan
<1> QED
  BY <1>3, <1>4, <1>5, <1>8, <1>9, <1>10 DEF SafeInv

(* Steps that leave the wire alone may still disturb SentBefore.            *)
LEMMA WireTyped ==
  ASSUME TypeInv
  PROVE  /\ Len(wire) \in Nat
         /\ \A i \in 1..Len(wire) : wire[i] \in Piece /\ wire[i].x.id \in Nat
<1>1. wire \in Seq(Piece) /\ Len(wire) \in Nat
  BY DEF TypeInv, TypeOK, Piece
<1>2. \A i \in 1..Len(wire) : wire[i] \in Piece
  BY <1>1
<1>3. \A e \in Piece : e.x.id \in Nat
  BY GatewayAssumption DEF Piece, Content
<1> QED
  BY <1>1, <1>2, <1>3

(* The steps of spi_task keep SafeInv.                                      *)
LEMMA SafeSpi ==
  ASSUME TypeInv, SafeInv, SpiTask
  PROVE  SafeInv'
<1> USE DEF buf, srv, write, net
<1>1. /\ Chunks \in Nat /\ Chunks >= 1 /\ MaxScan \in Nat /\ MaxMsg \in Nat
      /\ tcp_server_sendbuf \in [1..Chunks -> Content] /\ spi_recvbuf \in Content
      /\ spi_i \in 0..(Chunks + 1) /\ nscan \in 0..MaxScan
      /\ spi_recvbuf.len \in 0..Chunks
  BY GatewayAssumption, ContentTyped DEF TypeInv, TypeOK
<1>2. UNCHANGED <<srv_pc, newconn, recvbuf, srv_i, write_offset, write_len, called, wire>>
  BY DEF SpiTask, SpiPoll, SpiCheck, SpiEnter, SpiDecode, SpiPost
<1>3. CASE SpiPoll
  <2>1. /\ UNCHANGED <<tcp_server_flag, tcp_server_sendbuf, irq, spi_i>>
        /\ spi_pc = "poll" /\ spi_pc' = "check"
        /\ \/ UNCHANGED <<recv_ok, spi_recvbuf, nscan>>
           \/ /\ nscan' = nscan + 1 /\ recv_ok' = TRUE
              /\ \E len \in 1..Chunks :
                   spi_recvbuf' = [from |-> 0, id |-> nscan + 1, len |-> len]
    BY <1>3, GatewayAssumption DEF SpiPoll
  <2>2. LockInv'
    BY <1>2, <2>1 DEF SafeInv, LockInv
  <2>3. SpiInv'
    BY <1>1, <2>1 DEF SafeInv, SpiInv, Holding, IsScan, Zero
  <2>4. SrvInv' /\ CalledInv' /\ WireInv' /\ EchoInv'
    BY <1>2, <2>1 DEF SafeInv, SrvInv, CalledInv, WireInv, EchoInv, Shape
  <2>5. OrderInv'
    <3>1. (\A i \in 1..Len(wire) : SentBefore(wire[i]))'
      BY <1>1, <1>2, <2>1, WireTyped DEF SafeInv, OrderInv, SentBefore, Holding, IsScan
    <3>2. Holding' => spi_recvbuf'.id \in 1..nscan'
      <4>1. CASE UNCHANGED <<recv_ok, spi_recvbuf, nscan>>
        BY <2>1, <4>1 DEF SafeInv, OrderInv, Holding
      <4>2. CASE nscan' = nscan + 1 /\ spi_recvbuf'.id = nscan + 1
        BY <1>1, <4>2
      <4> QED
        BY <2>1, <4>1, <4>2
    <3>3. tcp_server_flag' /\ irq' = "on" /\ IsScan(tcp_server_sendbuf'[1]) =>
            /\ tcp_server_sendbuf[1].id \in 1..nscan
            /\ Holding => tcp_server_sendbuf[1].id < spi_recvbuf.id
      BY <2>1 DEF SafeInv, OrderInv, IsScan
    <3>4. tcp_server_sendbuf[1].id \in 1..nscan =>
            /\ tcp_server_sendbuf[1].id \in 1..nscan'
            /\ nscan' = nscan + 1 => tcp_server_sendbuf[1].id < nscan + 1
      BY <1>1, <2>1
    <3> QED
      BY <2>1, <3>1, <3>2, <3>3, <3>4 DEF OrderInv, Holding, IsScan
  <2> QED
    BY <2>2, <2>3, <2>4, <2>5 DEF SafeInv
<1>4. CASE SpiCheck
  <2>1. /\ UNCHANGED <<tcp_server_flag, tcp_server_sendbuf, irq, spi_i, spi_recvbuf, nscan>>
        /\ spi_pc = "check"
        /\ \/ recv_ok /\ ~tcp_server_flag /\ recv_ok' = FALSE /\ spi_pc' = "enter"
           \/ spi_pc' = "poll" /\ UNCHANGED recv_ok
    BY <1>4 DEF SpiCheck
  <2>2. LockInv' /\ SpiInv' /\ SrvInv' /\ CalledInv' /\ WireInv' /\ EchoInv'
    BY <1>2, <2>1 DEF SafeInv, LockInv, SpiInv, SrvInv, CalledInv, WireInv, EchoInv, Shape,
       Holding, IsScan
  <2>3. OrderInv'
    BY <1>2, <2>1 DEF SafeInv, OrderInv, SentBefore, Holding, IsScan
  <2> QED
    BY <2>2, <2>3 DEF SafeInv
<1>5. CASE SpiEnter
  <2>1. /\ UNCHANGED <<tcp_server_flag, recv_ok, spi_recvbuf, nscan>>
        /\ spi_pc = "enter" /\ irq = "on" /\ irq' = "spi" /\ spi_pc' = "decode"
        /\ spi_i' = 1 /\ tcp_server_sendbuf' = Blank /\ SrvPended
    BY <1>5 DEF SpiEnter, SpiMayRun
  <2>2. LockInv'
    BY <1>2, <2>1 DEF SafeInv, LockInv, SrvPended
  <2>3. SpiInv'
    BY <1>1, <2>1 DEF SafeInv, SpiInv, Holding, IsScan, Blank
  <2>4. SrvInv' /\ EchoInv'
    BY <1>2, <2>1 DEF SafeInv, SrvInv, EchoInv, LockInv, SrvPended
  <2>5. CalledInv' /\ WireInv'
    <3>1. srv_pc = "sending" =>
            tcp_server_sendbuf[1].from # 0 /\ tcp_server_sendbuf[1] = called
      BY <2>1 DEF SafeInv, SpiInv, SrvInv, CalledInv, IsScan
    <3>2. tcp_server_sendbuf'[1].from = 0
      BY <1>1, <2>1 DEF Blank, Zero
    <3> QED
      BY <1>2, <2>1, <3>1, <3>2 DEF SafeInv, CalledInv, WireInv
  <2>6. OrderInv'
    BY <1>2, <2>1 DEF SafeInv, OrderInv, SentBefore, Holding, IsScan
  <2> QED
    BY <2>2, <2>3, <2>4, <2>5, <2>6 DEF SafeInv
<1>6. CASE SpiDecode
  <2>1. /\ UNCHANGED <<tcp_server_flag, recv_ok, spi_recvbuf, nscan, irq, spi_pc>>
        /\ spi_pc = "decode" /\ irq = "spi" /\ spi_i <= spi_recvbuf.len /\ spi_i' = spi_i + 1
        /\ tcp_server_sendbuf' = [tcp_server_sendbuf EXCEPT ![spi_i] = spi_recvbuf]
    BY <1>6 DEF SpiDecode, SafeInv, LockInv
  <2>2. LockInv'
    BY <1>2, <2>1 DEF SafeInv, LockInv
  <2>3. SpiInv'
    BY <1>1, <2>1 DEF SafeInv, SpiInv, Holding, IsScan
  <2>4. SrvInv' /\ EchoInv'
    BY <1>2, <2>1 DEF SafeInv, SrvInv, EchoInv, LockInv
  <2>5. CalledInv' /\ WireInv'
    <3>1. tcp_server_sendbuf'[1].from = 0
      BY <1>1, <2>1, <2>3 DEF SpiInv, Holding, IsScan, Zero
    <3> QED
      BY <1>2, <2>1, <3>1 DEF SafeInv, CalledInv, WireInv
  <2>6. OrderInv'
    BY <1>2, <2>1 DEF SafeInv, OrderInv, SentBefore, Holding, IsScan
  <2> QED
    BY <2>2, <2>3, <2>4, <2>5, <2>6 DEF SafeInv
<1>7. CASE SpiPost
  <2>1. /\ UNCHANGED <<tcp_server_sendbuf, recv_ok, spi_recvbuf, nscan>>
        /\ spi_pc = "decode" /\ irq = "spi" /\ spi_i > spi_recvbuf.len /\ spi_pc' = "poll"
        /\ irq' = "on" /\ tcp_server_flag' = TRUE
    BY <1>7 DEF SpiPost, SafeInv, LockInv
  <2>2. /\ ~recv_ok /\ Holding /\ IsScan(spi_recvbuf) /\ ~Holding'
        /\ spi_recvbuf.len >= 1 /\ spi_i = spi_recvbuf.len + 1
        /\ \A k \in 1..Chunks :
             tcp_server_sendbuf[k] = IF k < spi_i THEN spi_recvbuf ELSE Zero
    BY <1>1, <2>1 DEF SafeInv, SpiInv, Holding
  <2>3. LockInv'
    BY <1>2, <2>1 DEF SafeInv, LockInv
  <2>4. SpiInv'
    BY <1>1, <2>1, <2>2 DEF SpiInv
  <2>5. 1 \in 1..Chunks /\ tcp_server_sendbuf[1] = spi_recvbuf
    BY <1>1, <2>2
  <2>s. Shape'
    <3>1. \A k \in 1..Chunks : k < spi_i <=> k <= spi_recvbuf.len
      BY <1>1, <2>2
    <3> QED
      BY <2>1, <2>2, <2>5, <3>1 DEF Shape
  <2>6. SrvInv' /\ EchoInv'
    BY <1>2, <2>1, <2>2, <2>3, <2>5, <2>s DEF SafeInv, SrvInv, EchoInv, LockInv, IsScan
  <2>7. CalledInv' /\ WireInv'
    BY <1>2, <2>1, <2>2, <2>5 DEF SafeInv, CalledInv, WireInv, IsScan
  <2>8. OrderInv'
    BY <1>2, <2>1, <2>2, <2>5 DEF SafeInv, OrderInv, SentBefore, IsScan
  <2> QED
    BY <2>3, <2>4, <2>6, <2>7, <2>8 DEF SafeInv
<1> QED
  BY <1>3, <1>4, <1>5, <1>6, <1>7 DEF SpiTask

(* SafeInv reads the buffer, the wire and the control state, nothing else.  *)
LEMMA SafeFrame ==
  ASSUME SafeInv,
         UNCHANGED <<buf, spi, srv_pc, newconn, recvbuf, srv_i, write, wire>>
  PROVE  SafeInv'
BY DEF buf, spi, write, SafeInv, LockInv, SpiInv, SrvInv, CalledInv, WireInv, EchoInv, OrderInv,
   Shape, Holding, SentBefore, IsScan

(* A step of the server or the stack that sends and posts nothing keeps SafeInv.*)
LEMMA SafeQuiet ==
  ASSUME TypeInv, TypeInv', SafeInv, Quiet
  PROVE  SafeInv'
<1>1. /\ UNCHANGED <<tcp_server_flag, tcp_server_sendbuf, irq, spi_pc, recv_ok, spi_recvbuf,
                     spi_i, nscan, wire>>
      /\ irq = "on" /\ srv_pc # "clear" /\ srv_pc # "copy"
      /\ srv_pc' # "copy" /\ srv_pc' # "sending"
  BY DEF Quiet, buf, spi
<1>2. write_offset' = 0 /\ (srv_pc' # "clear" => write_offset = 0)
  BY DEF Quiet, TypeInv, ControlInv
<1>3. LockInv' /\ SpiInv' /\ CalledInv' /\ WireInv'
  BY <1>1 DEF SafeInv, LockInv, SpiInv, CalledInv, WireInv, Holding, IsScan
<1>4. SrvInv'
  BY <1>1, <1>2 DEF Quiet, SafeInv, SrvInv, Shape
<1>5. EchoInv'
  BY <1>1 DEF Quiet, SafeInv, EchoInv
<1>6. OrderInv'
  BY <1>1, <1>2 DEF SafeInv, OrderInv, SentBefore, Holding, IsScan
<1> QED
  BY <1>3, <1>4, <1>5, <1>6 DEF SafeInv

(* The steps of tcp_server_thread keep SafeInv.                             *)
LEMMA SafeSrv ==
  ASSUME TypeInv, SafeInv, TcpServerThread
  PROVE  SafeInv'
<1> USE DEF spi, net, write
<1>1. /\ Chunks \in Nat /\ Chunks >= 1 /\ 1 \in 1..Chunks
      /\ tcp_server_sendbuf \in [1..Chunks -> Content] /\ recvbuf \in Content
      /\ srv_i \in 0..(Chunks + 1) /\ recvbuf.len \in 0..Chunks /\ TypeInv'
  <2>1. TypeOK /\ TypeInv'
    BY TypeSrv DEF TypeInv
  <2>2. recvbuf \in Content /\ recvbuf.len \in 0..Chunks
    BY <2>1, ContentTyped DEF TypeOK
  <2> QED
    BY <2>1, <2>2, GatewayAssumption DEF TypeOK
<1>2. CASE Quiet
  BY <1>1, <1>2, SafeQuiet
<1>3. CASE SrvWrite
  BY <1>2, <1>3, SrvWriteSends, SafeSend
<1>4. CASE SrvClear
  <2>1. /\ UNCHANGED <<tcp_server_sendbuf, irq, spi, newconn, recvbuf, srv_i, write,
                       wire>>
        /\ srv_pc = "clear" /\ srv_pc' = "recv" /\ tcp_server_flag' = FALSE
    BY <1>4 DEF SrvClear
  <2> QED
    BY <2>1 DEF SafeInv, LockInv, SpiInv, SrvInv, CalledInv, WireInv, EchoInv, OrderInv, Shape,
       Holding, SentBefore, IsScan
<1>5. CASE SrvEnter
  <2>1. /\ UNCHANGED <<tcp_server_flag, spi, newconn, recvbuf, write, wire>>
        /\ srv_pc = "enter" /\ irq = "on" /\ irq' = "srv" /\ srv_pc' = "copy"
        /\ srv_i' = 1 /\ tcp_server_sendbuf' = Blank
    BY <1>5 DEF SrvEnter
  <2>2. SpiInv'
    BY <1>1, <2>1 DEF SafeInv, SpiInv, LockInv, Holding, IsScan, Blank
  <2>3. SrvInv'
    BY <1>1, <2>1 DEF SafeInv, SrvInv, Blank
  <2>4. LockInv' /\ CalledInv' /\ WireInv' /\ EchoInv' /\ OrderInv'
    BY <2>1 DEF SafeInv, LockInv, CalledInv, WireInv, EchoInv, OrderInv, Holding, SentBefore, IsScan
  <2> QED
    BY <2>2, <2>3, <2>4 DEF SafeInv
<1>6. CASE SrvCopy
  <2>1. /\ UNCHANGED <<tcp_server_flag, irq, spi, srv_pc, newconn, recvbuf, write, wire>>
        /\ srv_pc = "copy" /\ irq = "srv" /\ srv_i <= recvbuf.len /\ srv_i' = srv_i + 1
        /\ tcp_server_sendbuf' = [tcp_server_sendbuf EXCEPT ![srv_i] = recvbuf]
    BY <1>6 DEF SrvCopy, SafeInv, LockInv
  <2>2. recvbuf.from # 0
    BY <2>1, GatewayAssumption DEF TypeInv, TypeOK, ConnInv, ControlInv, Conn, NoConn
  <2>3. SrvInv'
    BY <1>1, <2>1 DEF SafeInv, SrvInv
  <2>4. SpiInv'
    BY <1>1, <2>1, <2>2 DEF SafeInv, SpiInv, LockInv, Holding, IsScan
  <2>5. LockInv' /\ CalledInv' /\ WireInv' /\ EchoInv' /\ OrderInv'
    BY <2>1 DEF SafeInv, LockInv, CalledInv, WireInv, EchoInv, OrderInv, Holding, SentBefore, IsScan
  <2> QED
    BY <2>3, <2>4, <2>5 DEF SafeInv
<1>7. CASE SrvPost
  <2>1. /\ UNCHANGED <<tcp_server_sendbuf, spi, newconn, write, wire>>
        /\ srv_pc = "copy" /\ irq = "srv" /\ srv_i > recvbuf.len /\ irq' = "on"
        /\ tcp_server_flag' = TRUE /\ srv_pc' = "loop"
    BY <1>7 DEF SrvPost, SafeInv, LockInv
  <2>2. recvbuf.from # 0 /\ recvbuf.from = newconn
    BY <2>1, GatewayAssumption DEF TypeInv, TypeOK, ConnInv, ControlInv, Conn, NoConn
  <2>3. \A k \in 1..Chunks :
          tcp_server_sendbuf[k] = IF k <= recvbuf.len THEN recvbuf ELSE Zero
    <3>1. /\ srv_i = recvbuf.len + 1
          /\ \A k \in 1..Chunks :
               tcp_server_sendbuf[k] = IF k < srv_i THEN recvbuf ELSE Zero
      BY <1>1, <2>1 DEF SafeInv, SrvInv
    <3>2. \A k \in 1..Chunks : k < srv_i <=> k <= recvbuf.len
      BY <1>1, <3>1
    <3> QED
      BY <3>1, <3>2
  <2>4. ~IsScan(tcp_server_sendbuf[1])
    BY <1>1, <2>2, <2>3 DEF IsScan
  <2>5. LockInv' /\ CalledInv' /\ WireInv'
    BY <2>1 DEF SafeInv, LockInv, CalledInv, WireInv
  <2>s. Shape'
    <3>1. tcp_server_sendbuf[1].len = recvbuf.len
      BY <1>1, <2>3 DEF Zero
    <3> QED
      BY <1>1, <2>1, <2>3, <3>1 DEF Shape
  <2>6. SrvInv'
    BY <2>1, <2>s DEF SrvInv
  <2>7. SpiInv' /\ EchoInv'
    BY <1>1, <2>1, <2>2, <2>3, <2>4 DEF SafeInv, SpiInv, EchoInv, LockInv, Holding, IsScan, Zero
  <2>8. OrderInv'
    BY <2>1, <2>4 DEF SafeInv, OrderInv, Holding, SentBefore, IsScan
  <2> QED
    BY <2>5, <2>6, <2>7, <2>8 DEF SafeInv
<1>8. CASE SrvAccept \/ SrvLoop \/ SrvRecv \/ SrvTimeout \/ SrvFetch \/ SrvClose
  <2>1. irq = "on" /\ UNCHANGED <<buf, spi, wire>>
    BY <1>8 DEF SrvAccept, SrvLoop, SrvRecv, SrvTimeout, SrvFetch, SrvClose, SrvMayRun,
       NetMayRun, SafeInv, LockInv
  <2>2. Quiet
    BY <1>8, <2>1 DEF Quiet, SrvAccept, SrvLoop, SrvRecv, SrvTimeout, SrvFetch, SrvClose,
       Delete
  <2> QED
    BY <1>2, <2>2
<1> QED
  BY <1>2, <1>3, <1>4, <1>5, <1>6, <1>7, <1>8 DEF TcpServerThread

(* The steps of tcpip_thread keep SafeInv.                                  *)
LEMMA SafeNet ==
  ASSUME TypeInv, SafeInv, TcpipThread
  PROVE  SafeInv'
<1> USE DEF srv, write
<1>1. PICK c \in Conn :
        \/ NetConnect(c) \/ NetData(c) \/ NetFin(c) \/ NetPoll(c)
        \/ NetAck(c) \/ NetReset(c) \/ NetAbort(c)
  BY DEF TcpipThread
<1>2. irq = "on" /\ UNCHANGED <<buf, spi, recvbuf, srv_i>> /\ TypeInv'
  BY <1>1, TypeNet DEF NetMayRun, NetConnect, NetData, NetFin, NetPoll, NetAck, NetReset,
     NetAbort, NetError
<1>3. CASE UNCHANGED <<srv_pc, newconn, write, wire>>
  BY <1>2, <1>3, SafeFrame
<1>4. CASE Quiet
  BY <1>2, <1>4, SafeQuiet
<1>5. CASE \E u \in 0..SndBuf : Progress(c, u)
  <2>1. PICK u \in 0..SndBuf : Progress(c, u)
    BY <1>5
  <2> QED
    BY <1>2, <1>4, <2>1, ProgressSends, SafeSend
<1>6. CASE NetPoll(c) \/ NetAck(c)
  <2>1. conn[c].unacked \in 0..SndBuf /\ SndBuf \in Nat
    BY GatewayAssumption DEF TypeInv, TypeOK, Netconn
  <2>2. \A u \in 0..SndBuf : \A k \in 1..u : u - k \in 0..SndBuf
    BY <2>1
  <2> QED
    BY <1>3, <1>5, <1>6, <2>1, <2>2 DEF NetPoll, NetAck
<1>7. CASE NetReset(c) \/ NetAbort(c)
  <2>1. PICK err \in {"RST", "ABRT"} : NetError(c, err)
    BY <1>7 DEF NetReset, NetAbort
  <2>2. \/ Quiet
        \/ UNCHANGED <<srv_pc, newconn, write, wire>>
    BY <1>2, <2>1 DEF NetError, Quiet, Delete, WriteFinished
  <2> QED
    BY <1>3, <1>4, <2>2
<1>8. CASE NetConnect(c) \/ NetData(c) \/ NetFin(c)
  BY <1>3, <1>8 DEF NetConnect, NetData, NetFin
<1> QED
  BY <1>1, <1>6, <1>7, <1>8

(* The initial state satisfies SafeInv.                                     *)
LEMMA SafeInit == Init => SafeInv
<1> SUFFICES ASSUME Init PROVE SafeInv
  OBVIOUS
<1>1. Len(wire) = 0 /\ \A k \in 1..Chunks : tcp_server_sendbuf[k] = Zero
  BY DEF Init, Blank
<1>2. 1 \in 1..Chunks
  BY GatewayAssumption
<1> QED
  BY <1>1, <1>2 DEF Init, SafeInv, LockInv, SpiInv, SrvInv, CalledInv, WireInv, EchoInv, OrderInv,
     Shape, Holding, IsScan, Zero

(* Every step keeps SafeInv.                                                *)
LEMMA SafeStep ==
  ASSUME TypeInv, SafeInv, [Next]_vars
  PROVE  SafeInv'
<1>1. CASE Next
  BY <1>1, SafeSpi, SafeSrv, SafeNet DEF Next
<1>2. CASE UNCHANGED vars
  BY <1>2, SafeFrame DEF vars, srv
<1> QED
  BY <1>1, <1>2

(* Both parts of the inductive invariant hold in every reachable state.     *)
LEMMA InvAlways == Spec => [](TypeInv /\ SafeInv)
<1>1. Init => TypeInv /\ SafeInv
  BY TypeInit, SafeInit
<1>2. TypeInv /\ SafeInv /\ [Next]_vars => (TypeInv /\ SafeInv)'
  BY TypeStep, SafeStep
<1> QED
  BY <1>1, <1>2, PTL DEF Spec

-----------------------------------------------------------------------------
(* Only do_writemore adds to the wire, and a write ends early by an error.  *)

(* A connection that broke stays broken.                                    *)
Broken(d) == conn'[d].last_err # "OK"

LEMMA FatalLasts ==
  ASSUME TypeInv, [Next]_vars, NEW d \in Conn, Fatal(d)
  PROVE  Broken(d)
<1> USE DEF Netconn
<1>1. conn \in [Conn -> Netconn] /\ (srv_pc # "accept" => newconn \in Conn)
  BY DEF TypeInv, TypeOK, ControlInv
<1>2. CASE UNCHANGED conn
  BY <1>2 DEF Fatal, Broken
<1>3. CASE \E c \in Conn, u \in 0..SndBuf : conn' = [conn EXCEPT ![c].unacked = u]
  BY <1>1, <1>3 DEF Fatal, Broken
<1>4. CASE newconn \in Conn /\ Delete
  BY <1>1, <1>4 DEF Fatal, Broken, Delete
<1>5. ASSUME NEW c \in Conn, NEW of, NEW len, NEW offset, NEW unack,
             DoWriteMore(c, of, len, offset, unack)
      PROVE  Broken(d)
  BY <1>1, <1>5 DEF Fatal, Broken, DoWriteMore
<1>6. ASSUME NEW c \in Conn, NEW unack, Progress(c, unack)
      PROVE  Broken(d)
  BY <1>4, <1>5, <1>6 DEF Progress, Served
<1>7. CASE TcpServerThread
  <2>1. CASE SrvAccept
    BY <1>1, <2>1 DEF SrvAccept, Fatal, Broken
  <2>2. CASE SrvWrite
    BY <1>1, <1>2, <1>5, <2>2 DEF SrvWrite
  <2>3. CASE SrvFetch
    BY <1>1, <2>3 DEF SrvFetch, Fatal, Broken
  <2>4. CASE SrvClose
    BY <1>1, <1>4, <2>4 DEF SrvClose, Fatal, Broken
  <2> QED
    BY <1>2, <1>7, <2>1, <2>2, <2>3, <2>4 DEF TcpServerThread, SrvLoop, SrvClear, SrvRecv,
       SrvTimeout, SrvEnter, SrvCopy, SrvPost, net
<1>8. CASE TcpipThread
  <2>1. PICK c \in Conn :
          \/ NetConnect(c) \/ NetData(c) \/ NetFin(c) \/ NetPoll(c)
          \/ NetAck(c) \/ NetReset(c) \/ NetAbort(c)
    BY <1>8 DEF TcpipThread
  <2>2. CASE NetConnect(c) \/ NetData(c) \/ NetFin(c)
    <3>1. CASE NetConnect(c)
      BY <1>1, <3>1 DEF NetConnect, Fatal, Broken
    <3>2. CASE NetFin(c)
      BY <1>1, <3>2 DEF NetFin, Fatal, Broken
    <3>3. CASE NetData(c)
      <4>1. PICK fin, mbox : conn' = [conn EXCEPT ![c] = [@ EXCEPT !.fin = fin, !.recvmbox = mbox]]
        BY <3>3, Zenon DEF NetData
      <4> QED
        BY <1>1, <4>1 DEF Fatal, Broken
    <3> QED
      BY <2>2, <3>1, <3>2, <3>3
  <2>3. CASE NetPoll(c)
    BY <1>6, <2>3 DEF NetPoll
  <2>4. CASE NetAck(c)
    BY <1>1, <1>6, <2>4 DEF NetAck, Fatal, Broken
  <2>5. CASE NetReset(c) \/ NetAbort(c)
    <3>1. PICK err \in {"RST", "ABRT"} : NetError(c, err)
      BY <2>5 DEF NetReset, NetAbort
    <3> QED
      BY <1>1, <1>4, <3>1 DEF NetError, Fatal, Broken, Served
  <2> QED
    BY <2>1, <2>2, <2>3, <2>4, <2>5
<1>9. CASE SpiTask \/ UNCHANGED vars
  BY <1>2, <1>9 DEF SpiTask, SpiPoll, SpiCheck, SpiEnter, SpiDecode, SpiPost, vars, net
<1> QED
  BY <1>7, <1>8, <1>9 DEF Next

(* A step leaves the wire and the write under way alone, or breaks the      *)
(* connection, or appends pieces of the buffer.                             *)
LEMMA WireSteps ==
  ASSUME TypeInv, SafeInv, [Next]_vars
  PROVE  \/ /\ UNCHANGED wire
            /\ srv_pc = "sending" =>
                 \/ UNCHANGED <<srv_pc, newconn, write>>
                 \/ Broken(newconn)
         \/ \E n \in 0..Chunks : Sends(n)
<1>1. CASE SpiTask \/ UNCHANGED vars
  BY <1>1 DEF SpiTask, SpiPoll, SpiCheck, SpiEnter, SpiDecode, SpiPost, vars, srv
<1>2. CASE TcpServerThread
  <2>1. CASE SrvWrite
    BY <2>1, SrvWriteSends DEF Quiet
  <2>2. CASE ~SrvWrite
    BY <1>2, <2>2 DEF TcpServerThread, SrvAccept, SrvLoop, SrvClear, SrvRecv, SrvTimeout,
       SrvFetch, SrvEnter, SrvCopy, SrvPost, SrvClose
  <2> QED
    BY <2>1, <2>2
<1>3. CASE TcpipThread
  <2>1. PICK c \in Conn :
          \/ NetConnect(c) \/ NetData(c) \/ NetFin(c) \/ NetPoll(c)
          \/ NetAck(c) \/ NetReset(c) \/ NetAbort(c)
    BY <1>3 DEF TcpipThread
  <2>2. irq = "on" /\ UNCHANGED <<buf, spi, recvbuf, srv_i>>
    BY <2>1 DEF NetMayRun, NetConnect, NetData, NetFin, NetPoll, NetAck, NetReset,
       NetAbort, NetError, srv
  <2>3. CASE \E u \in 0..SndBuf : Progress(c, u)
    BY <2>2, <2>3, ProgressSends DEF Quiet
  <2>4. CASE NetPoll(c) \/ NetAck(c)
    <3>1. conn[c].unacked \in 0..SndBuf /\ SndBuf \in Nat
      BY GatewayAssumption DEF TypeInv, TypeOK, Netconn
    <3>2. \A u \in 0..SndBuf : \A k \in 1..u : u - k \in 0..SndBuf
      BY <3>1
    <3> QED
      BY <2>3, <2>4, <3>1, <3>2 DEF NetPoll, NetAck
  <2>5. CASE NetConnect(c) \/ NetData(c) \/ NetFin(c)
    BY <2>5 DEF NetConnect, NetData, NetFin, srv
  <2>6. CASE NetReset(c) \/ NetAbort(c)
    <3>1. PICK err \in {"RST", "ABRT"} : NetError(c, err)
      BY <2>6 DEF NetReset, NetAbort
    <3>2. conn \in [Conn -> Netconn] /\ (srv_pc = "sending" => newconn \in Conn)
      BY DEF TypeInv, TypeOK, ControlInv
    <3>3. CASE srv_pc = "sending" /\ Served(c)
      BY <3>1, <3>2, <3>3 DEF NetError, Served, Broken, Netconn
    <3>4. CASE srv_pc = "sending" /\ ~Served(c)
      BY <3>1, <3>4 DEF NetError
    <3>5. CASE srv_pc # "sending"
      BY <3>1, <3>5 DEF NetError
    <3> QED
      BY <3>3, <3>4, <3>5
  <2> QED
    BY <2>1, <2>4, <2>5, <2>6
<1> QED
  BY <1>1, <1>2, <1>3 DEF Next

(* A piece that a step adds to the wire.                                    *)
Fresh(i) ==
  /\ i > Len(wire)
  /\ irq = "on" /\ tcp_server_flag /\ tcp_server_sendbuf[1] # Zero
  /\ srv_pc \in {"write", "sending"}
  /\ wire'[i].to = newconn /\ wire'[i].of = Of /\ Of # Zero
  /\ wire'[i].k = write_offset + (i - Len(wire)) /\ wire'[i].k \in 1..Chunks
  /\ wire'[i].x = tcp_server_sendbuf[wire'[i].k]
  /\ wire'[i].x \in {tcp_server_sendbuf[1], Zero}
  /\ IsScan(Of) => wire'[i].x = Of

(* A piece that do_writemore appends is fresh.                              *)
LEMMA SendFresh ==
  ASSUME TypeInv, SafeInv, NEW n \in 0..Chunks, Sends(n), NEW j \in 1..n
  PROVE  /\ Fresh(Len(wire) + j)
         /\ wire'[Len(wire) + j] =
              [to |-> newconn, k |-> write_offset + j, of |-> Of,
               x |-> tcp_server_sendbuf[write_offset + j]]
<1>1. Len(wire) \in Nat /\ j \in Nat /\ j >= 1
  BY GatewayAssumption DEF TypeInv, TypeOK
<1>2. PICK i : i = Len(wire) + j
  OBVIOUS
<1>3. i > Len(wire) /\ i - Len(wire) = j
  BY <1>1, <1>2
<1>4. wire'[i] = [to |-> newconn, k |-> write_offset + j, of |-> Of,
                  x |-> tcp_server_sendbuf[write_offset + j]]
  BY <1>2 DEF Sends
<1>5. /\ write_offset + j \in 1..Chunks
      /\ tcp_server_sendbuf[write_offset + j] \in {tcp_server_sendbuf[1], Zero}
      /\ IsScan(Of) => tcp_server_sendbuf[write_offset + j] = Of
  BY NextPiece
<1>6. /\ irq = "on" /\ tcp_server_flag /\ tcp_server_sendbuf[1] # Zero
      /\ srv_pc \in {"write", "sending"} /\ Of # Zero
  BY DEF Sends
<1>7. Fresh(i)
  BY <1>3, <1>4, <1>5, <1>6 DEF Fresh
<1> QED
  BY <1>2, <1>4, <1>7

(* An element of the longer wire is an old one or a piece of the buffer.    *)
LEMMA OldOrFresh ==
  ASSUME TypeInv, SafeInv, [Next]_vars
  PROVE  /\ wire' \in Seq(Piece) /\ Len(wire) \in Nat /\ Len(wire') \in Nat
         /\ \A i \in 1..Len(wire') :
              (i \in 1..Len(wire) /\ wire'[i] = wire[i]) \/ Fresh(i)
<1>1. Len(wire) \in Nat /\ Len(wire') \in Nat /\ wire' \in Seq(Piece) /\ Chunks \in Nat
  BY TypeStep, GatewayAssumption DEF TypeInv, TypeOK, Piece
<1>2. CASE UNCHANGED wire
  BY <1>1, <1>2
<1>3. ASSUME NEW n \in 0..Chunks, Sends(n), NEW i \in 1..Len(wire')
      PROVE  (i \in 1..Len(wire) /\ wire'[i] = wire[i]) \/ Fresh(i)
  <2>1. CASE i <= Len(wire)
    BY <1>1, <1>3, <2>1 DEF Sends
  <2>2. CASE i > Len(wire)
    <3> DEFINE j == i - Len(wire)
    <3>1. j \in 1..n /\ Len(wire) + j = i
      BY <1>1, <1>3, <2>2 DEF Sends
    <3> HIDE DEF j
    <3>2. Fresh(Len(wire) + j)
      BY <1>3, <3>1, SendFresh
    <3> QED
      BY <3>1, <3>2
  <2> QED
    BY <1>1, <2>1, <2>2
<1> QED
  BY <1>1, <1>2, <1>3, WireSteps

(* The indices of the wire.                                                 *)
LEMMA WireDomain ==
  ASSUME TypeInv
  PROVE  DOMAIN wire = 1..Len(wire)
BY LenProperties DEF TypeInv, TypeOK

-----------------------------------------------------------------------------
(* CompleteInv.                                                             *)

(* What CompleteInv says of one piece.                                      *)
Followed(i) ==
  IsScan(wire[i].of) /\ wire[i].k < wire[i].of.len =>
    \/ i < Len(wire) /\ wire[i + 1] = [wire[i] EXCEPT !.k = @ + 1]
    \/ /\ i = Len(wire) /\ srv_pc = "sending" /\ newconn = wire[i].to
       /\ write_offset = wire[i].k /\ called = wire[i].of /\ wire[i].x = called
    \/ Fatal(wire[i].to)

(* A write goes on where it left off, so the next piece follows the last.   *)
LEMMA FollowedOld ==
  ASSUME TypeInv, SafeInv, NEW n \in 0..Chunks, Sends(n), [Next]_vars,
         NEW i \in 1..Len(wire), Followed(i)
  PROVE  Followed(i)'
<1>1. /\ Len(wire) \in Nat /\ wire[i] \in Piece /\ wire'[i] = wire[i] /\ n \in Nat
      /\ Len(wire') = Len(wire) + n /\ write_offset \in Nat /\ newconn' = newconn
  BY WireTyped, GatewayAssumption DEF Sends, TypeInv, TypeOK
<1> SUFFICES ASSUME IsScan(wire[i].of), wire[i].k < wire[i].of.len
             PROVE  \/ i < Len(wire') /\ wire'[i + 1] = [wire'[i] EXCEPT !.k = @ + 1]
                    \/ /\ i = Len(wire') /\ srv_pc' = "sending" /\ newconn' = wire'[i].to
                       /\ write_offset' = wire'[i].k /\ called' = wire'[i].of
                       /\ wire'[i].x = called'
                    \/ Broken(wire[i].to)
  BY <1>1 DEF Followed, IsScan, Fatal, Broken
<1>2. CASE i < Len(wire) /\ wire[i + 1] = [wire[i] EXCEPT !.k = @ + 1]
  <2>1. i + 1 \in 1..Len(wire) /\ i < Len(wire')
    BY <1>1, <1>2
  <2>2. wire'[i + 1] = wire[i + 1]
    BY <2>1 DEF Sends
  <2> QED
    BY <1>1, <1>2, <2>1, <2>2
<1>3. CASE /\ i = Len(wire) /\ srv_pc = "sending" /\ newconn = wire[i].to
           /\ write_offset = wire[i].k /\ called = wire[i].of /\ wire[i].x = called
  <2>1. Of = called
    BY <1>3 DEF Of
  <2>2. CASE n = 0
    <3>1. write_offset + n = write_offset /\ write_offset < Of.len /\ Len(wire') = Len(wire)
      BY <1>1, <2>2 DEF Sends
    <3>2. Of.len \in 0..Chunks /\ Chunks \in Nat
      BY ContentTyped, GatewayAssumption DEF Sends
    <3>3. srv_pc' = "sending" /\ write_offset' = write_offset /\ called' = Of
      BY <1>1, <3>1, <3>2 DEF Sends, Continues
    <3> QED
      BY <1>1, <1>3, <2>1, <3>1, <3>3
  <2>3. CASE n # 0
    <3>1. 1 \in 1..n /\ i < Len(wire') /\ i + 1 = Len(wire) + 1
      BY <1>1, <1>3, <2>3
    <3>2. /\ wire'[i + 1] = [to |-> newconn, k |-> write_offset + 1, of |-> Of,
                             x |-> tcp_server_sendbuf[write_offset + 1]]
          /\ tcp_server_sendbuf[write_offset + 1] = Of
      BY <1>3, <2>1, <3>1, SendFresh, NextPiece
    <3>3. wire[i] = [to |-> newconn, k |-> write_offset, of |-> Of, x |-> Of]
      BY <1>1, <1>3, <2>1 DEF Piece
    <3> QED
      BY <1>1, <3>1, <3>2, <3>3
  <2> QED
    BY <2>2, <2>3
<1>4. CASE Fatal(wire[i].to)
  BY <1>1, <1>4, FatalLasts DEF Piece
<1> QED
  BY <1>2, <1>3, <1>4 DEF Followed

(* A new piece of a scan is followed by the next one of the same step, or   *)
(* it is the last one, with the write still going on behind it.             *)
LEMMA FollowedNew ==
  ASSUME TypeInv, SafeInv, NEW n \in 0..Chunks, Sends(n), NEW j \in 1..n,
         NEW i, i = Len(wire) + j
  PROVE  Followed(i)'
<1>1. i = Len(wire) + j
  OBVIOUS
<1>2. /\ Len(wire) \in Nat /\ write_offset \in Nat /\ n \in Nat /\ Len(wire') = Len(wire) + n
      /\ newconn' = newconn /\ Of.len \in 0..Chunks /\ Chunks \in Nat
  BY GatewayAssumption, ContentTyped DEF Sends, TypeInv, TypeOK
<1>3. /\ wire'[i] = [to |-> newconn, k |-> write_offset + j, of |-> Of,
                     x |-> tcp_server_sendbuf[write_offset + j]]
      /\ IsScan(Of) => tcp_server_sendbuf[write_offset + j] = Of
  BY <1>1, SendFresh, NextPiece
<1> SUFFICES ASSUME IsScan(Of), write_offset + j < Of.len
             PROVE  \/ i < Len(wire') /\ wire'[i + 1] = [wire'[i] EXCEPT !.k = @ + 1]
                    \/ /\ i = Len(wire') /\ srv_pc' = "sending" /\ newconn' = wire'[i].to
                       /\ write_offset' = wire'[i].k /\ called' = wire'[i].of
                       /\ wire'[i].x = called'
  BY <1>1, <1>3 DEF Followed, IsScan
<1>4. CASE j < n
  <2>1. j + 1 \in 1..n /\ i < Len(wire') /\ Len(wire) + (j + 1) = i + 1
    BY <1>1, <1>2, <1>4
  <2>2. /\ wire'[Len(wire) + (j + 1)] =
             [to |-> newconn, k |-> write_offset + (j + 1), of |-> Of,
              x |-> tcp_server_sendbuf[write_offset + (j + 1)]]
        /\ tcp_server_sendbuf[write_offset + (j + 1)] = Of
    BY <2>1, SendFresh, NextPiece
  <2>3. write_offset + (j + 1) = (write_offset + j) + 1
    BY <1>2
  <2>4. wire'[i + 1] = [to |-> newconn, k |-> (write_offset + j) + 1, of |-> Of, x |-> Of]
    BY <2>1, <2>2, <2>3
  <2>5. wire'[i] = [to |-> newconn, k |-> write_offset + j, of |-> Of, x |-> Of]
    BY <1>3
  <2>6. wire'[i + 1] = [wire'[i] EXCEPT !.k = @ + 1]
    BY <2>4, <2>5
  <2> QED
    BY <2>1, <2>6
<1>5. CASE ~(j < n)
  <2>1. j = n /\ i = Len(wire')
    BY <1>1, <1>2, <1>5
  <2>2. srv_pc' = "sending" /\ write_offset' = write_offset + n /\ called' = Of
    BY <1>2, <2>1 DEF Sends, Continues
  <2> QED
    BY <1>2, <1>3, <2>1, <2>2
<1> QED
  BY <1>4, <1>5

(* Every step keeps CompleteInv.                                            *)
LEMMA CompleteStep ==
  ASSUME TypeInv, SafeInv, CompleteInv, [Next]_vars
  PROVE  CompleteInv'
<1>1. \A i \in 1..Len(wire) : Followed(i)
  BY DEF CompleteInv, Followed
<1>2. Len(wire) \in Nat /\ Len(wire') \in Nat
  BY OldOrFresh
<1>3. CASE /\ UNCHANGED wire
           /\ srv_pc = "sending" =>
                UNCHANGED <<srv_pc, newconn, write>> \/ Broken(newconn)
  <2> SUFFICES ASSUME NEW i \in 1..Len(wire) PROVE Followed(i)'
    BY <1>3 DEF CompleteInv, Followed
  <2>1. wire[i].to \in Conn /\ Followed(i) /\ wire' = wire
    BY <1>1, <1>3, WireTyped DEF Piece
  <2>2. Fatal(wire[i].to) => Broken(wire[i].to)
    BY <2>1, FatalLasts
  <2>3. srv_pc = "sending" /\ newconn = wire[i].to =>
          UNCHANGED <<srv_pc, newconn, write_offset, called>> \/ Broken(wire[i].to)
    BY <1>3 DEF write
  <2> QED
    BY <2>1, <2>2, <2>3 DEF Followed, IsScan, Fatal, Broken
<1>4. ASSUME NEW n \in 0..Chunks, Sends(n)
      PROVE  CompleteInv'
  <2> SUFFICES ASSUME NEW i \in 1..Len(wire') PROVE Followed(i)'
    BY DEF CompleteInv, Followed
  <2>1. CASE i <= Len(wire)
    BY <1>1, <1>2, <1>4, <2>1, FollowedOld
  <2>2. CASE i > Len(wire)
    <3>1. PICK j \in 1..n : i = Len(wire) + j
      <4>1. i - Len(wire) \in 1..n /\ i = Len(wire) + (i - Len(wire))
        BY <1>2, <1>4, <2>2 DEF Sends
      <4> QED
        BY <4>1
    <3> QED
      BY <1>4, <3>1, FollowedNew
  <2> QED
    BY <1>2, <2>1, <2>2
<1> QED
  BY <1>3, <1>4, WireSteps

(* CompleteInv holds in every reachable state.                              *)
LEMMA CompleteAlways == Spec => []CompleteInv
<1>1. Init => CompleteInv
  <2>1. Init => Len(wire) = 0
    BY EmptySeq DEF Init
  <2> QED
    BY <2>1 DEF CompleteInv
<1>2. TypeInv /\ SafeInv /\ CompleteInv /\ [Next]_vars => CompleteInv'
  BY CompleteStep
<1> QED
  BY <1>1, <1>2, InvAlways, PTL DEF Spec

-----------------------------------------------------------------------------
(* The properties.                                                          *)

(* The protocol of the buffer: who writes it when, what a half finished     *)
(* write was called for and has sent, and in which order the scans are      *)
(* sent, posted and held.                                                   *)
THEOREM InvCorrect == Spec => []IInv
<1>1. TypeInv /\ SafeInv /\ CompleteInv => IInv
  BY DEF TypeInv, SafeInv, IInv
<1> QED
  BY <1>1, InvAlways, CompleteAlways, PTL

(* A scan that netconn_write was called for arrives whole, over however     *)
(* many acknowledgements and polls, or its connection broke.                *)
THEOREM ScanCompleteCorrect == Spec => []ScanComplete
<1>1. TypeInv /\ CompleteInv => ScanComplete
  BY WireDomain DEF CompleteInv, ScanComplete
<1> QED
  BY <1>1, InvAlways, CompleteAlways, PTL

(* Nobody ever gets the cleared buffer of a writer that was interrupted:    *)
(* between memset and the last byte the stack cannot run.  A cleared piece  *)
(* is sent only where a scan has replaced a longer echo.                    *)
THEOREM NoBlankCorrect == Spec => []NoBlankSent
<1>1. Init => NoBlankSent
  BY DEF Init, NoBlankSent
<1>2. ASSUME TypeInv, SafeInv, NoBlankSent, [Next]_vars
      PROVE  NoBlankSent'
  <2>1. \A i \in 1..Len(wire') : wire'[i].x = Zero => wire'[i].k > 1 /\ wire'[i].of.from # 0
    <3> SUFFICES ASSUME NEW i \in 1..Len(wire'), wire'[i].x = Zero
                 PROVE  wire'[i].k > 1 /\ wire'[i].of.from # 0
      OBVIOUS
    <3>1. CASE i \in 1..Len(wire) /\ wire'[i] = wire[i]
      BY <1>2, <3>1, WireDomain DEF NoBlankSent
    <3>2. CASE Fresh(i)
      <4>1. wire'[i].k # 1 /\ wire'[i].k \in 1..Chunks
        BY <3>2 DEF Fresh
      <4>2. ~IsScan(Of) /\ wire'[i].of = Of /\ Of # Zero
        BY <3>2 DEF Fresh
      <4> QED
        BY <4>1, <4>2, GatewayAssumption DEF IsScan
    <3> QED
      BY <1>2, <3>1, <3>2, OldOrFresh
  <2>2. DOMAIN wire' = 1..Len(wire')
    BY <1>2, OldOrFresh, LenProperties
  <2> QED
    BY <2>1, <2>2 DEF NoBlankSent
<1> QED
  BY <1>1, <1>2, InvAlways, PTL DEF Spec

(* What a client sent is echoed to it alone, although the buffer and the    *)
(* flag survive the connection: an echo is posted at the top of the loop    *)
(* and sent before the server looks at the connection again.                *)
THEOREM EchoCorrect == Spec => []EchoToSender
<1>1. Init => EchoToSender
  BY DEF Init, EchoToSender
<1>2. ASSUME TypeInv, SafeInv, EchoToSender, [Next]_vars
      PROVE  EchoToSender'
  <2>1. \A i \in 1..Len(wire') : wire'[i].x.from # 0 => wire'[i].to = wire'[i].x.from
    BY <1>2, OldOrFresh, WireDomain DEF Fresh, EchoToSender, SafeInv, EchoInv, Zero
  <2>2. DOMAIN wire' = 1..Len(wire')
    BY <1>2, OldOrFresh, LenProperties
  <2> QED
    BY <2>1, <2>2 DEF EchoToSender
<1> QED
  BY <1>1, <1>2, InvAlways, PTL DEF Spec

(* A write called for a scan sends that scan and nothing else, and in a     *)
(* write called for an echo a scan is cut off or padded, never mixed.       *)
THEOREM ScanIntactCorrect == Spec => []ScanIntact
<1>1. Init => ScanIntact
  BY DEF Init, ScanIntact
<1>2. ASSUME TypeInv, SafeInv, ScanIntact, [Next]_vars
      PROVE  ScanIntact'
  <2>1. /\ Len(wire) \in Nat /\ Len(wire') \in Nat /\ write_offset \in 0..Chunks
        /\ Chunks \in Nat
    BY <1>2, OldOrFresh, GatewayAssumption DEF TypeInv, TypeOK
  <2>2. DOMAIN wire' = 1..Len(wire') /\ DOMAIN wire = 1..Len(wire)
    BY <1>2, OldOrFresh, WireDomain, LenProperties
  <2>3. ASSUME NEW i \in 1..Len(wire'), IsScan(wire'[i].of)
        PROVE  wire'[i].x = wire'[i].of
    <3>1. CASE i \in 1..Len(wire) /\ wire'[i] = wire[i]
      BY <1>2, <2>2, <2>3, <3>1 DEF ScanIntact
    <3>2. CASE Fresh(i)
      BY <2>3, <3>2 DEF Fresh
    <3> QED
      BY <1>2, <3>1, <3>2, OldOrFresh
  <2>4. ASSUME NEW i \in 1..Len(wire'), i > 1, wire'[i].k > 1, wire'[i - 1].x.from = 0
        PROVE  /\ wire'[i].to = wire'[i - 1].to
               /\ wire'[i].x = IF wire'[i].k <= wire'[i - 1].x.len
                                 THEN wire'[i - 1].x ELSE Zero
    <3>1. i \in Nat /\ i - 1 \in 1..Len(wire')
      BY <2>1, <2>4
    <3>2. /\ (i \in 1..Len(wire) /\ wire'[i] = wire[i]) \/ Fresh(i)
          /\ (i - 1 \in 1..Len(wire) /\ wire'[i - 1] = wire[i - 1]) \/ Fresh(i - 1)
      BY <1>2, <3>1, OldOrFresh
    <3>3. CASE i <= Len(wire)
      <4>1. wire'[i] = wire[i] /\ wire'[i - 1] = wire[i - 1] /\ i \in 1..Len(wire)
        BY <2>1, <3>1, <3>2, <3>3 DEF Fresh
      <4> QED
        BY <1>2, <2>2, <2>4, <4>1 DEF ScanIntact
    <3> DEFINE k == wire'[i].k
               L == tcp_server_sendbuf[1].len
    <3>4. CASE i > Len(wire)
      <4>1. Fresh(i)
        BY <2>1, <3>1, <3>2, <3>4
      <4>2. k \in Nat /\ k - 1 \in 1..Chunks /\ k \in 1..Chunks /\ Shape /\ L \in 0..Chunks
        <5>1. k \in 1..Chunks /\ Shape
          BY <1>2, <4>1 DEF Fresh, SafeInv, SrvInv
        <5>2. L \in 0..Chunks
          BY <1>2, <5>1, ShapePiece, ContentTyped DEF TypeInv
        <5> QED
          BY <2>1, <2>4, <5>1, <5>2
      <4>3. /\ wire'[i].to = wire'[i - 1].to
            /\ wire'[i - 1].x = tcp_server_sendbuf[k - 1]
        <5>1. CASE i = Len(wire) + 1
          <6>1. wire'[i - 1] = wire[Len(wire)]
            BY <2>1, <3>1, <3>2, <5>1 DEF Fresh
          <6>2. k = write_offset + 1
            BY <2>1, <4>1, <5>1 DEF Fresh
          <6>3. write_offset > 0 /\ k - 1 = write_offset
            BY <2>1, <2>4, <6>2
          <6>4. srv_pc = "sending"
            BY <1>2, <2>1, <6>3 DEF TypeInv, ControlInv
          <6> QED
            BY <1>2, <2>4, <4>1, <6>1, <6>3, <6>4 DEF Fresh, SafeInv, WireInv
        <5>2. CASE i > Len(wire) + 1
          <6>1. Fresh(i - 1)
            BY <2>1, <3>1, <3>2, <5>2
          <6>2. wire'[i - 1].k = k - 1
            BY <2>1, <3>1, <4>1, <6>1 DEF Fresh
          <6> QED
            BY <4>1, <6>1, <6>2 DEF Fresh
        <5> QED
          BY <2>1, <3>1, <3>4, <5>1, <5>2
      <4>4. wire'[i].x = tcp_server_sendbuf[k]
        BY <4>1 DEF Fresh
      <4> HIDE DEF k
      <4>5. CASE k - 1 <= L
        <5>1. tcp_server_sendbuf[k - 1] = tcp_server_sendbuf[1]
          BY <1>2, <4>2, <4>5, ShapePiece DEF TypeInv
        <5>2. tcp_server_sendbuf[k] = IF k <= L THEN tcp_server_sendbuf[1] ELSE Zero
          BY <4>2 DEF Shape
        <5> QED
          BY <4>3, <4>4, <5>1, <5>2 DEF k
      <4>6. CASE k - 1 > L
        <5>1. tcp_server_sendbuf[k - 1] = Zero
          BY <1>2, <4>2, <4>6, ShapePiece DEF TypeInv
        <5>2. k > L
          BY <4>2, <4>6
        <5>3. tcp_server_sendbuf[k] = Zero
          BY <1>2, <4>2, <5>2, ShapePiece DEF TypeInv
        <5> QED
          BY <4>3, <4>4, <5>1, <5>3 DEF k, Zero
      <4> QED
        BY <4>2, <4>5, <4>6
    <3> QED
      BY <2>1, <3>1, <3>3, <3>4
  <2> QED
    BY <2>2, <2>3, <2>4 DEF ScanIntact, IsScan
<1> QED
  BY <1>1, <1>2, InvAlways, PTL DEF Spec

(* Scans arrive in the order in which the sensor made them and none twice,  *)
(* over all connections together.                                           *)
THEOREM ScansInOrderCorrect == Spec => []ScansInOrder
<1>1. Init => ScansInOrder
  BY DEF Init, ScansInOrder
<1>2. ASSUME TypeInv, SafeInv, ScansInOrder, [Next]_vars
      PROVE  ScansInOrder'
  <2>1. DOMAIN wire' = 1..Len(wire') /\ DOMAIN wire = 1..Len(wire)
    BY <1>2, OldOrFresh, WireDomain, LenProperties
  <2> SUFFICES ASSUME NEW i \in 1..Len(wire'), NEW j \in 1..Len(wire'), i < j,
                      IsScan(wire'[i].x), IsScan(wire'[j].x)
               PROVE  \/ wire'[i].x.id < wire'[j].x.id
                      \/ wire'[i].x.id = wire'[j].x.id /\ wire'[i].k < wire'[j].k
    BY <2>1 DEF ScansInOrder, IsScan
  <2>2. /\ Len(wire) \in Nat /\ Len(wire') \in Nat /\ write_offset \in 0..Chunks
        /\ Chunks \in Nat /\ i \in Nat /\ j \in Nat
    BY <1>2, OldOrFresh, GatewayAssumption DEF TypeInv, TypeOK
  <2>3. /\ (i \in 1..Len(wire) /\ wire'[i] = wire[i]) \/ Fresh(i)
        /\ (j \in 1..Len(wire) /\ wire'[j] = wire[j]) \/ Fresh(j)
    BY <1>2, OldOrFresh
  <2>4. CASE j <= Len(wire)
    <3>1. /\ wire'[i] = wire[i] /\ wire'[j] = wire[j]
          /\ i \in DOMAIN wire /\ j \in DOMAIN wire
      BY <2>1, <2>2, <2>3, <2>4 DEF Fresh
    <3> QED
      BY <1>2, <3>1 DEF ScansInOrder
  <2>5. CASE i <= Len(wire) /\ j > Len(wire)
    <3>1. Fresh(j) /\ wire'[i] = wire[i] /\ i \in 1..Len(wire)
      BY <2>2, <2>3, <2>5 DEF Fresh
    <3>2. wire[i] \in Piece /\ wire[i].k \in Nat
      BY <1>2, <2>2, <3>1, WireTyped DEF Piece
    <3>3. \/ wire[i].x.id < tcp_server_sendbuf[1].id
          \/ wire[i].x.id = tcp_server_sendbuf[1].id /\ wire[i].k <= write_offset
      BY <1>2, <3>1 DEF Fresh, SafeInv, OrderInv, SentBefore, IsScan
    <3>4. wire'[j].k > write_offset
      BY <2>2, <2>5, <3>1 DEF Fresh
    <3>5. wire'[j].k \in Nat
      BY <2>2, <2>5, <3>1 DEF Fresh
    <3>6. wire[i].k <= write_offset => wire[i].k < wire'[j].k
      BY <2>2, <3>2, <3>4, <3>5
    <3>7. wire'[j].x = tcp_server_sendbuf[1]
      BY <3>1 DEF Fresh, IsScan
    <3> QED
      BY <3>1, <3>3, <3>6, <3>7
  <2>6. CASE i > Len(wire)
    <3>1. Fresh(i) /\ Fresh(j)
      BY <2>2, <2>3, <2>6 DEF Fresh
    <3>2. /\ wire'[i].x = wire'[j].x
          /\ wire'[i].k = write_offset + (i - Len(wire))
          /\ wire'[j].k = write_offset + (j - Len(wire))
      BY <3>1 DEF Fresh, IsScan
    <3> QED
      BY <2>2, <3>2
  <2> QED
    BY <2>2, <2>4, <2>5, <2>6
<1> QED
  BY <1>1, <1>2, InvAlways, PTL DEF Spec

(* The next scan never replaces one that waits: what spi_task found when it *)
(* tested LWIP_SEND_DATA still holds, for scans, when it clears the buffer. *)
THEOREM PendingScanCorrect == Spec => PendingScanKept
<1>1. ASSUME TypeInv, SafeInv, [Next]_vars
      PROVE  [ tcp_server_flag /\ irq = "on" /\ IsScan(tcp_server_sendbuf[1])
                 /\ tcp_server_sendbuf' # tcp_server_sendbuf
               => srv_pc = "enter" ]_vars
  <2> SUFFICES ASSUME tcp_server_flag, irq = "on", IsScan(tcp_server_sendbuf[1]),
                      tcp_server_sendbuf' # tcp_server_sendbuf
               PROVE  srv_pc = "enter"
    OBVIOUS
  <2>1. SpiEnter \/ SpiDecode \/ SrvEnter \/ SrvCopy
    <3>1. CASE SpiTask
      BY <3>1 DEF SpiTask, SpiPoll, SpiCheck, SpiPost, buf
    <3>2. CASE TcpServerThread
      BY <3>2 DEF TcpServerThread, SrvAccept, SrvLoop, SrvWrite, SrvClear, SrvRecv,
         SrvTimeout, SrvFetch, SrvPost, SrvClose, buf
    <3>3. CASE TcpipThread
      BY <3>3 DEF TcpipThread, NetConnect, NetData, NetFin, NetPoll, NetAck, NetReset,
         NetAbort, NetError, buf
    <3>4. CASE UNCHANGED vars
      BY <3>4 DEF vars, buf
    <3> QED
      BY <1>1, <3>1, <3>2, <3>3, <3>4 DEF Next
  <2>2. ~SpiEnter
    BY <1>1 DEF SpiEnter, SafeInv, SpiInv
  <2>3. ~SpiDecode /\ ~SrvCopy
    BY <1>1 DEF SpiDecode, SrvCopy, SafeInv, LockInv
  <2> QED
    BY <2>1, <2>2, <2>3 DEF SrvEnter
<1> QED
  BY <1>1, InvAlways, PTL DEF Spec, PendingScanKept

-----------------------------------------------------------------------------
(* Gateway implements ScanOutbox.                                           *)

Step == [Outbox!Next]_(Outbox!ovars)

LEMMA SentSame == UNCHANGED wire => SentScans' = SentScans
BY DEF SentScans, Whole

LEMMA DropStep ==
  ASSUME UNCHANGED <<nscan, HeldScan, SentScans>>, PostedScan' = PostedScan \/ PostedScan' = 0
  PROVE  Step
BY DEF Step, Outbox!Next, Outbox!Drop, Outbox!ovars

(* A step that touches neither buffer nor wire drops a scan at most, when   *)
(* netconn_write returns an error.                                          *)
LEMMA StillStep ==
  ASSUME UNCHANGED <<buf, spi, wire>>, srv_pc # "clear" \/ srv_pc' = srv_pc
  PROVE  Step
<1>1. UNCHANGED <<nscan, HeldScan, SentScans>>
  BY SentSame DEF spi, HeldScan
<1>2. PostedScan' = PostedScan \/ PostedScan' = 0
  BY <1>1 DEF PostedScan, buf, spi
<1> QED
  BY <1>1, <1>2, DropStep

(* What is on the wire stays there, so what was delivered stays delivered.  *)
LEMMA WholeStays ==
  ASSUME TypeInv, NEW n \in 0..Chunks, Sends(n), NEW i \in 1..Len(wire)
  PROVE  Whole(i)' <=> Whole(i)
<1>1. Len(wire) \in Nat /\ wire'[i] = wire[i] /\ wire[i] \in Piece
  BY WireTyped DEF Sends
<1> DEFINE n0 == wire[i].x.len
<1>2. n0 \in 0..Chunks /\ Chunks \in Nat
  BY <1>1, ContentTyped, GatewayAssumption DEF Piece
<1> HIDE DEF n0
<1>3. i >= n0 => \A j \in 1..n0 : i + j - n0 \in 1..Len(wire)
  BY <1>1, <1>2
<1>4. i >= n0 => \A j \in 1..n0 : wire'[i + j - n0] = wire[i + j - n0]
  BY <1>3 DEF Sends
<1> QED
  BY <1>1, <1>4 DEF Whole, IsScan, n0

(* A scan that a step completes is the one in the buffer, at its last piece.*)
LEMMA WholeNew ==
  ASSUME TypeInv, SafeInv, NEW n \in 0..Chunks, Sends(n), NEW i, i \in 1..(Len(wire) + n),
         i \notin 1..Len(wire), Whole(i)'
  PROVE  /\ wire'[i].to = newconn /\ wire'[i].x = tcp_server_sendbuf[1]
         /\ IsScan(tcp_server_sendbuf[1])
         /\ i - Len(wire) \in 1..n
         /\ write_offset + (i - Len(wire)) = tcp_server_sendbuf[1].len
<1>1. Len(wire) \in Nat /\ n \in Nat
  BY GatewayAssumption DEF TypeInv, TypeOK
<1>2. PICK j \in 1..n : i = Len(wire) + j /\ i - Len(wire) = j
  <2>1. i - Len(wire) \in 1..n /\ i = Len(wire) + (i - Len(wire))
    BY <1>1
  <2> QED
    BY <2>1
<1>3. /\ wire'[i] = [to |-> newconn, k |-> write_offset + j, of |-> Of,
                     x |-> tcp_server_sendbuf[write_offset + j]]
      /\ tcp_server_sendbuf[write_offset + j] \in {tcp_server_sendbuf[1], Zero}
  BY <1>2, SendFresh, NextPiece
<1>4. IsScan(wire'[i].x) /\ wire'[i].k = wire'[i].x.len
  BY DEF Whole, IsScan
<1>5. wire'[i].x = tcp_server_sendbuf[1]
  BY <1>3, <1>4 DEF IsScan
<1> QED
  BY <1>2, <1>3, <1>4, <1>5

(* do_writemore: the last piece of a scan that was sent whole delivers it,  *)
(* the last piece of a write that was begun as an echo drops what is left.  *)
LEMMA SendStep ==
  ASSUME TypeInv, SafeInv, NEW n \in 0..Chunks, Sends(n), [Next]_vars
  PROVE  Step
<1> DEFINE x == tcp_server_sendbuf[1]
<1>1. PICK last : last = Len(wire) + n
  OBVIOUS
<1>2. /\ Len(wire) \in Nat /\ n \in Nat /\ write_offset \in Nat /\ last \in Nat
      /\ last = Len(wire) + n /\ 1..Len(wire) \subseteq 1..last
  BY <1>1, GatewayAssumption DEF TypeInv, TypeOK
<1>3. DOMAIN wire = 1..Len(wire) /\ DOMAIN wire' = 1..last
  BY <1>1, WireDomain, TypeStep, LenProperties DEF TypeInv, TypeOK, Sends
<1>4. /\ irq = "on" /\ tcp_server_flag /\ srv_pc \in {"write", "sending"} /\ newconn \in Conn
      /\ UNCHANGED <<buf, spi>> /\ spi_pc # "decode"
      /\ \A i \in 1..Len(wire) : wire'[i] = wire[i] /\ (Whole(i)' <=> Whole(i))
  BY WholeStays DEF Sends, SafeInv, LockInv
<1>5. UNCHANGED <<nscan, HeldScan>>
  BY <1>4 DEF HeldScan, spi
<1>6. CASE \A i \in 1..last : Whole(i)' => i \in 1..Len(wire)
  <2>1. SentScans' = SentScans
    BY <1>2, <1>3, <1>4, <1>6 DEF SentScans
  <2>2. PostedScan' = PostedScan \/ PostedScan' = 0
    BY <1>4, <2>1 DEF PostedScan, buf, spi
  <2> QED
    BY <1>5, <2>1, <2>2, DropStep
<1>7. ASSUME NEW p \in 1..last, p \notin 1..Len(wire), Whole(p)'
      PROVE  Step
  <2>1. /\ wire'[p].to = newconn /\ wire'[p].x = x /\ IsScan(x)
        /\ p - Len(wire) \in 1..n /\ write_offset + (p - Len(wire)) = x.len
    BY <1>2, <1>7, WholeNew
  <2>2. \A i \in 1..last : Whole(i)' => i \in 1..Len(wire) \/ i = p
    <3> SUFFICES ASSUME NEW i \in 1..last, Whole(i)', i \notin 1..Len(wire)
                 PROVE  i = p
      OBVIOUS
    <3>1. i - Len(wire) \in 1..n /\ write_offset + (i - Len(wire)) = x.len
      BY <1>2, WholeNew
    <3> QED
      BY <1>2, <2>1, <3>1
  <2>3. SentScans' = SentScans \cup {<<newconn, x.id>>}
    <3> DEFINE New(i) == <<wire'[i].to, wire'[i].x.id>>
               old == {m \in 1..Len(wire) : Whole(m)}
               all == {m \in 1..last : Whole(m)'}
    <3>1. SentScans' = {New(i) : i \in all}
      BY <1>3 DEF SentScans
    <3>2. SentScans = {New(i) : i \in old}
      BY <1>3, <1>4 DEF SentScans
    <3>3. all = old \cup {p}
      BY <1>2, <1>4, <1>7, <2>2
    <3>4. New(p) = <<newconn, x.id>>
      BY <2>1
    <3> HIDE DEF New, old, all
    <3> QED
      BY <3>1, <3>2, <3>3, <3>4
  <2>4. \A d \in Conn : <<d, x.id>> \notin SentScans
    <3>1. \A i \in 1..Len(wire) : Whole(i) => wire[i].x.id # x.id
      <4> SUFFICES ASSUME NEW i \in 1..Len(wire), Whole(i), wire[i].x.id = x.id
                   PROVE  FALSE
        OBVIOUS
      <4>1. \/ wire[i].x.id < x.id
            \/ wire[i].x = x /\ wire[i].k <= write_offset
        BY <1>4, <2>1 DEF SafeInv, OrderInv, SentBefore, Whole
      <4>2. x.id \in Nat
        BY GatewayAssumption, ContentTyped DEF TypeInv, TypeOK
      <4>3. wire[i].x = x /\ x.len <= write_offset
        BY <4>1, <4>2 DEF Whole
      <4> QED
        BY <1>2, <2>1, <4>3
    <3> QED
      BY <1>3, <3>1 DEF SentScans
  <2>5. x.id # 0
    <3>1. x.id \in 1..nscan /\ nscan \in Nat
      BY <1>4, <2>1, GatewayAssumption DEF SafeInv, OrderInv, TypeInv, TypeOK
    <3> QED
      BY <3>1
  <2>6. PostedScan = x.id
    BY <1>4, <2>1, <2>4 DEF PostedScan
  <2>7. PostedScan' = 0
    BY <1>4, <2>3 DEF PostedScan, buf
  <2>8. Outbox!Deliver(newconn)
    BY <1>5, <2>3, <2>4, <2>5, <2>6, <2>7 DEF Outbox!Deliver, Conn
  <2> QED
    BY <1>4, <2>8 DEF Step, Outbox!Next, Conn
<1> QED
  BY <1>6, <1>7

(* spi_task reads and posts.                                                *)
LEMMA SpiStep ==
  ASSUME TypeInv, SafeInv, SpiTask
  PROVE  Step
<1>1. CASE SpiPoll
  <2>1. spi_pc = "poll" /\ spi_pc' = "check" /\ UNCHANGED <<buf, srv_pc, wire>>
    BY <1>1 DEF SpiPoll, srv
  <2>2. UNCHANGED <<PostedScan, SentScans>>
    <3>1. SentScans' = SentScans
      BY <2>1, SentSame
    <3> QED
      BY <2>1, <3>1 DEF PostedScan, buf
  <2>3. CASE UNCHANGED <<recv_ok, spi_recvbuf, nscan>>
    <3>1. HeldScan' = HeldScan
      BY <2>1, <2>3 DEF HeldScan
    <3> QED
      BY <2>2, <2>3, <3>1, DropStep
  <2>4. CASE /\ ~recv_ok /\ nscan < MaxScan /\ nscan' = nscan + 1 /\ recv_ok' = TRUE
             /\ spi_recvbuf'.id = nscan + 1
    <3>1. HeldScan = 0 /\ HeldScan' = nscan + 1
      BY <2>1, <2>4 DEF HeldScan
    <3> QED
      BY <2>2, <2>4, <3>1 DEF Step, Outbox!Next, Outbox!Read
  <2>5. \/ UNCHANGED <<recv_ok, spi_recvbuf, nscan>>
        \/ /\ ~recv_ok /\ nscan < MaxScan /\ nscan' = nscan + 1 /\ recv_ok' = TRUE
           /\ \E len \in ScanLens : spi_recvbuf' = [from |-> 0, id |-> nscan + 1, len |-> len]
    BY <1>1 DEF SpiPoll
  <2>6. \A len : [from |-> 0, id |-> nscan + 1, len |-> len].id = nscan + 1
    OBVIOUS
  <2>7. (\E len \in ScanLens : spi_recvbuf' = [from |-> 0, id |-> nscan + 1, len |-> len])
          => spi_recvbuf'.id = nscan + 1
    BY <2>6
  <2> QED
    BY <2>3, <2>4, <2>5, <2>7
<1>2. CASE SpiCheck
  <2>1. /\ spi_pc = "check" /\ UNCHANGED <<buf, srv_pc, wire, spi_recvbuf, nscan>>
        /\ \/ recv_ok /\ recv_ok' = FALSE /\ spi_pc' = "enter"
           \/ spi_pc' = "poll" /\ UNCHANGED recv_ok
    BY <1>2 DEF SpiCheck, srv
  <2>2. UNCHANGED <<HeldScan, PostedScan, SentScans>>
    <3>1. SentScans' = SentScans
      BY <2>1, SentSame
    <3> QED
      BY <2>1, <3>1 DEF HeldScan, PostedScan, buf
  <2> QED
    BY <2>1, <2>2, DropStep
<1>3. CASE SpiEnter
  <2>1. /\ spi_pc = "enter" /\ spi_pc' = "decode"
        /\ UNCHANGED <<tcp_server_flag, recv_ok, spi_recvbuf, nscan, wire>>
    BY <1>3 DEF SpiEnter
  <2>2. PostedScan' = 0 /\ UNCHANGED <<HeldScan, SentScans>>
    BY <2>1, SentSame DEF PostedScan, HeldScan
  <2> QED
    BY <2>1, <2>2, DropStep
<1>4. CASE SpiDecode
  <2>1. spi_pc = "decode" /\ UNCHANGED <<spi_pc, recv_ok, spi_recvbuf, nscan, wire>>
    BY <1>4 DEF SpiDecode
  <2>2. PostedScan' = 0 /\ UNCHANGED <<HeldScan, SentScans>>
    BY <2>1, SentSame DEF PostedScan, HeldScan
  <2> QED
    BY <2>1, <2>2, DropStep
<1>5. CASE SpiPost
  <2>1. /\ spi_pc = "decode" /\ spi_pc' = "poll" /\ tcp_server_flag' = TRUE /\ irq = "spi"
        /\ UNCHANGED <<tcp_server_sendbuf, recv_ok, spi_recvbuf, nscan, srv_pc, wire>>
    BY <1>5 DEF SpiPost, srv, SafeInv, LockInv
  <2>2. ~recv_ok /\ srv_pc # "clear" /\ IsScan(spi_recvbuf)
    BY <2>1 DEF SafeInv, SpiInv, LockInv, Holding
  <2>3. tcp_server_sendbuf[1] = spi_recvbuf
    <3>1. spi_recvbuf.len \in 0..Chunks /\ spi_recvbuf.len >= 1
      BY <2>1, ContentTyped DEF TypeInv, TypeOK, SafeInv, SpiInv, Holding
    <3>2. 1 \in 1..Chunks /\ 1 < spi_i
      BY <1>5, <3>1, GatewayAssumption DEF SpiPost, TypeInv, TypeOK
    <3> QED
      BY <2>1, <3>2 DEF SafeInv, SpiInv
  <2>4. spi_recvbuf.id # 0
    <3>1. spi_recvbuf.id \in 1..nscan /\ nscan \in Nat
      BY <2>1, GatewayAssumption DEF SafeInv, OrderInv, Holding, TypeInv, TypeOK
    <3> QED
      BY <3>1
  <2>s. SentScans' = SentScans
    BY <2>1, SentSame
  <2>n. \A c \in Conn : <<c, spi_recvbuf.id>> \notin SentScans
    <3>1. DOMAIN wire = 1..Len(wire) /\ spi_recvbuf.id \in Nat
      BY WireDomain, ContentTyped DEF TypeInv, TypeOK
    <3>2. \A i \in 1..Len(wire) : Whole(i) => wire[i].x.id < spi_recvbuf.id
      BY <2>1 DEF SafeInv, OrderInv, SentBefore, Holding, Whole
    <3>3. \A i \in 1..Len(wire) : wire[i].x.id \in Nat
      BY WireTyped
    <3>4. \A i \in 1..Len(wire) : Whole(i) => wire[i].x.id # spi_recvbuf.id
      BY <3>1, <3>2, <3>3
    <3> QED
      BY <3>1, <3>4 DEF SentScans
  <2>5. /\ HeldScan = spi_recvbuf.id /\ HeldScan' = 0
        /\ PostedScan = 0 /\ PostedScan' = spi_recvbuf.id
    BY <2>1, <2>2, <2>3, <2>s, <2>n DEF HeldScan, PostedScan
  <2> QED
    BY <2>1, <2>4, <2>5, <2>s DEF Step, Outbox!Next, Outbox!Post
<1> QED
  BY <1>1, <1>2, <1>3, <1>4, <1>5 DEF SpiTask

(* The server drops a scan by an echo only.                                 *)
LEMMA SrvStep ==
  ASSUME TypeInv, SafeInv, TcpServerThread
  PROVE  Step
<1>1. CASE SrvWrite
  BY <1>1, SrvWriteSends, SendStep, StillStep DEF Quiet, Next
<1>2. CASE SrvClear \/ SrvEnter \/ SrvCopy \/ SrvPost
  <2>1. UNCHANGED <<spi, wire>>
    BY <1>2 DEF SrvClear, SrvEnter, SrvCopy, SrvPost
  <2>2. UNCHANGED <<nscan, HeldScan, SentScans>>
    BY <2>1, SentSame DEF spi, HeldScan
  <2>3. PostedScan' = 0
    <3>1. CASE SrvClear
      BY <3>1 DEF SrvClear, PostedScan
    <3>2. CASE SrvEnter
      BY <3>2, GatewayAssumption DEF SrvEnter, PostedScan, Blank, IsScan
    <3>3. CASE SrvCopy \/ SrvPost
      <4>1. srv_pc = "copy" /\ 1 \in 1..Chunks
        BY <3>3, GatewayAssumption DEF SrvCopy, SrvPost
      <4>2. recvbuf.from # 0
        BY <4>1, GatewayAssumption DEF TypeInv, TypeOK, ControlInv, ConnInv, NoConn, Conn
      <4>3. ~IsScan(tcp_server_sendbuf[1])
        BY <4>1, <4>2 DEF SafeInv, SrvInv, IsScan
      <4>4. tcp_server_sendbuf'[1] = tcp_server_sendbuf[1] \/ tcp_server_sendbuf'[1] = recvbuf
        BY <3>3, <4>1 DEF SrvCopy, SrvPost, TypeInv, TypeOK
      <4> QED
        BY <4>2, <4>3, <4>4 DEF PostedScan, IsScan
    <3> QED
      BY <1>2, <3>1, <3>2, <3>3
  <2> QED
    BY <2>2, <2>3, DropStep
<1>3. CASE SrvAccept \/ SrvLoop \/ SrvRecv \/ SrvTimeout \/ SrvFetch \/ SrvClose
  BY <1>3, StillStep DEF SrvAccept, SrvLoop, SrvRecv, SrvTimeout, SrvFetch, SrvClose, Delete
<1> QED
  BY <1>1, <1>2, <1>3 DEF TcpServerThread

(* The stack delivers for a blocked server, or lets its write fail.         *)
LEMMA NetStep ==
  ASSUME TypeInv, SafeInv, TcpipThread
  PROVE  Step
<1>1. PICK c \in Conn :
        \/ NetConnect(c) \/ NetData(c) \/ NetFin(c) \/ NetPoll(c)
        \/ NetAck(c) \/ NetReset(c) \/ NetAbort(c)
  BY DEF TcpipThread
<1>2. irq = "on" /\ UNCHANGED <<buf, spi, recvbuf, srv_i>>
  BY <1>1 DEF NetMayRun, NetConnect, NetData, NetFin, NetPoll, NetAck, NetReset,
     NetAbort, NetError, srv
<1>3. CASE \E u \in 0..SndBuf : Progress(c, u)
  BY <1>2, <1>3, ProgressSends, SendStep, StillStep DEF Quiet, Next
<1>4. CASE NetPoll(c) \/ NetAck(c)
  <2>1. conn[c].unacked \in 0..SndBuf /\ SndBuf \in Nat
    BY GatewayAssumption DEF TypeInv, TypeOK, Netconn
  <2>2. \A u \in 0..SndBuf : \A k \in 1..u : u - k \in 0..SndBuf
    BY <2>1
  <2>3. (\E u \in 0..SndBuf : Progress(c, u)) \/ UNCHANGED <<srv_pc, wire>>
    BY <1>4, <2>1, <2>2 DEF NetPoll, NetAck
  <2> QED
    BY <1>2, <1>3, <2>3, StillStep
<1>5. CASE NetConnect(c) \/ NetData(c) \/ NetFin(c)
  BY <1>5, StillStep DEF NetConnect, NetData, NetFin, srv
<1>6. CASE NetReset(c) \/ NetAbort(c)
  BY <1>2, <1>6, StillStep DEF NetReset, NetAbort, NetError, Delete, WriteFinished
<1> QED
  BY <1>1, <1>4, <1>5, <1>6

(* The gateway keeps the promises of ScanOutbox: a scan is posted when the  *)
(* former one was taken, then delivered once and whole, or dropped.         *)
THEOREM RefinementCorrect == Spec => Refinement
<1>1. Init => Outbox!Init
  BY DEF Init, Outbox!Init, HeldScan, PostedScan, SentScans
<1>2. TypeInv /\ SafeInv /\ [Next]_vars => Step
  <2> SUFFICES ASSUME TypeInv, SafeInv, [Next]_vars PROVE Step
    OBVIOUS
  <2>1. CASE UNCHANGED vars
    BY <2>1, StillStep DEF vars, srv
  <2> QED
    BY <2>1, SpiStep, SrvStep, NetStep DEF Next
<1> QED
  BY <1>1, <1>2, InvAlways, PTL DEF Spec, Refinement, Outbox!Spec, Step
=============================================================================
