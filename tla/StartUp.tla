------------------------------ MODULE StartUp ------------------------------
(***************************************************************************)
(* Start-up of the gateway and the resources its connections live on.       *)
(* main repeats lwip_comm_init until it returns 0: memory of the Ethernet   *)
(* driver, memory of lwIP, the PHY, tcpip_init.  Then the server creates    *)
(* its listening netconn, and each client takes a netconn, a semaphore      *)
(* (event control block) and a mailbox (memory of the pool, event control   *)
(* block, queue control block), which netconn_delete gives back.            *)
(*                                                                         *)
(* netconn_alloc is a step per resource.  tcpip_thread (priority 5) runs    *)
(* before the server (6) and spi_task (8).  The pool is counted in blocks;  *)
(* where they lie is the matter of MemPool.                                 *)
(***************************************************************************)
EXTENDS Integers, Sequences, FiniteSetsExt

CONSTANTS
  Pool,       \* blocks of the pool SRAMIN
  EthMem,     \* the four pointers of ETH_Mem_Malloc, in order
  LwipMem,    \* the four of lwip_comm_mem_malloc
  Size,       \* blocks each of them asks for
  RecvBlocks, MboxBlocks, TextBlocks, \* blocks of spi_recvbuf, of a TQ_DESCR, of the texts of TIMXX_Decode
  MaxEvents, MaxQs,    \* OS_MAX_EVENTS, OS_MAX_QS
  Conn,       \* the elements of the netconn pool, MEMP_NUM_NETCONN
  AcceptCap   \* DEFAULT_ACCEPTMBOX_SIZE

Piece == {EthMem[i] : i \in DOMAIN EthMem} \cup {LwipMem[i] : i \in DOMAIN LwipMem}
TmrEvents == 2     \* OSTmrSem, OSTmrSemSignal
MutexEvents == 1   \* mem_mutex

None == "none"

ASSUME StartUpAssumption ==
  /\ EthMem \in Seq(Piece) /\ Len(EthMem) = 4 /\ LwipMem \in Seq(Piece) /\ Len(LwipMem) = 4
  /\ \A j, k \in 1..4 : (EthMem[j] = EthMem[k] \/ LwipMem[j] = LwipMem[k]) => j = k
  /\ \A j, k \in 1..4 : EthMem[j] # LwipMem[k]
  /\ "mbox" \notin Piece
  /\ Pool \in Nat /\ Size \in [Piece -> Nat \ {0}]
  /\ RecvBlocks \in Nat /\ MboxBlocks \in Nat \ {0} /\ TextBlocks \in Nat
  /\ MaxEvents \in Nat /\ MaxEvents >= TmrEvents + MutexEvents + 3
  /\ MaxQs \in Nat /\ MaxQs >= 2
  /\ IsFiniteSet(Conn) /\ None \notin Conn /\ AcceptCap \in Nat \ {0}

OneTry == SumFunctionOnSet(Size, Piece)    \* blocks of a whole lwip_comm_init

(* malloc.h and os_cfg.h: with one try (about 2330 blocks) the pool of 3200  *)
(* holds a mailbox for every queue there is, and one more or the two texts;  *)
(* it does not hold two tries.                                               *)
ASSUME PoolAssumption ==
  /\ RecvBlocks + OneTry + MaxQs * MboxBlocks + MboxBlocks <= Pool
  /\ RecvBlocks + OneTry + MaxQs * MboxBlocks + TextBlocks <= Pool
  /\ RecvBlocks + OneTry + OneTry > Pool

VARIABLES
  at, i,      \* place of main, index of the pointer it asks memory for
  try,        \* the call of lwip_comm_init, a number that no run in the pool has
  link,       \* the PHY has a link
  heap,       \* runs of the pool that are taken: <<piece, try>> or <<"mbox", number>>
  ptr,        \* the try whose run each pointer refers to, 0: NULL
  evFree, qFree,    \* length of OSEventFreeList, OSQFreeList
  tmbox,      \* number of tcpip_thread's mailbox
  conn,       \* the netconns
  al, ac,     \* place in netconn_alloc, the netconn
  acceptq,    \* the listener's acceptmbox
  srv, lis, cl,     \* place of the server, its conn and newconn
  nullWrite   \* TIMXX_Decode wrote through a NULL pointer

boot == <<at, i, try, link, ptr, tmbox>>
object == <<evFree, qFree>>
server == <<srv, lis, cl>>
vars == <<boot, heap, object, conn, al, ac, acceptq, server, nullWrite>>

Blocks(r) == IF r[1] = "mbox" THEN MboxBlocks ELSE Size[r[1]]
Used == RecvBlocks + SumFunction([r \in heap |-> Blocks(r)])
Fits(n) == Used + n <= Pool

NewNumber(S) == CHOOSE n \in 1..(Cardinality(heap) + 1) : \A p \in S : <<p, n>> \notin heap
NewMbox == NewNumber({"mbox"})
FreeConn == [st |-> "free", sem |-> FALSE, mbox |-> 0, q |-> FALSE]

Init ==  \* OSInit has made the timer's semaphores
  /\ at = "eth" /\ i = 1 /\ try = 1 /\ link \in BOOLEAN
  /\ heap = {} /\ ptr = [p \in Piece |-> 0]
  /\ evFree = MaxEvents - TmrEvents /\ qFree = MaxQs /\ tmbox = 0
  /\ conn = [c \in Conn |-> FreeConn] /\ al = None /\ ac = None
  /\ acceptq = <<>> /\ srv = "new" /\ lis = None /\ cl = None /\ nullWrite = FALSE

-----------------------------------------------------------------------------
(* lwip_comm_init, before the kernel runs.                                  *)

Group == IF at = "eth" THEN EthMem ELSE LwipMem

BootMalloc ==
  /\ at \in {"eth", "lwip"} /\ i \in DOMAIN Group
  /\ LET p == Group[i] IN
       IF Fits(Size[p])
         THEN ptr' = [ptr EXCEPT ![p] = try] /\ heap' = heap \cup {<<p, try>>}
         ELSE ptr' = [ptr EXCEPT ![p] = 0] /\ heap' = heap
  /\ i' = i + 1
  /\ UNCHANGED <<at, try, link, tmbox, object, conn, al, ac, acceptq, server, nullWrite>>

Missing(g) == \E k \in DOMAIN g : ptr[g[k]] = 0
Runs(g) == {<<g[k], ptr[g[k]]>> : k \in DOMAIN g}

(* Faulty variant: what was taken before the failure is not given back.     *)
BootTestKeeps ==
  /\ at \in {"eth", "lwip"} /\ i = Len(Group) + 1
  /\ at' = IF Missing(Group) THEN "fail" ELSE IF at = "eth" THEN "lwip" ELSE "phy"
  /\ i' = 1
  /\ UNCHANGED <<try, link, heap, ptr, tmbox, object, conn, al, ac, acceptq, server, nullWrite>>

(* Faulty variant: the pointers of the other group are tested.              *)
BootTestOtherGroup ==
  /\ at \in {"eth", "lwip"} /\ i = Len(Group) + 1
  /\ IF Missing(LwipMem)
       THEN heap' = heap \ Runs(Group) /\ at' = "fail"
       ELSE heap' = heap /\ at' = IF at = "eth" THEN "lwip" ELSE "phy"
  /\ i' = 1
  /\ UNCHANGED <<try, link, ptr, tmbox, object, conn, al, ac, acceptq, server, nullWrite>>

BootTest ==  \* ETH_Mem_Free or lwip_comm_mem_free when one is missing
  /\ at \in {"eth", "lwip"} /\ i = Len(Group) + 1
  /\ IF Missing(Group)
       THEN heap' = heap \ Runs(Group) /\ at' = "fail"
       ELSE heap' = heap /\ at' = IF at = "eth" THEN "lwip" ELSE "phy"
  /\ i' = 1
  /\ UNCHANGED <<try, link, ptr, tmbox, object, conn, al, ac, acceptq, server, nullWrite>>

(* LAN8720_Init: ETH_Init waits for the link and gives up after PHY_READ_TO; *)
(* with a link, too, the negotiation may not end in that time or the PHY    *)
(* not take a register (ETH_WritePHYRegister).                              *)
BootPhy ==
  /\ at = "phy"
  /\ at' = "fail" \/ (link /\ at' = "tcpip")
  /\ UNCHANGED <<i, try, link, heap, ptr, tmbox, object, conn, al, ac, acceptq, server, nullWrite>>

BootTcpip ==  \* tcpip_init: mem_mutex, tcpip_thread's mailbox; then OSStart
  /\ at = "tcpip"
  /\ heap' = heap \cup {<<"mbox", NewMbox>>} /\ tmbox' = NewMbox
  /\ evFree' = evFree - MutexEvents - 1 /\ qFree' = qFree - 1
  /\ at' = "up"
  /\ UNCHANGED <<i, try, link, ptr, conn, al, ac, acceptq, server, nullWrite>>

BootRetry ==  \* while(lwip_comm_init()) of main
  /\ at = "fail"
  /\ at' = "eth" /\ try' = NewNumber(Piece)
  /\ UNCHANGED <<i, link, heap, ptr, tmbox, object, conn, al, ac, acceptq, server, nullWrite>>

Cable ==
  /\ at # "up" /\ link' = ~link
  /\ UNCHANGED <<at, i, try, heap, ptr, tmbox, object, conn, al, ac, acceptq, server, nullWrite>>

-----------------------------------------------------------------------------
(* netconn_alloc, by the server for its listener and by tcpip_thread        *)
(* (accept_function) for a client.  sys_mbox_new is the three steps from    *)
(* AllocMem to AllocQueue.                                                  *)

ByServer == srv = "new"
Set(c, f, v) == conn' = [conn EXCEPT ![c] = [@ EXCEPT ![f] = v]]

(* sys_mbox_valid, which accept_function asks first, is 0 for a full        *)
(* acceptmbox: the client is refused and nothing taken.                     *)
AllocConn ==
  /\ at = "up" /\ al = None
  /\ ByServer \/ (lis # None /\ Len(acceptq) < AcceptCap)
  /\ \E c \in Conn : conn[c].st = "free" /\ ac' = c /\ Set(c, "st", "open")
  /\ al' = "sem"
  /\ UNCHANGED <<boot, heap, object, acceptq, server, nullWrite>>

AllocSem ==
  /\ al = "sem"
  /\ IF evFree > 0
       THEN evFree' = evFree - 1 /\ Set(ac, "sem", TRUE) /\ al' = "mem"
       ELSE al' = "undoconn" /\ UNCHANGED <<evFree, conn>>
  /\ UNCHANGED <<boot, heap, qFree, ac, acceptq, server, nullWrite>>

AllocMem ==
  /\ al = "mem"
  /\ IF Fits(MboxBlocks)
       THEN heap' = heap \cup {<<"mbox", NewMbox>>} /\ Set(ac, "mbox", NewMbox) /\ al' = "event"
       ELSE al' = "undosem" /\ UNCHANGED <<heap, conn>>
  /\ UNCHANGED <<boot, object, ac, acceptq, server, nullWrite>>

AllocEvent ==
  /\ al = "event"
  /\ IF evFree > 0 THEN evFree' = evFree - 1 /\ al' = "queue"
                   ELSE evFree' = evFree /\ al' = "undomem"
  /\ UNCHANGED <<boot, heap, qFree, conn, ac, acceptq, server, nullWrite>>

AllocQueue ==
  /\ al = "queue"
  /\ IF qFree > 0 THEN /\ qFree' = qFree - 1 /\ Set(ac, "q", TRUE)
                       /\ al' = "done" /\ evFree' = evFree
                  ELSE evFree' = evFree + 1 /\ al' = "undomem" /\ UNCHANGED <<qFree, conn>>
  /\ UNCHANGED <<boot, heap, ac, acceptq, server, nullWrite>>

(* sys_mbox_trypost to the acceptmbox cannot fail, as only tcpip_thread      *)
(* posts there and AllocConn saw room (see RefusedOnlyWhenFull).            *)
AllocDone ==
  /\ al = "done" /\ ~ByServer
  /\ acceptq' = Append(acceptq, ac) /\ al' = None /\ ac' = None
  /\ UNCHANGED <<boot, heap, object, conn, server, nullWrite>>

(* Faulty variant: the memory of the mailbox is not given back.             *)
UndoMemKeeps ==
  /\ al = "undomem"
  /\ heap' = heap /\ Set(ac, "mbox", 0) /\ al' = "undosem"
  /\ UNCHANGED <<boot, object, ac, acceptq, server, nullWrite>>

UndoMem ==
  /\ al = "undomem"
  /\ heap' = heap \ {<<"mbox", conn[ac].mbox>>} /\ Set(ac, "mbox", 0) /\ al' = "undosem"
  /\ UNCHANGED <<boot, object, ac, acceptq, server, nullWrite>>

(* Faulty variant: the semaphore is not deleted.                            *)
UndoSemKeeps ==
  /\ al = "undosem"
  /\ evFree' = evFree /\ Set(ac, "sem", FALSE) /\ al' = "undoconn"
  /\ UNCHANGED <<boot, heap, qFree, ac, acceptq, server, nullWrite>>

(* Faulty variant: it is deleted twice.                                     *)
UndoSemTwice ==
  /\ al = "undosem"
  /\ evFree' = evFree + 2 /\ Set(ac, "sem", FALSE) /\ al' = "undoconn"
  /\ UNCHANGED <<boot, heap, qFree, ac, acceptq, server, nullWrite>>

UndoSem ==
  /\ al = "undosem"
  /\ evFree' = evFree + 1 /\ Set(ac, "sem", FALSE) /\ al' = "undoconn"
  /\ UNCHANGED <<boot, heap, qFree, ac, acceptq, server, nullWrite>>

UndoConn ==  \* the client's pcb is aborted
  /\ al = "undoconn"
  /\ Set(ac, "st", "free") /\ al' = None /\ ac' = None
  /\ srv' = IF ByServer THEN "noconn" ELSE srv
  /\ UNCHANGED <<boot, heap, object, acceptq, lis, cl, nullWrite>>

Alloc ==
  \/ AllocConn \/ AllocSem \/ AllocMem \/ AllocEvent \/ AllocQueue \/ AllocDone
  \/ UndoMem \/ UndoSem \/ UndoConn

-----------------------------------------------------------------------------
(* The server, which runs when tcpip_thread does not.                       *)

(* netconn_listen: do_listen deletes the recvmbox and makes the acceptmbox  *)
(* of the same resources                                                    *)
Listen ==
  /\ srv = "new" /\ al = "done"
  /\ lis' = ac /\ srv' = "accept" /\ al' = None /\ ac' = None /\ cl' = cl
  /\ UNCHANGED <<boot, heap, object, conn, acceptq, nullWrite>>

Accept ==
  /\ srv = "accept" /\ al = None /\ acceptq # <<>>
  /\ cl' = Head(acceptq) /\ acceptq' = Tail(acceptq) /\ srv' = "serve" /\ lis' = lis
  /\ UNCHANGED <<boot, heap, object, conn, al, ac, nullWrite>>

(* Faulty variant: the mailbox is deleted, its memory kept.                 *)
DelConnKeeps ==
  /\ srv = "serve" /\ al = None
  /\ evFree' = evFree + 1 /\ qFree' = qFree + 1
  /\ heap' = heap
  /\ conn' = [conn EXCEPT ![cl] = [@ EXCEPT !.mbox = 0, !.q = FALSE]] /\ srv' = "sem"
  /\ UNCHANGED <<boot, al, ac, acceptq, lis, cl, nullWrite>>

DelConn ==  \* netconn_delete: do_delconn with netconn_drain, in tcpip_thread
  /\ srv = "serve" /\ al = None
  /\ evFree' = evFree + 1 /\ qFree' = qFree + 1
  /\ heap' = heap \ {<<"mbox", conn[cl].mbox>>}
  /\ conn' = [conn EXCEPT ![cl] = [@ EXCEPT !.mbox = 0, !.q = FALSE]] /\ srv' = "sem"
  /\ UNCHANGED <<boot, al, ac, acceptq, lis, cl, nullWrite>>

DelSem ==  \* netconn_free: sys_sem_free
  /\ srv = "sem" /\ al = None
  /\ evFree' = evFree + 1 /\ Set(cl, "sem", FALSE) /\ srv' = "conn"
  /\ UNCHANGED <<boot, heap, qFree, al, ac, acceptq, lis, cl, nullWrite>>

DelFree ==  \* netconn_free: memp_free
  /\ srv = "conn" /\ al = None
  /\ Set(cl, "st", "free") /\ cl' = None /\ srv' = "accept" /\ lis' = lis
  /\ UNCHANGED <<boot, heap, object, al, ac, acceptq, nullWrite>>

(* TIMXX_Decode takes two texts and gives them back with interrupts off.    *)
Decode ==
  /\ at = "up" /\ al = None
  /\ nullWrite' = (nullWrite \/ ~Fits(TextBlocks))
  /\ UNCHANGED <<boot, heap, object, conn, al, ac, acceptq, server>>

Boot == BootMalloc \/ BootTest \/ BootPhy \/ BootTcpip \/ BootRetry
Server == Listen \/ Accept \/ DelSem \/ DelFree
Next == Boot \/ Cable \/ Alloc \/ Server \/ DelConn \/ Decode

Spec == Init /\ [][Next]_vars

(* main and tcpip_thread go on; the server runs between the clients that    *)
(* tcpip_thread answers; a PHY that has a link and is asked again and again *)
(* gets through some time.  A client need not close.                        *)
FairSpec ==
  /\ Spec /\ WF_vars(Boot) /\ WF_vars(Alloc) /\ SF_vars(Server)
  /\ SF_vars(BootPhy /\ at' = "tcpip")

-----------------------------------------------------------------------------
(* Every variable has its type.                                             *)
TypeOK ==
  /\ at \in {"eth", "lwip", "phy", "tcpip", "fail", "up"} /\ i \in 1..5 /\ try \in Nat
  /\ link \in BOOLEAN /\ ptr \in [Piece -> Nat]
  /\ heap \subseteq (Piece \cup {"mbox"}) \X Nat
  /\ evFree \in 0..MaxEvents /\ qFree \in 0..MaxQs /\ tmbox \in Nat
  /\ conn \in [Conn -> [st : {"free", "open"}, sem : BOOLEAN, mbox : Nat, q : BOOLEAN]]
  /\ al \in {None, "sem", "mem", "event", "queue", "done",
             "undomem", "undosem", "undoconn"}
  /\ ac \in Conn \cup {None} /\ acceptq \in Seq(Conn)
  /\ srv \in {"new", "accept", "serve", "sem", "conn", "noconn"}
  /\ lis \in Conn \cup {None} /\ cl \in Conn \cup {None} /\ nullWrite \in BOOLEAN

(* A try of lwip_comm_init that runs out of memory keeps none of the        *)
(* pointers of the group that failed, and when the driver and the stack     *)
(* start, every pointer they use refers to memory that is theirs.           *)
BootMemory ==
  /\ \A g \in {EthMem, LwipMem}, k \in {r[2] : r \in heap} :
       (k = try => at \notin {"eth", "lwip"}) =>
         \/ \A j \in DOMAIN g : <<g[j], k>> \in heap
         \/ \A j \in DOMAIN g : <<g[j], k>> \notin heap
  /\ at \in {"phy", "tcpip", "up"} => \A p \in Piece : <<p, ptr[p]>> \in heap

With(f) == Cardinality({c \in Conn : conn[c][f]})
Held == IF al = "queue" THEN 1 ELSE 0    \* an event taken inside OSQCreate

(* After every failure and deletion each mailbox in the pool has one owner, *)
(* nobody owns one that was given back, and the kernel's control blocks are *)
(* free or belong to a timer, the heap, tcpip_thread's mailbox or a         *)
(* netconn.                                                                 *)
ResourcesOwned ==
  LET started == IF at = "up" THEN 1 ELSE 0 IN
  /\ \A c, d \in Conn : c # d /\ conn[c].mbox # 0 => conn[c].mbox \notin {conn[d].mbox, tmbox}
  /\ {r[2] : r \in {x \in heap : x[1] = "mbox"}} = ({conn[c].mbox : c \in Conn} \cup {tmbox}) \ {0}
  /\ evFree + TmrEvents + started * (MutexEvents + 1) + With("sem") + With("q") + Held = MaxEvents
  /\ qFree + started + With("q") = MaxQs

Smaller(m, n) == IF m < n THEN m ELSE n
Clients ==  \* clients for which there are control blocks
  Smaller((MaxEvents - TmrEvents - MutexEvents - 3) \div 2, MaxQs - 2)
Busy == {c \in Conn : conn[c].st = "open"} \ {lis, ac}

(* A client for which the acceptmbox has room is refused only when the      *)
(* clients that are connected, or not yet wholly deleted, use the control   *)
(* blocks there are; and the post that ends its set-up finds that room, so  *)
(* the code of accept_function that takes a mailbox back is never needed.   *)
RefusedOnlyWhenFull ==
  /\ al = "undoconn" => Cardinality(Busy) >= Clients
  /\ al = "done" /\ ~ByServer => Len(acceptq) < AcceptCap

(* TIMXX_Decode, which does not test what mymalloc returns, gets its texts. *)
DecodeHasMemory == ~nullWrite

(* Apart from LAN8720_Init, whose failure main cannot mend (see             *)
(* RetrySucceeds), nothing keeps the gateway from its clients: the first    *)
(* try gets all its memory, and behind the PHY the listener gets what it    *)
(* needs and the server waits for clients.                                  *)
StartsUnlessPhyFails == <>(at = "phy") /\ (at = "tcpip" ~> srv = "accept")

(* main repeats lwip_comm_init so that a start without a link ends when the *)
(* link comes.                                                              *)
RetrySucceeds == <>[]link => <>(at = "up")
=============================================================================
