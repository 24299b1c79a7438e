--------------------------- MODULE StartUpProofs ----------------------------
(***************************************************************************)
(* Proofs about StartUp: a try of lwip_comm_init keeps all or nothing, and  *)
(* memory, event and queue control blocks are free or have one owner, for   *)
(* any pool, any limits of the kernel and any number of netconns.  With one *)
(* try in the pool and room for the mailboxes (PoolAssumption), the decoder *)
(* always gets its texts, a client netconn_alloc refuses met a limit of the *)
(* kernel, and the post of a client to the acceptmbox never fails.          *)
(***************************************************************************)
EXTENDS StartUp, SumTheorems

-----------------------------------------------------------------------------
(* The inductive invariant.                                                 *)

Groups == {EthMem, LwipMem}
Places == {"eth", "lwip", "phy", "tcpip", "fail", "up"}
Netconn == [st : {"free", "open"}, sem : BOOLEAN, mbox : Nat, q : BOOLEAN]

(* TypeOK; the upper bounds of evFree and qFree follow from CountInv.       *)
BootType ==
  /\ at \in Places /\ i \in 1..5 /\ try \in Nat \ {0}
  /\ link \in BOOLEAN /\ ptr \in [Piece -> Nat] /\ tmbox \in Nat
HeapType ==
  /\ heap \subseteq (Piece \cup {"mbox"}) \X Nat
  /\ IsFiniteSet(heap) /\ \A r \in heap : r[2] # 0
ConnType ==
  /\ conn \in [Conn -> Netconn]
  /\ al \in {None, "sem", "mem", "event", "queue", "done",
             "undomem", "undosem", "undoconn"}
  /\ ac \in Conn \cup {None} /\ acceptq \in Seq(Conn)
  /\ srv \in {"new", "accept", "serve", "sem", "conn", "noconn"}
  /\ lis \in Conn \cup {None} /\ cl \in Conn \cup {None} /\ nullWrite \in BOOLEAN
FreeType == evFree \in Nat /\ qFree \in Nat
Types == BootType /\ HeapType /\ ConnType /\ FreeType

(* What a try holds of a group: all, nothing, or what its pointers say, up  *)
(* to the one that is asked for next.                                       *)
All(g, n) == \A j \in 1..4 : <<g[j], n>> \in heap
Nothing(g, n) == \A j \in 1..4 : <<g[j], n>> \notin heap
Owned(g) == \A j \in 1..4 : ptr[g[j]] = try /\ <<g[j], try>> \in heap
Partial(g) ==
  \A j \in 1..4 :
    /\ j < i => \/ ptr[g[j]] = try /\ <<g[j], try>> \in heap
                \/ ptr[g[j]] = 0 /\ <<g[j], try>> \notin heap
    /\ j >= i => <<g[j], try>> \notin heap

TriesInv ==
  /\ at \notin {"eth", "lwip"} => i = 1
  /\ \A g \in Groups, n \in Nat : n # try \/ at = "fail" => All(g, n) \/ Nothing(g, n)
  /\ at = "eth" => Partial(EthMem) /\ Nothing(LwipMem, try)
  /\ at = "lwip" => Owned(EthMem) /\ Partial(LwipMem)
  /\ at \in {"phy", "tcpip", "up"} => Owned(EthMem) /\ Owned(LwipMem)

(* Nothing happens above the driver before the kernel runs.                 *)
QuietInv ==
  /\ at # "up" => /\ conn = [c \in Conn |-> FreeConn] /\ al = None /\ ac = None
                  /\ acceptq = <<>> /\ srv = "new" /\ lis = None /\ cl = None /\ tmbox = 0
                  /\ evFree = MaxEvents - TmrEvents /\ qFree = MaxQs
  /\ at = "up" => tmbox # 0

(* What a netconn has, by the place of whoever works on it.                 *)
AllocInv ==
  /\ al = None <=> ac = None
  /\ ac # None =>
       /\ conn[ac].st = "open"
       /\ conn[ac].sem <=> al \notin {"sem", "undoconn"}
       /\ conn[ac].mbox # 0 <=> al \in {"event", "queue", "done", "undomem"}
       /\ conn[ac].q <=> al = "done"
ServeInv ==
  /\ cl # None <=> srv \in {"serve", "sem", "conn"}
  /\ cl # None =>
       /\ conn[cl].st = "open" /\ (conn[cl].sem <=> srv # "conn")
       /\ (conn[cl].mbox # 0 <=> srv = "serve") /\ (conn[cl].q <=> srv = "serve")
Full(c) == conn[c].st = "open" /\ conn[c].sem /\ conn[c].mbox # 0 /\ conn[c].q
QueueInv ==
  /\ \A j \in 1..Len(acceptq) : Full(acceptq[j]) /\ acceptq[j] \notin {ac, cl}
  /\ \A j, k \in 1..Len(acceptq) : acceptq[j] = acceptq[k] => j = k
FreeInv ==
  /\ ac # None => ac # cl
  /\ \A c \in Conn : conn[c].st = "free" => ~conn[c].sem /\ conn[c].mbox = 0 /\ ~conn[c].q
NetconnInv == AllocInv /\ ServeInv /\ QueueInv /\ FreeInv

(* A mailbox of the pool is tcpip_thread's or a netconn's, and of one.      *)
MboxInv ==
  /\ \A n \in Nat : <<"mbox", n>> \in heap <=> n # 0 /\ (n = tmbox \/ \E c \in Conn : conn[c].mbox = n)
  /\ \A c, d \in Conn : c # d /\ conn[c].mbox # 0 => conn[c].mbox # conn[d].mbox
  /\ \A c \in Conn : conn[c].mbox # 0 => conn[c].mbox # tmbox

Sems == {c \in Conn : conn[c].sem}
Qs == {c \in Conn : conn[c].q}
Started == IF at = "up" THEN 1 ELSE 0
CountInv ==
  /\ evFree + TmrEvents + 2 * Started + Cardinality(Sems) + Cardinality(Qs) + Held = MaxEvents
  /\ qFree + Started + Cardinality(Qs) = MaxQs

IInv == Types /\ TriesInv /\ QuietInv /\ NetconnInv /\ MboxInv /\ CountInv

-----------------------------------------------------------------------------
(* The constants, and what the invariant says of the properties.            *)

LEMMA GroupFacts ==
  /\ \A j \in 1..4 : EthMem[j] \in Piece /\ LwipMem[j] \in Piece
  /\ DOMAIN EthMem = 1..4 /\ DOMAIN LwipMem = 1..4
  /\ Len(EthMem) = 4 /\ Len(LwipMem) = 4
<1>1. DOMAIN EthMem = 1..4 /\ DOMAIN LwipMem = 1..4
  BY StartUpAssumption
<1> QED
  BY <1>1, StartUpAssumption DEF Piece

LEMMA PieceOfGroup ==
  ASSUME NEW p \in Piece
  PROVE  \E j \in 1..4 : p = EthMem[j] \/ p = LwipMem[j]
BY GroupFacts DEF Piece

LEMMA Different ==
  /\ \A j, k \in 1..4 : EthMem[j] = EthMem[k] => j = k
  /\ \A j, k \in 1..4 : LwipMem[j] = LwipMem[k] => j = k
  /\ \A j, k \in 1..4 : EthMem[j] # LwipMem[k]
  /\ \A p \in Piece : p # "mbox"
BY StartUpAssumption

(* A number that no run of these pieces has exists: the pool has fewer runs *)
(* than there are numbers to choose from.                                   *)
LEMMA NewNumberFree ==
  ASSUME HeapType, NEW S
  PROVE  NewNumber(S) \in Nat \ {0} /\ \A p \in S : <<p, NewNumber(S)>> \notin heap
<1> DEFINE N == Cardinality(heap)
           ok(n) == \A p \in S : <<p, n>> \notin heap
<1>1. IsFiniteSet(heap) /\ N \in Nat
  BY FS_CardinalityType DEF HeapType
<1>2. \E n \in 1..(N + 1) : ok(n)
  <2> SUFFICES ASSUME \A n \in 1..(N + 1) : ~ok(n) PROVE FALSE
    OBVIOUS
  <2> DEFINE T == {r[2] : r \in heap}
             f == [r \in heap |-> r[2]]
  <2>1. f \in Surjection(heap, T)
    BY DEF Surjection
  <2>2. IsFiniteSet(T) /\ Cardinality(T) <= N
    BY <1>1, <2>1, FS_Surjection
  <2>3. 1..(N + 1) \subseteq T
    <3> SUFFICES ASSUME NEW n \in 1..(N + 1) PROVE n \in T
      OBVIOUS
    <3>1. PICK p \in S : <<p, n>> \in heap
      OBVIOUS
    <3>2. <<p, n>>[2] = n
      OBVIOUS
    <3> QED
      BY <3>1, <3>2
  <2>4. Cardinality(1..(N + 1)) = N + 1
    BY <1>1, FS_Interval
  <2>5. Cardinality(1..(N + 1)) <= Cardinality(T)
    BY <2>2, <2>3, FS_Subset
  <2>6. Cardinality(T) \in Nat
    BY <2>2, FS_CardinalityType
  <2> QED
    BY <1>1, <2>2, <2>4, <2>5, <2>6
<1>3. NewNumber(S) = CHOOSE n \in 1..(N + 1) : ok(n)
  BY DEF NewNumber
<1>4. NewNumber(S) \in 1..(N + 1) /\ ok(NewNumber(S))
  BY <1>2, <1>3
<1> QED
  BY <1>1, <1>4

LEMMA Counts ==
  ASSUME ConnType
  PROVE  /\ IsFiniteSet(Sems) /\ Cardinality(Sems) \in Nat
         /\ IsFiniteSet(Qs) /\ Cardinality(Qs) \in Nat
<1>1. Sems \subseteq Conn /\ Qs \subseteq Conn
  BY DEF Sems, Qs
<1> QED
  BY <1>1, StartUpAssumption, FS_Subset, FS_CardinalityType

LEMMA WithFacts == With("sem") = Cardinality(Sems) /\ With("q") = Cardinality(Qs)
BY DEF With, Sems, Qs

LEMMA InvTypeOK == Types /\ CountInv => TypeOK
<1> SUFFICES ASSUME Types, CountInv PROVE TypeOK
  OBVIOUS
<1>1. evFree \in 0..MaxEvents /\ qFree \in 0..MaxQs
  <2>1. Held \in Nat /\ Started \in Nat /\ evFree \in Nat /\ qFree \in Nat
    BY DEF Held, Started, Types, FreeType
  <2> QED
    BY <2>1, Counts, StartUpAssumption DEF CountInv, Types, TmrEvents
<1> QED
  BY <1>1 DEF TypeOK, Types, BootType, HeapType, ConnType, Places, Netconn

LEMMA InvBootMemory == Types /\ TriesInv => BootMemory
<1> SUFFICES ASSUME Types, TriesInv PROVE BootMemory
  OBVIOUS
<1>1. \A r \in heap : r[2] \in Nat
  BY DEF Types, HeapType
<1>2. \A g \in Groups, n \in Nat : (n = try => at \notin {"eth", "lwip"}) => All(g, n) \/ Nothing(g, n)
  <2> SUFFICES ASSUME NEW g \in Groups, NEW n \in Nat, n = try => at \notin {"eth", "lwip"}
               PROVE  All(g, n) \/ Nothing(g, n)
    OBVIOUS
  <2>1. CASE n # try \/ at = "fail"
    BY <2>1 DEF TriesInv
  <2>2. CASE n = try /\ at \in {"phy", "tcpip", "up"}
    BY <2>2 DEF TriesInv, Owned, All, Groups
  <2> QED
    BY <2>1, <2>2 DEF Types, BootType, Places
<1>3. \A g \in Groups : DOMAIN g = 1..4
  BY GroupFacts DEF Groups
<1>4. at \in {"phy", "tcpip", "up"} => \A p \in Piece : <<p, ptr[p]>> \in heap
  BY PieceOfGroup DEF TriesInv, Owned
<1> QED
  BY <1>1, <1>2, <1>3, <1>4 DEF BootMemory, All, Nothing, Groups

LEMMA InvResources == Types /\ MboxInv /\ CountInv => ResourcesOwned
<1> SUFFICES ASSUME Types, MboxInv, CountInv PROVE ResourcesOwned
  OBVIOUS
<1>0. tmbox \in Nat /\ \A c \in Conn : conn[c].mbox \in Nat
  BY DEF Types, BootType, ConnType, Netconn
<1>1. \A c, d \in Conn : c # d /\ conn[c].mbox # 0 => conn[c].mbox \notin {conn[d].mbox, tmbox}
  BY DEF MboxInv
<1>2. \A r \in heap : r[1] = "mbox" => r[2] \in Nat /\ r = <<"mbox", r[2]>>
  BY DEF Types, HeapType
<1>3. {r[2] : r \in {x \in heap : x[1] = "mbox"}} = ({conn[c].mbox : c \in Conn} \cup {tmbox}) \ {0}
  <2> DEFINE L == {r[2] : r \in {x \in heap : x[1] = "mbox"}}
             R == ({conn[c].mbox : c \in Conn} \cup {tmbox}) \ {0}
  <2>1. ASSUME NEW n \in L PROVE n \in R
    BY <1>2 DEF MboxInv
  <2>2. ASSUME NEW n \in R PROVE n \in L
    <3>1. <<"mbox", n>> \in heap
      BY <1>0 DEF MboxInv
    <3>2. <<"mbox", n>>[1] = "mbox" /\ <<"mbox", n>>[2] = n
      OBVIOUS
    <3> QED
      BY <3>1, <3>2
  <2> QED
    BY <2>1, <2>2
<1>4. /\ evFree + TmrEvents + Started * (MutexEvents + 1) + With("sem") + With("q") + Held = MaxEvents
      /\ qFree + Started + With("q") = MaxQs
  BY WithFacts, Counts DEF CountInv, MutexEvents, Started, Types
<1> QED
  BY <1>1, <1>3, <1>4 DEF ResourcesOwned, Started

-----------------------------------------------------------------------------
(* What a step changes.                                                     *)

Only(c) == \A d \in Conn \ {c} : conn'[d] = conn[d]

LEMMA SetField ==
  ASSUME conn \in [Conn -> Netconn], NEW c \in Conn
  PROVE  /\ \A v \in {"free", "open"} : Set(c, "st", v) =>
              /\ conn' \in [Conn -> Netconn] /\ Only(c) /\ conn'[c].st = v
              /\ conn'[c].sem = conn[c].sem /\ conn'[c].mbox = conn[c].mbox /\ conn'[c].q = conn[c].q
         /\ \A v \in BOOLEAN : Set(c, "sem", v) =>
              /\ conn' \in [Conn -> Netconn] /\ Only(c) /\ conn'[c].sem = v
              /\ conn'[c].st = conn[c].st /\ conn'[c].mbox = conn[c].mbox /\ conn'[c].q = conn[c].q
         /\ \A v \in Nat : Set(c, "mbox", v) =>
              /\ conn' \in [Conn -> Netconn] /\ Only(c) /\ conn'[c].mbox = v
              /\ conn'[c].st = conn[c].st /\ conn'[c].sem = conn[c].sem /\ conn'[c].q = conn[c].q
         /\ \A v \in BOOLEAN : Set(c, "q", v) =>
              /\ conn' \in [Conn -> Netconn] /\ Only(c) /\ conn'[c].q = v
              /\ conn'[c].st = conn[c].st /\ conn'[c].sem = conn[c].sem /\ conn'[c].mbox = conn[c].mbox
<1> USE DEF Netconn, Set, Only
<1>1. conn[c] \in Netconn
  OBVIOUS
<1>2. ASSUME NEW v \in {"free", "open"}, Set(c, "st", v)
      PROVE  /\ conn' \in [Conn -> Netconn] /\ Only(c) /\ conn'[c].st = v
             /\ conn'[c].sem = conn[c].sem /\ conn'[c].mbox = conn[c].mbox /\ conn'[c].q = conn[c].q
  BY <1>1, <1>2
<1>3. ASSUME NEW v \in BOOLEAN, Set(c, "sem", v)
      PROVE  /\ conn' \in [Conn -> Netconn] /\ Only(c) /\ conn'[c].sem = v
             /\ conn'[c].st = conn[c].st /\ conn'[c].mbox = conn[c].mbox /\ conn'[c].q = conn[c].q
  BY <1>1, <1>3
<1>4. ASSUME NEW v \in Nat, Set(c, "mbox", v)
      PROVE  /\ conn' \in [Conn -> Netconn] /\ Only(c) /\ conn'[c].mbox = v
             /\ conn'[c].st = conn[c].st /\ conn'[c].sem = conn[c].sem /\ conn'[c].q = conn[c].q
  BY <1>1, <1>4
<1>5. ASSUME NEW v \in BOOLEAN, Set(c, "q", v)
      PROVE  /\ conn' \in [Conn -> Netconn] /\ Only(c) /\ conn'[c].q = v
             /\ conn'[c].st = conn[c].st /\ conn'[c].sem = conn[c].sem /\ conn'[c].mbox = conn[c].mbox
  BY <1>1, <1>5
<1> QED
  BY <1>2, <1>3, <1>4, <1>5

LEMMA DelFields ==
  ASSUME conn \in [Conn -> Netconn], NEW c \in Conn,
         conn' = [conn EXCEPT ![c] = [@ EXCEPT !.mbox = 0, !.q = FALSE]]
  PROVE  /\ conn' \in [Conn -> Netconn] /\ Only(c) /\ conn'[c].mbox = 0 /\ conn'[c].q = FALSE
         /\ conn'[c].st = conn[c].st /\ conn'[c].sem = conn[c].sem
BY DEF Netconn, Only

LEMMA NoneIsNoConn == None \notin Conn
BY StartUpAssumption

(* Places of netconn_alloc that have a netconn.                             *)
LEMMA AtWork ==
  ASSUME ConnType, AllocInv, al # None
  PROVE  ac \in Conn /\ ac # None
BY NoneIsNoConn DEF ConnType, AllocInv

LEMMA AtServe ==
  ASSUME ConnType, ServeInv, srv \in {"serve", "sem", "conn"}
  PROVE  cl \in Conn /\ cl # None
BY NoneIsNoConn DEF ConnType, ServeInv

(* A run more or less in the pool.                                          *)
LEMMA HeapMore ==
  ASSUME HeapType, NEW p \in Piece \cup {"mbox"}, NEW n \in Nat \ {0}, heap' = heap \cup {<<p, n>>}
  PROVE  HeapType'
<1>1. IsFiniteSet(heap')
  BY FS_AddElement DEF HeapType
<1>2. <<p, n>> \in (Piece \cup {"mbox"}) \X Nat /\ <<p, n>>[2] # 0
  OBVIOUS
<1> QED
  BY <1>1, <1>2 DEF HeapType

LEMMA HeapLess ==
  ASSUME HeapType, heap' \subseteq heap
  PROVE  HeapType'
BY FS_Subset DEF HeapType

-----------------------------------------------------------------------------
(* Types.                                                                   *)

LEMMA GroupIs ==
  ASSUME at \in {"eth", "lwip"}
  PROVE  /\ DOMAIN Group = 1..4 /\ Len(Group) = 4 /\ \A j \in 1..4 : Group[j] \in Piece
         /\ Group = IF at = "eth" THEN EthMem ELSE LwipMem
BY GroupFacts DEF Group

LEMMA TypesBoot ==
  ASSUME Types, QuietInv, Boot \/ Cable
  PROVE  Types'
<1> USE DEF Types
<1>1. CASE BootMalloc
  <2> DEFINE p == Group[i]
  <2>1. p \in Piece /\ i \in 1..4
    BY <1>1, GroupIs DEF BootMalloc
  <2>2. HeapType'
    <3>1. CASE heap' = heap
      BY <3>1, HeapLess
    <3>2. CASE heap' = heap \cup {<<p, try>>}
      BY <2>1, <3>2, HeapMore DEF BootType
    <3> QED
      BY <1>1, <3>1, <3>2 DEF BootMalloc
  <2>3. BootType'
    <3>1. i' \in 1..5
      BY <1>1, <2>1 DEF BootMalloc
    <3>2. ptr' \in [Piece -> Nat]
      BY <1>1, <2>1 DEF BootMalloc, BootType
    <3> QED
      BY <1>1, <3>1, <3>2 DEF BootMalloc, BootType
  <2> QED
    BY <1>1, <2>2, <2>3 DEF BootMalloc, ConnType, FreeType, object, server
<1>2. CASE BootTest
  BY <1>2, HeapLess DEF BootTest, BootType, ConnType, FreeType, object, server, Places
<1>3. CASE BootPhy
  BY <1>3, HeapLess DEF BootPhy, BootType, ConnType, FreeType, object, server, Places
<1>4. CASE BootTcpip
  <2>1. NewMbox \in Nat \ {0}
    BY NewNumberFree DEF NewMbox
  <2>2. HeapType'
    BY <1>4, <2>1, HeapMore DEF BootTcpip
  <2>3. FreeType'
    BY <1>4, StartUpAssumption DEF BootTcpip, QuietInv, FreeType, TmrEvents, MutexEvents
  <2> QED
    BY <1>4, <2>1, <2>2, <2>3 DEF BootTcpip, BootType, ConnType, server, Places
<1>5. CASE BootRetry
  <2>1. NewNumber(Piece) \in Nat \ {0}
    BY NewNumberFree
  <2>2. HeapType'
    BY <1>5, HeapLess DEF BootRetry
  <2> QED
    BY <1>5, <2>1, <2>2 DEF BootRetry, BootType, ConnType, FreeType, object, server, Places
<1>6. CASE Cable
  BY <1>6, HeapLess DEF Cable, BootType, ConnType, FreeType, object, server, Places
<1> QED
  BY <1>1, <1>2, <1>3, <1>4, <1>5, <1>6 DEF Boot

LEMMA TypesAlloc ==
  ASSUME Types, AllocInv, Alloc
  PROVE  Types'
<1> USE DEF Types
<1>0. BootType'
  BY DEF BootType, Alloc, AllocConn, AllocSem, AllocMem, AllocEvent, AllocQueue, AllocDone,
         UndoMem, UndoSem, UndoConn, boot
<1>1. CASE AllocConn
  <2>1. PICK c \in Conn : ac' = c /\ Set(c, "st", "open")
    BY <1>1 DEF AllocConn
  <2>2. conn' \in [Conn -> Netconn]
    BY <2>1, SetField DEF ConnType
  <2> QED
    BY <1>0, <1>1, <2>1, <2>2, HeapLess DEF AllocConn, ConnType, FreeType, object, server
<1>2. CASE AllocSem
  <2>1. conn' \in [Conn -> Netconn]
    BY <1>2, AtWork, NoneIsNoConn, SetField DEF AllocSem, ConnType, None
  <2>2. FreeType'
    <3>1. (evFree' = evFree \/ (evFree > 0 /\ evFree' = evFree - 1)) /\ qFree' = qFree
      BY <1>2, Zenon DEF AllocSem
    <3> QED
      BY <3>1 DEF FreeType
  <2> QED
    BY <1>0, <1>2, <2>1, <2>2, HeapLess DEF AllocSem, ConnType, server
<1>3. CASE AllocMem
  <2>1. NewMbox \in Nat \ {0}
    BY NewNumberFree DEF NewMbox
  <2>2. conn' \in [Conn -> Netconn]
    BY <1>3, <2>1, AtWork, NoneIsNoConn, SetField DEF AllocMem, ConnType, None
  <2>3. HeapType'
    BY <1>3, <2>1, HeapMore, HeapLess DEF AllocMem
  <2> QED
    BY <1>0, <1>3, <2>2, <2>3 DEF AllocMem, ConnType, FreeType, object, server
<1>4. CASE AllocEvent
  <2>1. FreeType'
    BY <1>4 DEF AllocEvent, FreeType
  <2> QED
    BY <1>0, <1>4, <2>1, HeapLess DEF AllocEvent, ConnType, server
<1>5. CASE AllocQueue
  <2>1. conn' \in [Conn -> Netconn]
    BY <1>5, AtWork, NoneIsNoConn, SetField DEF AllocQueue, ConnType, None
  <2>2. FreeType'
    <3>1. \/ qFree > 0 /\ qFree' = qFree - 1 /\ evFree' = evFree
          \/ evFree' = evFree + 1 /\ qFree' = qFree
      BY <1>5, Zenon DEF AllocQueue
    <3> QED
      BY <3>1 DEF FreeType
  <2> QED
    BY <1>0, <1>5, <2>1, <2>2, HeapLess DEF AllocQueue, ConnType, server
<1>6. CASE AllocDone
  <2>1. acceptq' \in Seq(Conn)
    BY <1>6, AtWork, AppendProperties DEF AllocDone, ConnType, None
  <2> QED
    BY <1>0, <1>6, <2>1, HeapLess DEF AllocDone, ConnType, FreeType, object, server
<1>8. CASE UndoMem
  <2>1. conn' \in [Conn -> Netconn]
    BY <1>8, AtWork, NoneIsNoConn, SetField DEF UndoMem, ConnType, None
  <2> QED
    BY <1>0, <1>8, <2>1, HeapLess DEF UndoMem, ConnType, FreeType, object, server
<1>9. CASE UndoSem
  <2>1. conn' \in [Conn -> Netconn]
    BY <1>9, AtWork, NoneIsNoConn, SetField DEF UndoSem, ConnType, None
  <2> QED
    BY <1>0, <1>9, <2>1, HeapLess DEF UndoSem, ConnType, FreeType, server
<1>10. CASE UndoConn
  <2>1. conn' \in [Conn -> Netconn]
    BY <1>10, AtWork, NoneIsNoConn, SetField DEF UndoConn, ConnType, None
  <2> QED
    BY <1>0, <1>10, <2>1, HeapLess DEF UndoConn, ConnType, FreeType, object
<1> QED
  BY <1>1, <1>2, <1>3, <1>4, <1>5, <1>6, <1>8, <1>9, <1>10 DEF Alloc

LEMMA TypesServer ==
  ASSUME Types, ServeInv, Server \/ DelConn \/ Decode
  PROVE  Types'
<1> USE DEF Types
<1>0. BootType'
  BY DEF BootType, Server, Listen, Accept, DelConn, DelSem, DelFree, Decode, boot
<1>1. CASE Listen
  BY <1>0, <1>1, HeapLess DEF Listen, ConnType, FreeType, object
<1>2. CASE Accept
  <2>1. Head(acceptq) \in Conn /\ Tail(acceptq) \in Seq(Conn)
    BY <1>2, HeadTailProperties DEF Accept, ConnType
  <2> QED
    BY <1>0, <1>2, <2>1, HeapLess DEF Accept, ConnType, FreeType, object
<1>3. CASE DelConn
  <2>1. conn' \in [Conn -> Netconn]
    BY <1>3, AtServe, DelFields DEF DelConn, ConnType
  <2> QED
    BY <1>0, <1>3, <2>1, HeapLess DEF DelConn, ConnType, FreeType
<1>4. CASE DelSem
  <2>1. conn' \in [Conn -> Netconn]
    BY <1>4, AtServe, SetField DEF DelSem, ConnType
  <2> QED
    BY <1>0, <1>4, <2>1, HeapLess DEF DelSem, ConnType, FreeType
<1>5. CASE DelFree
  <2>1. conn' \in [Conn -> Netconn]
    BY <1>5, AtServe, SetField DEF DelFree, ConnType
  <2> QED
    BY <1>0, <1>5, <2>1, HeapLess DEF DelFree, ConnType, FreeType, object
<1>6. CASE Decode
  BY <1>0, <1>6, HeapLess DEF Decode, ConnType, FreeType, object, server
<1> QED
  BY <1>1, <1>2, <1>3, <1>4, <1>5, <1>6 DEF Server

-----------------------------------------------------------------------------
(* Tries of lwip_comm_init.                                                 *)

LEMMA TriesKept ==
  ASSUME BootType, TriesInv, UNCHANGED <<at, i, try, ptr>>,
         \A p \in Piece, n \in Nat : <<p, n>> \in heap' <=> <<p, n>> \in heap
  PROVE  TriesInv'
<1>1. \A g \in Groups, n \in Nat, j \in 1..4 : <<g[j], n>> \in heap' <=> <<g[j], n>> \in heap
  BY GroupFacts DEF Groups
<1>2. \A g \in Groups, n \in Nat : (All(g, n)' <=> All(g, n)) /\ (Nothing(g, n)' <=> Nothing(g, n))
  BY <1>1 DEF All, Nothing
<1>3. \A g \in Groups : (Owned(g)' <=> Owned(g)) /\ (Partial(g)' <=> Partial(g))
  BY <1>1 DEF Owned, Partial, BootType
<1>4. EthMem \in Groups /\ LwipMem \in Groups /\ try \in Nat
  BY DEF Groups, BootType
<1> QED
  BY <1>2, <1>3, <1>4 DEF TriesInv

LEMMA TriesMalloc ==
  ASSUME Types, TriesInv, BootMalloc
  PROVE  TriesInv'
<1> DEFINE p == Group[i]
<1>1. /\ at \in {"eth", "lwip"} /\ i \in 1..4 /\ p \in Piece /\ i' = i + 1
      /\ UNCHANGED <<at, try>> /\ Group = IF at = "eth" THEN EthMem ELSE LwipMem
      /\ try \in Nat /\ try # 0 /\ ptr \in [Piece -> Nat]
  BY GroupIs DEF BootMalloc, Types, BootType
<1>2. \/ heap' = heap \cup {<<p, try>>} /\ ptr' = [ptr EXCEPT ![p] = try]
      \/ heap' = heap /\ ptr' = [ptr EXCEPT ![p] = 0]
  BY DEF BootMalloc
<1>3. \A x \in Piece, n \in Nat : (x # p \/ n # try) => (<<x, n>> \in heap' <=> <<x, n>> \in heap)
  BY <1>2
<1>4. \A x \in Piece : x # p => ptr'[x] = ptr[x]
  BY <1>1, <1>2
<1>5. \/ <<p, try>> \in heap' /\ ptr'[p] = try
      \/ (<<p, try>> \in heap' <=> <<p, try>> \in heap) /\ ptr'[p] = 0
  BY <1>1, <1>2
<1>6. \A g \in Groups, n \in Nat : n # try => (All(g, n)' <=> All(g, n)) /\ (Nothing(g, n)' <=> Nothing(g, n))
  <2>1. \A g \in Groups, j \in 1..4 : g[j] \in Piece
    BY GroupFacts DEF Groups
  <2> QED
    BY <1>3, <2>1 DEF All, Nothing
<1>7. ASSUME NEW g \in Groups, g = Group, Partial(g)
      PROVE  Partial(g)'
  <2>1. \A j \in 1..4 : g[j] \in Piece /\ (j # i => g[j] # p)
    BY <1>1, <1>7, GroupFacts, Different DEF Groups
  <2> SUFFICES ASSUME NEW j \in 1..4
               PROVE  /\ j < i' => \/ ptr'[g[j]] = try' /\ <<g[j], try'>> \in heap'
                                   \/ ptr'[g[j]] = 0 /\ <<g[j], try'>> \notin heap'
                      /\ j >= i' => <<g[j], try'>> \notin heap'
    BY DEF Partial
  <2>2. CASE j = i
    BY <1>1, <1>5, <1>7, <2>2 DEF Partial
  <2>3. CASE j # i
    BY <1>1, <1>3, <1>4, <1>7, <2>1, <2>3 DEF Partial
  <2> QED
    BY <2>2, <2>3
<1>8. at = "eth" => Nothing(LwipMem, try)'
  BY <1>1, <1>3, GroupFacts, Different DEF Nothing, TriesInv
<1>9. at = "lwip" => Owned(EthMem)'
  BY <1>1, <1>3, <1>4, GroupFacts, Different DEF Owned, TriesInv
<1> QED
  BY <1>1, <1>6, <1>7, <1>8, <1>9 DEF TriesInv, Groups

LEMMA TriesTest ==
  ASSUME Types, TriesInv, BootTest
  PROVE  TriesInv'
<1>0. PICK g \in Groups : g = Group
  BY DEF Group, Groups
<1>1. /\ at \in {"eth", "lwip"} /\ i = 5 /\ i' = 1 /\ UNCHANGED <<try, ptr>>
      /\ g = (IF at = "eth" THEN EthMem ELSE LwipMem) /\ g \in Groups /\ DOMAIN g = 1..4
      /\ try \in Nat /\ try # 0 /\ ptr \in [Piece -> Nat] /\ \A j \in 1..4 : g[j] \in Piece
  BY <1>0, GroupIs DEF BootTest, Types, BootType, Groups
<1>2. \A j \in 1..4 : \/ ptr[g[j]] = try /\ <<g[j], try>> \in heap
                      \/ ptr[g[j]] = 0 /\ <<g[j], try>> \notin heap
  BY <1>1 DEF TriesInv, Partial
<1>3. \A r \in heap : r[2] # 0
  BY DEF Types, HeapType
<1>4. CASE Missing(g)
  <2>1. heap' = heap \ Runs(g) /\ at' = "fail"
    BY <1>0, <1>4 DEF BootTest
  <2>2. \A x \in Piece, n \in Nat :
          <<x, n>> \in heap' <=> <<x, n>> \in heap /\ ~(n = try /\ \E j \in 1..4 : g[j] = x)
    <3> SUFFICES ASSUME NEW x \in Piece, NEW n \in Nat, <<x, n>> \in heap
                 PROVE  <<x, n>> \in Runs(g) <=> n = try /\ \E j \in 1..4 : g[j] = x
      BY <2>1
    <3>1. n # 0
      <4>1. <<x, n>>[2] = n
        OBVIOUS
      <4> QED
        BY <1>3, <4>1
    <3> QED
      BY <1>1, <1>2, <3>1 DEF Runs
  <2>3. \A h \in Groups, n \in Nat : n # try => (All(h, n)' <=> All(h, n)) /\ (Nothing(h, n)' <=> Nothing(h, n))
    <3>1. \A h \in Groups, j \in 1..4 : h[j] \in Piece
      BY GroupFacts DEF Groups
    <3>2. \A h \in Groups, n \in Nat, j \in 1..4 : n # try => (<<h[j], n>> \in heap' <=> <<h[j], n>> \in heap)
      BY <2>2, <3>1
    <3> QED
      BY <3>2 DEF All, Nothing
  <2>4. Nothing(g, try)'
    BY <1>1, <2>2 DEF Nothing
  <2>5. \A h \in Groups : h # g => All(h, try)' \/ Nothing(h, try)'
    <3>1. CASE at = "eth"
      BY <1>1, <2>2, <3>1, GroupFacts, Different DEF TriesInv, Nothing, Groups
    <3>2. CASE at = "lwip"
      <4>1. Owned(EthMem) /\ g = LwipMem
        BY <1>1, <3>2 DEF TriesInv
      <4>2. \A j \in 1..4 : <<EthMem[j], try>> \in heap'
        BY <1>1, <2>2, <4>1, GroupFacts, Different DEF Owned
      <4> QED
        BY <1>1, <4>1, <4>2 DEF All, Groups
    <3> QED
      BY <1>1, <3>1, <3>2
  <2> QED
    BY <1>1, <2>1, <2>3, <2>4, <2>5 DEF TriesInv
<1>5. CASE ~Missing(g)
  <2>1. heap' = heap /\ at' = IF at = "eth" THEN "lwip" ELSE "phy"
    BY <1>0, <1>5 DEF BootTest
  <2>2. Owned(g)
    BY <1>1, <1>2, <1>5 DEF Missing, Owned
  <2>3. \A h \in Groups, n \in Nat : (All(h, n)' <=> All(h, n)) /\ (Nothing(h, n)' <=> Nothing(h, n))
    BY <2>1 DEF All, Nothing
  <2>4. \A h \in Groups : Owned(h)' <=> Owned(h)
    BY <1>1, <2>1 DEF Owned
  <2>5. at = "eth" => Partial(LwipMem)'
    <3>1. at = "eth" => Nothing(LwipMem, try)
      BY DEF TriesInv
    <3>2. heap' = heap /\ try' = try /\ i' = 1
      BY <1>1, <2>1
    <3> QED
      BY <3>1, <3>2 DEF Nothing, Partial
  <2> QED
    BY <1>1, <2>1, <2>2, <2>3, <2>4, <2>5 DEF TriesInv, Groups
<1> QED
  BY <1>4, <1>5

LEMMA TriesBoot ==
  ASSUME Types, TriesInv, BootPhy \/ BootTcpip \/ BootRetry \/ Cable
  PROVE  TriesInv'
<1>0. BootType /\ try \in Nat /\ i \in 1..5
  BY DEF Types, BootType
<1>1. CASE BootPhy
  <2>1. UNCHANGED <<i, try, ptr, heap>> /\ at = "phy" /\ at' \in {"fail", "tcpip"}
    BY <1>1 DEF BootPhy
  <2>2. \A g \in Groups : Owned(g) => All(g, try)
    BY DEF Owned, All
  <2>3. \A g \in Groups, n \in Nat : (All(g, n)' <=> All(g, n)) /\ (Nothing(g, n)' <=> Nothing(g, n))
    BY <2>1 DEF All, Nothing
  <2>4. \A g \in Groups : Owned(g)' <=> Owned(g)
    BY <2>1 DEF Owned
  <2> QED
    BY <1>0, <2>1, <2>2, <2>3, <2>4 DEF TriesInv, Groups
<1>2. CASE BootTcpip
  <2>1. UNCHANGED <<i, try, ptr>> /\ at = "tcpip" /\ at' = "up" /\ heap' = heap \cup {<<"mbox", NewMbox>>}
    BY <1>2 DEF BootTcpip
  <2>2. \A g \in Groups, n \in Nat, j \in 1..4 : <<g[j], n>> \in heap' <=> <<g[j], n>> \in heap
    BY <2>1, GroupFacts, Different DEF Groups
  <2>3. \A g \in Groups, n \in Nat : (All(g, n)' <=> All(g, n)) /\ (Nothing(g, n)' <=> Nothing(g, n))
    BY <2>2 DEF All, Nothing
  <2>4. \A g \in Groups : Owned(g)' <=> Owned(g)
    BY <1>0, <2>1, <2>2 DEF Owned
  <2> QED
    BY <1>0, <2>1, <2>3, <2>4 DEF TriesInv, Groups
<1>3. CASE BootRetry
  <2>1. UNCHANGED <<i, ptr, heap>> /\ at = "fail" /\ at' = "eth" /\ try' = NewNumber(Piece)
    BY <1>3 DEF BootRetry
  <2>2. \A p \in Piece : <<p, try'>> \notin heap
    BY <2>1, NewNumberFree DEF Types
  <2>3. \A g \in Groups, n \in Nat : (All(g, n)' <=> All(g, n)) /\ (Nothing(g, n)' <=> Nothing(g, n))
    BY <2>1 DEF All, Nothing
  <2>4. Partial(EthMem)' /\ Nothing(LwipMem, try)'
    BY <2>1, <2>2, GroupFacts DEF Partial, Nothing, TriesInv
  <2> QED
    BY <2>1, <2>3, <2>4 DEF TriesInv
<1>4. CASE Cable
  BY <1>0, <1>4, TriesKept DEF Cable
<1> QED
  BY <1>1, <1>2, <1>3, <1>4

(* The netconns and their mailboxes do not touch what lwip_comm_init took.  *)
LEMMA TriesUp ==
  ASSUME Types, TriesInv, Alloc \/ Server \/ DelConn \/ Decode
  PROVE  TriesInv'
<1>1. UNCHANGED <<at, i, try, ptr>>
  BY DEF Alloc, AllocConn, AllocSem, AllocMem, AllocEvent, AllocQueue, AllocDone,
         UndoMem, UndoSem, UndoConn, Server, Listen, Accept, DelConn, DelSem, DelFree, Decode, boot
<1>2. heap' = heap \/ \E n : heap' = heap \cup {<<"mbox", n>>} \/ heap' = heap \ {<<"mbox", n>>}
  BY Zenon
     DEF Alloc, AllocConn, AllocSem, AllocMem, AllocEvent, AllocQueue, AllocDone,
         UndoMem, UndoSem, UndoConn, Server, Listen, Accept, DelConn, DelSem, DelFree, Decode
<1>3. \A p \in Piece, n \in Nat : <<p, n>> \in heap' <=> <<p, n>> \in heap
  BY <1>2, Different
<1> QED
  BY <1>1, <1>3, TriesKept DEF Types

-----------------------------------------------------------------------------
(* Nothing above the driver before the kernel runs.                         *)

LEMMA UpFirst ==
  ASSUME QuietInv, Alloc \/ Server \/ DelConn \/ Decode
  PROVE  at = "up" /\ UNCHANGED <<at, tmbox>>
<1>1. UNCHANGED <<at, tmbox>>
  BY DEF Alloc, AllocConn, AllocSem, AllocMem, AllocEvent, AllocQueue, AllocDone,
         UndoMem, UndoSem, UndoConn, Server, Listen, Accept, DelConn, DelSem, DelFree, Decode, boot
<1>2. CASE AllocConn \/ Decode
  BY <1>1, <1>2 DEF AllocConn, Decode
<1>3. CASE AllocSem \/ AllocMem \/ AllocEvent \/ AllocQueue \/ AllocDone
  BY <1>1, <1>3 DEF QuietInv, None, AllocSem, AllocMem, AllocEvent, AllocQueue, AllocDone
<1>4. CASE UndoMem \/ UndoSem \/ UndoConn
  BY <1>1, <1>4 DEF QuietInv, None, UndoMem, UndoSem, UndoConn
<1>5. CASE Server \/ DelConn
  BY <1>1, <1>5 DEF QuietInv, None, Server, Listen, Accept, DelConn, DelSem, DelFree
<1> QED
  BY <1>2, <1>3, <1>4, <1>5 DEF Alloc

LEMMA QuietNext ==
  ASSUME Types, QuietInv, Next
  PROVE  QuietInv'
<1>1. CASE BootTcpip
  <2>1. NewMbox # 0
    BY NewNumberFree DEF NewMbox, Types
  <2> QED
    BY <1>1, <2>1 DEF QuietInv, BootTcpip
<1>2. CASE BootMalloc \/ BootTest \/ BootPhy \/ BootRetry \/ Cable
  <2>1. /\ at # "up" /\ at' # "up"
        /\ UNCHANGED <<conn, al, ac, acceptq, srv, lis, cl, tmbox, evFree, qFree>>
    BY <1>2 DEF BootMalloc, BootTest, BootPhy, BootRetry, Cable, object, server
  <2> QED
    BY <2>1 DEF QuietInv
<1>3. CASE Alloc \/ Server \/ DelConn \/ Decode
  BY <1>3, UpFirst DEF QuietInv
<1> QED
  BY <1>1, <1>2, <1>3 DEF Next, Boot

-----------------------------------------------------------------------------
(* What the netconns have.                                                  *)

LEMMA NetconnBoot ==
  ASSUME NetconnInv, Boot \/ Cable
  PROVE  NetconnInv'
<1>1. UNCHANGED <<conn, al, ac, acceptq, srv, lis, cl>>
  BY DEF Boot, BootMalloc, BootTest, BootPhy, BootTcpip, BootRetry, Cable, server
<1>2. AllocInv' /\ ServeInv'
  BY <1>1 DEF NetconnInv, AllocInv, ServeInv
<1>3. QueueInv' /\ FreeInv'
  BY <1>1 DEF NetconnInv, QueueInv, FreeInv, Full
<1> QED
  BY <1>2, <1>3 DEF NetconnInv

(* A step of netconn_alloc on its netconn leaves the others as they are.    *)
LEMMA OthersKept ==
  ASSUME ConnType, NetconnInv, al # None, Only(ac), conn'[ac].st = "open", UNCHANGED <<ac, acceptq, server>>
  PROVE  ServeInv' /\ QueueInv' /\ FreeInv'
<1>1. ac \in Conn /\ ac # None /\ ac # cl
  BY AtWork DEF NetconnInv, FreeInv
<1>2. UNCHANGED <<ac, acceptq, srv, cl>>
  BY DEF server
<1>3. cl # None => cl \in Conn /\ conn'[cl] = conn[cl]
  BY <1>1 DEF ConnType, Only
<1>4. \A j \in 1..Len(acceptq) : conn'[acceptq[j]] = conn[acceptq[j]]
  BY <1>1 DEF ConnType, Only, NetconnInv, QueueInv
<1>5. ServeInv'
  BY <1>2, <1>3 DEF NetconnInv, ServeInv
<1>6. QueueInv'
  BY <1>2, <1>4 DEF NetconnInv, QueueInv, Full
<1>7. FreeInv'
  BY <1>1, <1>2 DEF NetconnInv, FreeInv, Only
<1> QED
  BY <1>5, <1>6, <1>7

LEMMA NetconnAlloc ==
  ASSUME Types, NetconnInv, Alloc
  PROVE  NetconnInv'
<1>0. ConnType /\ conn \in [Conn -> Netconn] /\ acceptq \in Seq(Conn)
  BY DEF Types, ConnType
<1>1. CASE AllocConn
  <2>1. PICK c \in Conn : conn[c].st = "free" /\ ac' = c /\ Set(c, "st", "open")
    BY <1>1 DEF AllocConn
  <2>2. /\ Only(c) /\ conn'[c].st = "open" /\ ~conn'[c].sem /\ conn'[c].mbox = 0 /\ ~conn'[c].q
    BY <1>0, <2>1, SetField DEF NetconnInv, FreeInv
  <2>3. al' = "sem" /\ UNCHANGED <<acceptq, srv, cl>>
    BY <1>1 DEF AllocConn, server
  <2>4. cl # None => cl \in Conn /\ cl # c /\ conn'[cl] = conn[cl]
    BY <1>0, <2>1, <2>2 DEF ConnType, Only, NetconnInv, ServeInv
  <2>5. \A j \in 1..Len(acceptq) : acceptq[j] # c /\ conn'[acceptq[j]] = conn[acceptq[j]]
    BY <1>0, <2>1, <2>2 DEF Only, NetconnInv, QueueInv, Full
  <2>6. AllocInv'
    BY <2>1, <2>2, <2>3, NoneIsNoConn DEF AllocInv, None
  <2>7. ServeInv'
    BY <2>3, <2>4 DEF NetconnInv, ServeInv
  <2>8. QueueInv'
    BY <2>1, <2>3, <2>5 DEF NetconnInv, QueueInv, Full
  <2>9. FreeInv'
    BY <2>1, <2>2, <2>3, <2>4, NoneIsNoConn DEF NetconnInv, FreeInv, Only
  <2> QED
    BY <2>6, <2>7, <2>8, <2>9 DEF NetconnInv
<1>2. CASE AllocSem \/ AllocMem \/ AllocQueue \/ AllocEvent \/ UndoMem \/ UndoSem
  <2>1. al # None /\ UNCHANGED <<ac, acceptq, server>>
    BY <1>2 DEF AllocSem, AllocMem, AllocQueue, AllocEvent, UndoMem, UndoSem, None
  <2>2. ac \in Conn /\ ac # None /\ ac' = ac /\ AllocInv
    BY <1>0, <2>1, AtWork DEF NetconnInv
  <2>3. NewMbox \in Nat \ {0}
    BY NewNumberFree DEF NewMbox, Types
  <2>4. conn' = conn => Only(ac)
    BY DEF Only
  <2>5. Only(ac) /\ conn'[ac].st = "open" /\ AllocInv'
    <3>1. CASE AllocSem
      <4>1. CASE evFree > 0
        <5>1. al = "sem" /\ al' = "mem" /\ Set(ac, "sem", TRUE)
          BY <3>1, <4>1 DEF AllocSem
        <5> QED
          BY <1>0, <2>2, <5>1, SetField DEF AllocInv, None
      <4>2. CASE ~(evFree > 0)
        BY <2>2, <2>4, <3>1, <4>2 DEF AllocSem, AllocInv, None
      <4> QED
        BY <4>1, <4>2
    <3>2. CASE AllocMem
      <4>1. CASE Fits(MboxBlocks)
        <5>1. al = "mem" /\ al' = "event" /\ Set(ac, "mbox", NewMbox)
          BY <3>2, <4>1 DEF AllocMem
        <5> QED
          BY <1>0, <2>2, <2>3, <5>1, SetField DEF AllocInv, None
      <4>2. CASE ~Fits(MboxBlocks)
        BY <2>2, <2>4, <3>2, <4>2 DEF AllocMem, AllocInv, None
      <4> QED
        BY <4>1, <4>2
    <3>3. CASE AllocEvent
      BY <2>2, <2>4, <3>3 DEF AllocEvent, AllocInv, None
    <3>4. CASE AllocQueue
      <4>1. CASE qFree > 0
        <5>1. al = "queue" /\ al' = "done" /\ Set(ac, "q", TRUE)
          BY <3>4, <4>1 DEF AllocQueue
        <5> QED
          BY <1>0, <2>2, <5>1, SetField DEF AllocInv, None
      <4>2. CASE ~(qFree > 0)
        BY <2>2, <2>4, <3>4, <4>2 DEF AllocQueue, AllocInv, None
      <4> QED
        BY <4>1, <4>2
    <3>6. CASE UndoMem
      BY <1>0, <2>2, <3>6, SetField DEF UndoMem, AllocInv, None
    <3>7. CASE UndoSem
      BY <1>0, <2>2, <3>7, SetField DEF UndoSem, AllocInv, None
    <3> QED
      BY <1>2, <3>1, <3>2, <3>3, <3>4, <3>6, <3>7
  <2>6. ServeInv' /\ QueueInv' /\ FreeInv'
    BY <1>0, <2>1, <2>5, OthersKept
  <2> QED
    BY <2>5, <2>6 DEF NetconnInv
<1>3. CASE AllocDone
  <2>1. al = "done" /\ UNCHANGED <<conn, srv, cl>>
    BY <1>3 DEF AllocDone, server
  <2>2. ac \in Conn /\ ac # None
    BY <1>0, <2>1, AtWork DEF NetconnInv, None
  <2>3. acceptq' = Append(acceptq, ac) /\ al' = None /\ ac' = None
    BY <1>3 DEF AllocDone
  <2>4. Full(ac) /\ ac # cl /\ \A j \in 1..Len(acceptq) : acceptq[j] # ac
    BY <2>1, <2>2 DEF NetconnInv, AllocInv, Full, FreeInv, QueueInv
  <2>5. /\ Len(acceptq) \in Nat /\ Len(acceptq') = Len(acceptq) + 1
        /\ acceptq'[Len(acceptq) + 1] = ac
        /\ \A j \in 1..Len(acceptq) : acceptq'[j] = acceptq[j] /\ acceptq[j] \in Conn
    BY <1>0, <2>2, <2>3, AppendProperties
  <2>6. AllocInv' /\ ServeInv'
    BY <2>1, <2>3 DEF NetconnInv, AllocInv, ServeInv
  <2>7. QueueInv'
    <3>1. \A j \in 1..Len(acceptq') : \/ j = Len(acceptq) + 1 /\ acceptq'[j] = ac
                                      \/ j \in 1..Len(acceptq) /\ acceptq'[j] = acceptq[j]
      BY <2>5
    <3>2. \A j \in 1..Len(acceptq') : Full(acceptq'[j])
      BY <2>4, <3>1 DEF NetconnInv, QueueInv
    <3>3. \A j \in 1..Len(acceptq') : acceptq'[j] # cl /\ acceptq'[j] # None
      BY <2>2, <2>4, <2>5, <3>1, NoneIsNoConn DEF NetconnInv, QueueInv
    <3>4. \A j, k \in 1..Len(acceptq') : acceptq'[j] = acceptq'[k] => j = k
      BY <2>4, <3>1 DEF NetconnInv, QueueInv
    <3> QED
      BY <2>1, <2>3, <3>2, <3>3, <3>4 DEF QueueInv, Full
  <2>8. FreeInv'
    BY <2>1, <2>3 DEF NetconnInv, FreeInv
  <2> QED
    BY <2>6, <2>7, <2>8 DEF NetconnInv
<1>4. CASE UndoConn
  <2>1. al = "undoconn" /\ al' = None /\ ac' = None /\ UNCHANGED <<acceptq, cl>> /\ Set(ac, "st", "free")
        /\ srv' = IF ByServer THEN "noconn" ELSE srv
    BY <1>4 DEF UndoConn
  <2>2. ac \in Conn /\ ac # None /\ ac # cl
    BY <1>0, <2>1, AtWork DEF NetconnInv, FreeInv, None
  <2>3. Only(ac) /\ ~conn'[ac].sem /\ conn'[ac].mbox = 0 /\ ~conn'[ac].q
    BY <1>0, <2>1, <2>2, SetField DEF NetconnInv, AllocInv
  <2>4. cl # None => cl \in Conn /\ conn'[cl] = conn[cl]
    BY <1>0, <2>2, <2>3 DEF ConnType, Only
  <2>5. \A j \in 1..Len(acceptq) : acceptq[j] \in Conn /\ conn'[acceptq[j]] = conn[acceptq[j]]
    BY <1>0, <2>3 DEF Only, NetconnInv, QueueInv
  <2>6. AllocInv'
    BY <2>1 DEF AllocInv
  <2>7. ServeInv'
    BY <2>1, <2>4 DEF NetconnInv, ServeInv, ByServer
  <2>8. QueueInv'
    BY <2>1, <2>5, NoneIsNoConn DEF NetconnInv, QueueInv, Full
  <2>9. FreeInv'
    BY <2>1, <2>2, <2>3 DEF NetconnInv, FreeInv, Only
  <2> QED
    BY <2>6, <2>7, <2>8, <2>9 DEF NetconnInv
<1> QED
  BY <1>1, <1>2, <1>3, <1>4 DEF Alloc

LEMMA NetconnServer ==
  ASSUME Types, NetconnInv, Server \/ DelConn \/ Decode
  PROVE  NetconnInv'
<1>0. ConnType /\ conn \in [Conn -> Netconn] /\ acceptq \in Seq(Conn)
  BY DEF Types, ConnType
<1>1. CASE Listen
  <2>1. /\ srv = "new" /\ al = "done" /\ srv' = "accept" /\ al' = None /\ ac' = None
        /\ UNCHANGED <<conn, acceptq, cl>>
    BY <1>1 DEF Listen
  <2>2. AllocInv' /\ ServeInv'
    BY <2>1 DEF NetconnInv, AllocInv, ServeInv
  <2>3. QueueInv'
    BY <1>0, <2>1, NoneIsNoConn DEF NetconnInv, QueueInv, Full
  <2>4. FreeInv'
    BY <2>1 DEF NetconnInv, FreeInv
  <2> QED
    BY <2>2, <2>3, <2>4 DEF NetconnInv
<1>2. CASE Accept
  <2>1. /\ srv = "accept" /\ al = None /\ srv' = "serve" /\ cl' = Head(acceptq)
        /\ acceptq' = Tail(acceptq) /\ acceptq # <<>> /\ UNCHANGED <<conn, al, ac>>
    BY <1>2 DEF Accept
  <2>2. /\ Head(acceptq) = acceptq[1] /\ 1 \in 1..Len(acceptq) /\ acceptq[1] \in Conn
        /\ \A j \in 1..Len(acceptq') : /\ j + 1 \in 1..Len(acceptq) /\ j + 1 # 1
                                       /\ acceptq'[j] = acceptq[j + 1] /\ acceptq[j + 1] \in Conn
    BY <1>0, <2>1, HeadTailProperties
  <2>3. Full(cl') /\ cl' # None /\ ac = None
    BY <2>1, <2>2, NoneIsNoConn DEF NetconnInv, QueueInv, AllocInv
  <2>4. AllocInv' /\ ServeInv'
    BY <2>1, <2>3 DEF NetconnInv, AllocInv, ServeInv, Full
  <2>5. QueueInv'
    <3>1. \A j \in 1..Len(acceptq') : Full(acceptq'[j])
      BY <2>2 DEF NetconnInv, QueueInv
    <3>2. \A j \in 1..Len(acceptq') : acceptq'[j] # cl' /\ acceptq'[j] # None
      BY <2>1, <2>2, NoneIsNoConn DEF NetconnInv, QueueInv
    <3>3. \A j, k \in 1..Len(acceptq') : acceptq'[j] = acceptq'[k] => j + 1 = k + 1
      BY <2>2 DEF NetconnInv, QueueInv
    <3>4. \A j, k \in 1..Len(acceptq') : acceptq'[j] = acceptq'[k] => j = k
      BY <3>3
    <3> QED
      BY <2>1, <2>3, <3>1, <3>2, <3>4 DEF QueueInv, Full
  <2>6. FreeInv'
    BY <2>1, <2>3 DEF NetconnInv, FreeInv
  <2> QED
    BY <2>4, <2>5, <2>6 DEF NetconnInv
<1>3. CASE DelConn \/ DelSem \/ DelFree
  <2>1. cl \in Conn /\ cl # None /\ al = None /\ ac = None /\ UNCHANGED <<al, ac, acceptq>>
    BY <1>0, <1>3, AtServe DEF NetconnInv, AllocInv, DelConn, DelSem, DelFree
  <2>2. Only(cl) /\ ServeInv' /\ (cl' = cl \/ cl' = None)
        /\ (conn'[cl].st = "free" => ~conn'[cl].sem /\ conn'[cl].mbox = 0 /\ ~conn'[cl].q)
    <3>1. CASE DelConn
      <4>1. /\ srv = "serve" /\ srv' = "sem" /\ cl' = cl
            /\ conn' = [conn EXCEPT ![cl] = [@ EXCEPT !.mbox = 0, !.q = FALSE]]
        BY <3>1 DEF DelConn
      <4>2. /\ Only(cl) /\ conn'[cl].mbox = 0 /\ ~conn'[cl].q
            /\ conn'[cl].st = conn[cl].st /\ conn'[cl].sem = conn[cl].sem
        BY <1>0, <2>1, <4>1, DelFields
      <4> QED
        BY <2>1, <4>1, <4>2 DEF NetconnInv, ServeInv
    <3>2. CASE DelSem
      <4>1. srv = "sem" /\ srv' = "conn" /\ cl' = cl /\ Set(cl, "sem", FALSE)
        BY <3>2 DEF DelSem
      <4>2. /\ Only(cl) /\ conn'[cl].mbox = conn[cl].mbox /\ conn'[cl].q = conn[cl].q
            /\ conn'[cl].st = conn[cl].st /\ ~conn'[cl].sem
        BY <1>0, <2>1, <4>1, SetField
      <4> QED
        BY <2>1, <4>1, <4>2 DEF NetconnInv, ServeInv
    <3>3. CASE DelFree
      <4>1. srv = "conn" /\ srv' = "accept" /\ cl' = None /\ Set(cl, "st", "free")
        BY <3>3 DEF DelFree
      <4>2. /\ Only(cl) /\ conn'[cl].mbox = conn[cl].mbox /\ conn'[cl].q = conn[cl].q
            /\ conn'[cl].st = "free" /\ conn'[cl].sem = conn[cl].sem
        BY <1>0, <2>1, <4>1, SetField
      <4> QED
        BY <2>1, <4>1, <4>2 DEF NetconnInv, ServeInv
    <3> QED
      BY <1>3, <3>1, <3>2, <3>3
  <2>3. \A j \in 1..Len(acceptq) : /\ acceptq[j] \in Conn /\ acceptq[j] # cl
                                   /\ conn'[acceptq[j]] = conn[acceptq[j]]
    BY <1>0, <2>2 DEF NetconnInv, QueueInv, Only
  <2>4. AllocInv'
    BY <2>1 DEF AllocInv
  <2>5. QueueInv'
    BY <2>1, <2>2, <2>3, NoneIsNoConn DEF NetconnInv, QueueInv, Full
  <2>6. FreeInv'
    BY <2>1, <2>2 DEF NetconnInv, FreeInv, Only
  <2> QED
    BY <2>2, <2>4, <2>5, <2>6 DEF NetconnInv
<1>4. CASE Decode
  <2>1. UNCHANGED <<conn, al, ac, acceptq, srv, cl>>
    BY <1>4 DEF Decode, server
  <2>2. AllocInv' /\ ServeInv'
    BY <2>1 DEF NetconnInv, AllocInv, ServeInv
  <2>3. QueueInv' /\ FreeInv'
    BY <2>1 DEF NetconnInv, QueueInv, FreeInv, Full
  <2> QED
    BY <2>2, <2>3 DEF NetconnInv
<1> QED
  BY <1>1, <1>2, <1>3, <1>4 DEF Server

-----------------------------------------------------------------------------
(* Mailboxes and their owners.                                              *)

LEMMA MboxKept ==
  ASSUME MboxInv, \A n \in Nat : <<"mbox", n>> \in heap' <=> <<"mbox", n>> \in heap,
         \A c \in Conn : conn'[c].mbox = conn[c].mbox, tmbox' = tmbox
  PROVE  MboxInv'
BY DEF MboxInv

LEMMA MboxTaken ==
  ASSUME Types, MboxInv, NEW c \in Conn, conn[c].mbox = 0,
         NEW n \in Nat \ {0}, <<"mbox", n>> \notin heap, heap' = heap \cup {<<"mbox", n>>},
         Only(c), conn'[c].mbox = n, tmbox' = tmbox
  PROVE  MboxInv'
<1>1. \A m \in Nat : <<"mbox", m>> \in heap' <=> m = n \/ <<"mbox", m>> \in heap
  OBVIOUS
<1>2. tmbox \in Nat /\ \A d \in Conn : conn[d].mbox \in Nat
  BY DEF Types, BootType, ConnType, Netconn
<1>3. tmbox # n /\ \A d \in Conn : conn[d].mbox # n
  BY <1>2 DEF MboxInv
<1>4. \A d \in Conn : conn'[d].mbox = IF d = c THEN n ELSE conn[d].mbox
  BY DEF Only
<1>5. \A m \in Nat : <<"mbox", m>> \in heap' <=> m # 0 /\ (m = tmbox' \/ \E d \in Conn : conn'[d].mbox = m)
  <2> SUFFICES ASSUME NEW m \in Nat
               PROVE  <<"mbox", m>> \in heap' <=> m # 0 /\ (m = tmbox' \/ \E d \in Conn : conn'[d].mbox = m)
    OBVIOUS
  <2>1. <<"mbox", m>> \in heap <=> m # 0 /\ (m = tmbox \/ \E d \in Conn : conn[d].mbox = m)
    BY DEF MboxInv
  <2>2. ASSUME NEW d \in Conn, m # 0, m # n
        PROVE  conn'[d].mbox = m <=> conn[d].mbox = m
    BY <1>4, <2>2
  <2>3. CASE m = n
    BY <1>1, <1>4, <2>3
  <2>4. CASE m # n
    BY <1>1, <2>1, <2>2, <2>4
  <2> QED
    BY <2>3, <2>4
<1>6. \A d, e \in Conn : d # e /\ conn'[d].mbox # 0 => conn'[d].mbox # conn'[e].mbox
  BY <1>3, <1>4 DEF MboxInv
<1>7. \A d \in Conn : conn'[d].mbox # 0 => conn'[d].mbox # tmbox'
  BY <1>3, <1>4 DEF MboxInv
<1> QED
  BY <1>5, <1>6, <1>7 DEF MboxInv

LEMMA MboxGiven ==
  ASSUME Types, MboxInv, NEW c \in Conn, conn[c].mbox # 0,
         heap' = heap \ {<<"mbox", conn[c].mbox>>}, Only(c), conn'[c].mbox = 0, tmbox' = tmbox
  PROVE  MboxInv'
<1>1. \A m \in Nat : <<"mbox", m>> \in heap' <=> m # conn[c].mbox /\ <<"mbox", m>> \in heap
  OBVIOUS
<1>2. \A d \in Conn : conn'[d].mbox = IF d = c THEN 0 ELSE conn[d].mbox
  BY DEF Only
<1>3. \A m \in Nat : <<"mbox", m>> \in heap' <=> m # 0 /\ (m = tmbox' \/ \E d \in Conn : conn'[d].mbox = m)
  <2> SUFFICES ASSUME NEW m \in Nat
               PROVE  <<"mbox", m>> \in heap' <=> m # 0 /\ (m = tmbox' \/ \E d \in Conn : conn'[d].mbox = m)
    OBVIOUS
  <2>1. <<"mbox", m>> \in heap <=> m # 0 /\ (m = tmbox \/ \E d \in Conn : conn[d].mbox = m)
    BY DEF MboxInv
  <2>2. ASSUME NEW d \in Conn, m # 0, m # conn[c].mbox
        PROVE  conn'[d].mbox = m <=> conn[d].mbox = m
    BY <1>2, <2>2
  <2>3. CASE m = conn[c].mbox
    <3>1. m # tmbox' /\ \A d \in Conn : d # c => conn[d].mbox # m
      BY <2>3 DEF MboxInv
    <3> QED
      BY <1>1, <1>2, <2>3, <3>1
  <2>4. CASE m # conn[c].mbox
    BY <1>1, <2>1, <2>2, <2>4
  <2> QED
    BY <2>3, <2>4
<1>4. \A d, e \in Conn : d # e /\ conn'[d].mbox # 0 => conn'[d].mbox # conn'[e].mbox
  BY <1>2 DEF MboxInv
<1>5. \A d \in Conn : conn'[d].mbox # 0 => conn'[d].mbox # tmbox'
  BY <1>2 DEF MboxInv
<1> QED
  BY <1>3, <1>4, <1>5 DEF MboxInv

LEMMA MboxBoot ==
  ASSUME Types, QuietInv, MboxInv, Boot \/ Cable
  PROVE  MboxInv'
<1>1. CASE BootTcpip
  <2>1. /\ NewMbox \in Nat \ {0} /\ heap' = heap \cup {<<"mbox", NewMbox>>} /\ tmbox' = NewMbox
        /\ conn' = conn
    BY <1>1, NewNumberFree DEF BootTcpip, NewMbox, Types
  <2>2. tmbox = 0 /\ \A c \in Conn : conn[c].mbox = 0
    BY <1>1 DEF BootTcpip, QuietInv, FreeConn
  <2>3. \A n \in Nat : <<"mbox", n>> \notin heap
    BY <2>2 DEF MboxInv
  <2>4. \A n \in Nat : <<"mbox", n>> \in heap' <=> n = NewMbox
    BY <2>1, <2>3
  <2> QED
    BY <2>1, <2>2, <2>4 DEF MboxInv
<1>2. CASE BootMalloc
  <2>1. \A n \in Nat : <<"mbox", n>> \in heap' <=> <<"mbox", n>> \in heap
    <3>1. Group[i] # "mbox"
      BY <1>2, GroupIs, Different DEF BootMalloc
    <3> QED
      BY <1>2, <3>1 DEF BootMalloc
  <2> QED
    BY <1>2, <2>1, MboxKept DEF BootMalloc
<1>3. CASE BootTest
  <2>1. \A n \in Nat : <<"mbox", n>> \in heap' <=> <<"mbox", n>> \in heap
    <3>1. \A r \in Runs(Group) : r[1] # "mbox"
      BY <1>3, GroupIs, Different DEF BootTest, Runs
    <3>2. \A n \in Nat : <<"mbox", n>>[1] = "mbox"
      OBVIOUS
    <3> QED
      BY <1>3, <3>1, <3>2 DEF BootTest
  <2> QED
    BY <1>3, <2>1, MboxKept DEF BootTest
<1>4. CASE BootPhy \/ BootRetry \/ Cable
  BY <1>4, MboxKept DEF BootPhy, BootRetry, Cable
<1> QED
  BY <1>1, <1>2, <1>3, <1>4 DEF Boot

LEMMA MboxUp ==
  ASSUME Types, QuietInv, NetconnInv, MboxInv, Alloc \/ Server \/ DelConn \/ Decode
  PROVE  MboxInv'
<1>0. ConnType /\ AllocInv /\ ServeInv /\ conn \in [Conn -> Netconn] /\ tmbox' = tmbox
  BY UpFirst DEF Types, ConnType, NetconnInv
<1>1. CASE AllocMem
  <2>1. al = "mem" /\ ac \in Conn /\ conn[ac].mbox = 0
    BY <1>0, <1>1, AtWork DEF AllocMem, AllocInv, None
  <2>2. CASE Fits(MboxBlocks)
    <3>1. NewMbox \in Nat \ {0} /\ <<"mbox", NewMbox>> \notin heap
      BY NewNumberFree DEF NewMbox, Types
    <3>2. heap' = heap \cup {<<"mbox", NewMbox>>} /\ Set(ac, "mbox", NewMbox)
      BY <1>1, <2>2 DEF AllocMem
    <3>3. Only(ac) /\ conn'[ac].mbox = NewMbox
      BY <1>0, <2>1, <3>1, <3>2, SetField
    <3> QED
      BY <1>0, <2>1, <3>1, <3>2, <3>3, MboxTaken
  <2>3. CASE ~Fits(MboxBlocks)
    BY <1>0, <1>1, <2>3, MboxKept DEF AllocMem
  <2> QED
    BY <2>2, <2>3
<1>2. CASE UndoMem
  <2>1. ac \in Conn /\ conn[ac].mbox # 0 /\ Set(ac, "mbox", 0)
    BY <1>0, <1>2, AtWork DEF UndoMem, AllocInv, None
  <2>2. Only(ac) /\ conn'[ac].mbox = 0
    BY <1>0, <2>1, SetField
  <2> QED
    BY <1>0, <1>2, <2>1, <2>2, MboxGiven DEF UndoMem
<1>3. CASE DelConn
  <2>1. cl \in Conn /\ conn[cl].mbox # 0
    BY <1>0, <1>3, AtServe DEF DelConn, ServeInv
  <2>2. Only(cl) /\ conn'[cl].mbox = 0
    BY <1>0, <1>3, <2>1, DelFields DEF DelConn
  <2> QED
    BY <1>0, <1>3, <2>1, <2>2, MboxGiven DEF DelConn
<1>4. CASE AllocConn \/ AllocSem \/ AllocQueue \/ UndoSem \/ UndoConn \/ DelSem \/ DelFree
  <2>1. \A c \in Conn : conn'[c].mbox = conn[c].mbox
    <3>1. CASE AllocConn
      BY <1>0, <3>1, SetField DEF AllocConn, Only
    <3>2. CASE AllocSem
      <4>1. conn' = conn \/ Set(ac, "sem", TRUE)
        BY <3>2 DEF AllocSem
      <4> QED
        BY <1>0, <3>2, <4>1, AtWork, SetField DEF AllocSem, None, Only
    <3>3. CASE AllocQueue
      <4>1. conn' = conn \/ Set(ac, "q", TRUE)
        BY <3>3 DEF AllocQueue
      <4> QED
        BY <1>0, <3>3, <4>1, AtWork, SetField DEF AllocQueue, None, Only
    <3>5. CASE UndoSem
      BY <1>0, <3>5, AtWork, SetField DEF UndoSem, None, Only
    <3>6. CASE UndoConn
      BY <1>0, <3>6, AtWork, SetField DEF UndoConn, None, Only
    <3>7. CASE DelSem
      BY <1>0, <3>7, AtServe, SetField DEF DelSem, Only
    <3>8. CASE DelFree
      BY <1>0, <3>8, AtServe, SetField DEF DelFree, Only
    <3> QED
      BY <1>4, <3>1, <3>2, <3>3, <3>5, <3>6, <3>7, <3>8
  <2>2. heap' = heap
    BY <1>4 DEF AllocConn, AllocSem, AllocQueue, UndoSem, UndoConn, DelSem, DelFree
  <2> QED
    BY <1>0, <2>1, <2>2, MboxKept
<1>5. CASE AllocEvent \/ AllocDone \/ Listen \/ Accept \/ Decode
  BY <1>0, <1>5, MboxKept DEF AllocEvent, AllocDone, Listen, Accept, Decode
<1> QED
  BY <1>1, <1>2, <1>3, <1>4, <1>5 DEF Alloc, Server

-----------------------------------------------------------------------------
(* Control blocks.                                                          *)

LEMMA CountKept ==
  ASSUME CountInv, UNCHANGED <<evFree, qFree>>, Started' = Started, Held' = Held,
         \A c \in Conn : conn'[c].sem = conn[c].sem /\ conn'[c].q = conn[c].q
  PROVE  CountInv'
<1>1. Sems' = Sems /\ Qs' = Qs
  BY DEF Sems, Qs
<1> QED
  BY <1>1 DEF CountInv

(* One more or one less in a set of netconns.                               *)
LEMMA OneMore ==
  ASSUME NEW S \in SUBSET Conn, NEW T \in SUBSET Conn, NEW c \in T,
         c \notin S, \A d \in Conn \ {c} : d \in S <=> d \in T
  PROVE  Cardinality(T) = Cardinality(S) + 1 /\ Cardinality(S) \in Nat /\ Cardinality(T) \in Nat
<1>1. T = S \cup {c} /\ IsFiniteSet(S)
  BY StartUpAssumption, FS_Subset
<1> QED
  BY <1>1, FS_AddElement, FS_CardinalityType

LEMMA CountBoot ==
  ASSUME Types, QuietInv, CountInv, Boot \/ Cable
  PROVE  CountInv'
<1>1. UNCHANGED <<conn, al>> /\ Held' = Held
  BY DEF Boot, BootMalloc, BootTest, BootPhy, BootTcpip, BootRetry, Cable, Held
<1>2. CASE BootTcpip
  <2>1. Sems' = Sems /\ Qs' = Qs
    BY <1>1 DEF Sems, Qs
  <2>2. /\ evFree' = evFree - 2 /\ qFree' = qFree - 1 /\ Started = 0 /\ Started' = 1
        /\ Held' = Held /\ Held \in Nat
    BY <1>1, <1>2 DEF BootTcpip, MutexEvents, Started, Types, FreeType, Held
  <2>3. Cardinality(Sems) \in Nat /\ Cardinality(Qs) \in Nat
    BY Counts DEF Types
  <2>4. evFree \in Nat /\ qFree \in Nat /\ MaxEvents \in Nat /\ MaxQs \in Nat
    BY StartUpAssumption DEF Types, FreeType
  <2> QED
    BY <2>1, <2>2, <2>3, <2>4 DEF CountInv, TmrEvents
<1>3. CASE BootMalloc \/ BootTest \/ BootPhy \/ BootRetry \/ Cable
  <2>1. UNCHANGED <<evFree, qFree>>
    BY <1>3 DEF BootMalloc, BootTest, BootPhy, BootRetry, Cable, object
  <2>2. Started' = Started
    BY <1>3 DEF BootMalloc, BootTest, BootPhy, BootRetry, Cable, Started
  <2> QED
    BY <1>1, <2>1, <2>2, CountKept
<1> QED
  BY <1>2, <1>3 DEF Boot

LEMMA CountUp ==
  ASSUME Types, QuietInv, NetconnInv, CountInv, Alloc \/ Server \/ DelConn \/ Decode
  PROVE  CountInv'
<1>0. /\ ConnType /\ AllocInv /\ ServeInv /\ FreeInv /\ conn \in [Conn -> Netconn]
      /\ Started' = Started /\ Started \in Nat
  BY UpFirst DEF Types, ConnType, NetconnInv, Started
<1>1. /\ evFree \in Nat /\ qFree \in Nat /\ MaxEvents \in Nat /\ MaxQs \in Nat
      /\ Held \in {0, 1} /\ Held' \in {0, 1}
  BY StartUpAssumption DEF Types, FreeType, Held
<1>2. /\ Sems \in SUBSET Conn /\ Sems' \in SUBSET Conn /\ Qs \in SUBSET Conn /\ Qs' \in SUBSET Conn
      /\ Cardinality(Sems) \in Nat /\ Cardinality(Qs) \in Nat
  BY <1>0, Counts DEF Sems, Qs
<1>3. ASSUME NEW c \in Conn, Only(c), ~conn[c].sem, conn'[c].sem, conn'[c].q = conn[c].q
      PROVE  Cardinality(Sems') = Cardinality(Sems) + 1 /\ Qs' = Qs
  <2>1. c \in Sems' /\ c \notin Sems /\ \A d \in Conn \ {c} : d \in Sems <=> d \in Sems'
    BY <1>3 DEF Sems, Only
  <2>2. Qs' = Qs
    BY <1>3 DEF Qs, Only
  <2> QED
    BY <1>2, <2>1, <2>2, OneMore
<1>4. ASSUME NEW c \in Conn, Only(c), conn[c].sem, ~conn'[c].sem, conn'[c].q = conn[c].q
      PROVE  Cardinality(Sems) = Cardinality(Sems') + 1 /\ Qs' = Qs /\ Cardinality(Sems') \in Nat
  <2>1. c \in Sems /\ c \notin Sems' /\ \A d \in Conn \ {c} : d \in Sems' <=> d \in Sems
    BY <1>4 DEF Sems, Only
  <2>2. Qs' = Qs
    BY <1>4 DEF Qs, Only
  <2> QED
    BY <1>2, <2>1, <2>2, OneMore
<1>5. ASSUME NEW c \in Conn, Only(c), ~conn[c].q, conn'[c].q, conn'[c].sem = conn[c].sem
      PROVE  Cardinality(Qs') = Cardinality(Qs) + 1 /\ Sems' = Sems
  <2>1. c \in Qs' /\ c \notin Qs /\ \A d \in Conn \ {c} : d \in Qs <=> d \in Qs'
    BY <1>5 DEF Qs, Only
  <2>2. Sems' = Sems
    BY <1>5 DEF Sems, Only
  <2> QED
    BY <1>2, <2>1, <2>2, OneMore
<1>6. ASSUME NEW c \in Conn, Only(c), conn[c].q, ~conn'[c].q, conn'[c].sem = conn[c].sem
      PROVE  Cardinality(Qs) = Cardinality(Qs') + 1 /\ Sems' = Sems /\ Cardinality(Qs') \in Nat
  <2>1. c \in Qs /\ c \notin Qs' /\ \A d \in Conn \ {c} : d \in Qs' <=> d \in Qs
    BY <1>6 DEF Qs, Only
  <2>2. Sems' = Sems
    BY <1>6 DEF Sems, Only
  <2> QED
    BY <1>2, <2>1, <2>2, OneMore
<1>7. CASE AllocConn \/ AllocMem \/ UndoMem \/ UndoConn \/ DelFree
  <2>1. \A c \in Conn : conn'[c].sem = conn[c].sem /\ conn'[c].q = conn[c].q
    <3>1. CASE AllocConn
      BY <1>0, <3>1, SetField DEF AllocConn, Only
    <3>2. CASE AllocMem
      <4>1. conn' = conn \/ Set(ac, "mbox", NewMbox)
        BY <3>2 DEF AllocMem
      <4>2. NewMbox \in Nat
        BY NewNumberFree DEF NewMbox, Types
      <4> QED
        BY <1>0, <3>2, <4>1, <4>2, AtWork, SetField DEF AllocMem, None, Only
    <3>3. CASE UndoMem
      BY <1>0, <3>3, AtWork, SetField DEF UndoMem, None, Only
    <3>4. CASE UndoConn
      BY <1>0, <3>4, AtWork, SetField DEF UndoConn, None, Only
    <3>5. CASE DelFree
      BY <1>0, <3>5, AtServe, SetField DEF DelFree, Only
    <3> QED
      BY <1>7, <3>1, <3>2, <3>3, <3>4, <3>5
  <2>2. UNCHANGED <<evFree, qFree>> /\ al # "queue" /\ al' # "queue"
    BY <1>7 DEF AllocConn, AllocMem, UndoMem, UndoConn, DelFree, object, None
  <2> QED
    BY <1>0, <2>1, <2>2, CountKept DEF Held
<1>8. CASE AllocDone \/ Listen \/ Accept \/ Decode
  <2>1. UNCHANGED <<conn, evFree, qFree>> /\ al # "queue" /\ al' # "queue"
    BY <1>8 DEF AllocDone, Listen, Accept, Decode, object, None
  <2> QED
    BY <1>0, <2>1, CountKept DEF Held
<1>9. CASE AllocSem
  <2>1. al = "sem" /\ al' # "queue" /\ qFree' = qFree /\ ac \in Conn /\ ~conn[ac].sem
    <3>1. al = "sem" /\ al' \in {"mem", "undoconn"} /\ qFree' = qFree
      BY <1>9 DEF AllocSem
    <3> QED
      BY <1>0, <3>1, AtWork DEF AllocInv, None
  <2>2. CASE evFree > 0
    <3>1. evFree' = evFree - 1 /\ Set(ac, "sem", TRUE)
      BY <1>9, <2>2 DEF AllocSem
    <3>2. Only(ac) /\ conn'[ac].sem /\ conn'[ac].q = conn[ac].q
      BY <1>0, <2>1, <3>1, SetField
    <3>3. Cardinality(Sems') = Cardinality(Sems) + 1 /\ Qs' = Qs
      BY <1>3, <2>1, <3>2
    <3> QED
      BY <1>0, <1>1, <1>2, <2>1, <3>1, <3>3 DEF CountInv, Held, TmrEvents
  <2>3. CASE ~(evFree > 0)
    BY <1>0, <1>9, <2>1, <2>3, CountKept DEF AllocSem, Held
  <2> QED
    BY <2>2, <2>3
<1>10. CASE AllocEvent
  <2>1. al = "event" /\ UNCHANGED <<conn, qFree>> /\ Sems' = Sems /\ Qs' = Qs
    BY <1>10 DEF AllocEvent, Sems, Qs
  <2>2. \/ evFree' = evFree - 1 /\ al' = "queue"
        \/ evFree' = evFree /\ al' = "undomem"
    BY <1>10 DEF AllocEvent
  <2> QED
    BY <1>0, <1>1, <1>2, <2>1, <2>2 DEF CountInv, Held, TmrEvents
<1>11. CASE AllocQueue
  <2>1. al = "queue" /\ ac \in Conn /\ ~conn[ac].q
    <3>1. al = "queue"
      BY <1>11 DEF AllocQueue
    <3> QED
      BY <1>0, <3>1, AtWork DEF AllocInv, None
  <2>2. CASE qFree > 0
    <3>1. qFree' = qFree - 1 /\ evFree' = evFree /\ al' = "done" /\ Set(ac, "q", TRUE)
      BY <1>11, <2>2 DEF AllocQueue
    <3>2. Only(ac) /\ conn'[ac].q /\ conn'[ac].sem = conn[ac].sem
      BY <1>0, <2>1, <3>1, SetField
    <3>3. Cardinality(Qs') = Cardinality(Qs) + 1 /\ Sems' = Sems
      BY <1>5, <2>1, <3>2
    <3> QED
      BY <1>0, <1>1, <1>2, <2>1, <3>1, <3>3 DEF CountInv, Held, TmrEvents
  <2>3. CASE ~(qFree > 0)
    <3>1. evFree' = evFree + 1 /\ al' = "undomem" /\ UNCHANGED <<qFree, conn>>
      BY <1>11, <2>3 DEF AllocQueue
    <3>2. Sems' = Sems /\ Qs' = Qs
      BY <3>1 DEF Sems, Qs
    <3> QED
      BY <1>0, <1>1, <1>2, <2>1, <3>1, <3>2 DEF CountInv, Held, TmrEvents
  <2> QED
    BY <2>2, <2>3
<1>12. CASE DelConn
  <2>1. /\ evFree' = evFree + 1 /\ qFree' = qFree + 1 /\ al # "queue" /\ al' # "queue"
    BY <1>12 DEF DelConn, None
  <2>2. \E c \in Conn : Only(c) /\ conn[c].q /\ ~conn'[c].q /\ conn'[c].sem = conn[c].sem
    <3>1. cl \in Conn /\ conn[cl].q
      BY <1>0, <1>12, AtServe DEF DelConn, ServeInv
    <3> QED
      BY <1>0, <1>12, <3>1, DelFields DEF DelConn
  <2>3. Cardinality(Qs) = Cardinality(Qs') + 1 /\ Sems' = Sems /\ Cardinality(Qs') \in Nat
    BY <1>6, <2>2
  <2> QED
    BY <1>0, <1>1, <1>2, <2>1, <2>3 DEF CountInv, Held, TmrEvents
<1>13. CASE UndoSem \/ DelSem
  <2>1. evFree' = evFree + 1 /\ qFree' = qFree /\ al # "queue" /\ al' # "queue"
    BY <1>13 DEF UndoSem, DelSem, None
  <2>2. \E c \in Conn : Only(c) /\ conn[c].sem /\ ~conn'[c].sem /\ conn'[c].q = conn[c].q
    <3>1. CASE UndoSem
      <4>1. ac \in Conn /\ conn[ac].sem /\ Set(ac, "sem", FALSE)
        BY <1>0, <3>1, AtWork DEF UndoSem, AllocInv, None
      <4> QED
        BY <1>0, <4>1, SetField
    <3>2. CASE DelSem
      <4>1. cl \in Conn /\ conn[cl].sem /\ Set(cl, "sem", FALSE)
        BY <1>0, <3>2, AtServe DEF DelSem, ServeInv
      <4> QED
        BY <1>0, <4>1, SetField
    <3> QED
      BY <1>13, <3>1, <3>2
  <2>3. Cardinality(Sems) = Cardinality(Sems') + 1 /\ Qs' = Qs /\ Cardinality(Sems') \in Nat
    BY <1>4, <2>2
  <2> QED
    BY <1>0, <1>1, <1>2, <2>1, <2>3 DEF CountInv, Held, TmrEvents
<1> QED
  BY <1>7, <1>8, <1>9, <1>10, <1>11, <1>12, <1>13 DEF Alloc, Server

-----------------------------------------------------------------------------
(* The invariant.                                                           *)

LEMMA InvInit == Init => IInv
<1> SUFFICES ASSUME Init PROVE IInv
  OBVIOUS
<1>1. Sems = {} /\ Qs = {} /\ Cardinality({}) = 0 /\ IsFiniteSet({})
  BY FS_EmptySet DEF Init, Sems, Qs, FreeConn
<1>2. Types
  <2>1. MaxEvents - TmrEvents \in Nat /\ <<>> \in Seq(Conn)
    BY StartUpAssumption DEF TmrEvents, MutexEvents
  <2>2. BootType
    BY DEF Init, BootType, Places
  <2>3. HeapType
    BY <1>1 DEF Init, HeapType
  <2>4. ConnType
    BY <2>1 DEF Init, ConnType, Netconn, FreeConn
  <2>5. FreeType
    BY <2>1, StartUpAssumption DEF Init, FreeType
  <2> QED
    BY <2>2, <2>3, <2>4, <2>5 DEF Types
<1>3. TriesInv
  <2>1. \A j \in 1..4 : j >= 1
    OBVIOUS
  <2> QED
    BY <2>1 DEF Init, TriesInv, Partial, Nothing
<1>4. QuietInv
  BY DEF Init, QuietInv
<1>5. NetconnInv
  BY NoneIsNoConn DEF Init, NetconnInv, AllocInv, ServeInv, QueueInv, FreeInv, FreeConn
<1>6. MboxInv
  BY DEF Init, MboxInv, FreeConn
<1>7. CountInv
  BY <1>1, StartUpAssumption DEF Init, CountInv, Started, Held, None, TmrEvents
<1> QED
  BY <1>2, <1>3, <1>4, <1>5, <1>6, <1>7 DEF IInv

LEMMA InvNext == IInv /\ [Next]_vars => IInv'
<1> SUFFICES ASSUME IInv, [Next]_vars PROVE IInv'
  OBVIOUS
<1>0. Types /\ TriesInv /\ QuietInv /\ NetconnInv /\ MboxInv /\ CountInv /\ AllocInv /\ ServeInv
  BY DEF IInv, NetconnInv
<1>1. CASE Boot \/ Cable
  <2>1. TriesInv'
    BY <1>0, <1>1, TriesMalloc, TriesTest, TriesBoot DEF Boot
  <2>2. QuietInv'
    BY <1>0, <1>1, QuietNext DEF Next
  <2> QED
    BY <1>0, <1>1, <2>1, <2>2, TypesBoot, NetconnBoot, MboxBoot, CountBoot DEF IInv
<1>2. CASE Alloc \/ Server \/ DelConn \/ Decode
  <2>1. Types' /\ NetconnInv'
    BY <1>0, <1>2, TypesAlloc, TypesServer, NetconnAlloc, NetconnServer
  <2>2. QuietInv'
    BY <1>0, <1>2, QuietNext DEF Next
  <2> QED
    BY <1>0, <1>2, <2>1, <2>2, TriesUp, MboxUp, CountUp DEF IInv
<1>3. CASE UNCHANGED vars
  <2>1. /\ UNCHANGED <<at, i, try, link, ptr, tmbox, heap, evFree, qFree, conn, al, ac, acceptq>>
        /\ UNCHANGED <<srv, lis, cl, nullWrite>>
    BY <1>3 DEF vars, boot, object, server
  <2>2. Types'
    BY <1>0, <2>1 DEF Types, BootType, HeapType, ConnType, FreeType
  <2>3. TriesInv'
    BY <1>0, <2>1, TriesKept DEF Types
  <2>4. QuietInv'
    BY <1>0, <2>1 DEF QuietInv
  <2>5. NetconnInv'
    BY <1>0, <2>1 DEF NetconnInv, AllocInv, ServeInv, QueueInv, FreeInv, Full
  <2>6. MboxInv'
    BY <1>0, <2>1, MboxKept
  <2>7. CountInv'
    BY <1>0, <2>1, CountKept DEF Started, Held
  <2> QED
    BY <2>2, <2>3, <2>4, <2>5, <2>6, <2>7 DEF IInv
<1> QED
  BY <1>1, <1>2, <1>3 DEF Next

LEMMA Invariant == Spec => []IInv
BY InvInit, InvNext, PTL DEF Spec

(* Every variable keeps its type: no counter of control blocks passes its   *)
(* limit.                                                                   *)
THEOREM TypeCorrect == Spec => []TypeOK
<1>1. IInv => TypeOK
  BY InvTypeOK DEF IInv
<1> QED
  BY <1>1, Invariant, PTL

(* A try of lwip_comm_init that runs out of memory keeps nothing of the     *)
(* group that failed, whatever is free and however often main tries, and    *)
(* the driver and the stack start with memory that is theirs.               *)
THEOREM BootMemoryCorrect == Spec => []BootMemory
<1>1. IInv => BootMemory
  BY InvBootMemory DEF IInv
<1> QED
  BY <1>1, Invariant, PTL

(* netconn_alloc, in its failures as well, and netconn_delete lose no       *)
(* mailbox, semaphore or control block and give none back twice.            *)
THEOREM ResourcesOwnedCorrect == Spec => []ResourcesOwned
<1>1. IInv => ResourcesOwned
  BY InvResources DEF IInv
<1> QED
  BY <1>1, Invariant, PTL

-----------------------------------------------------------------------------
(* Blocks of the pool.                                                      *)

Run == (Piece \cup {"mbox"}) \X Nat
BlocksOf(S) == SumFunctionOnSet([r \in S |-> Blocks(r)], S)

LEMMA UsedIs == Used = RecvBlocks + BlocksOf(heap)
BY DEF Used, BlocksOf, SumFunction

LEMMA BlocksType == \A r \in Run : Blocks(r) \in Nat
BY StartUpAssumption, Different DEF Blocks, Run

LEMMA BlocksNat ==
  ASSUME NEW S \in SUBSET Run, IsFiniteSet(S)
  PROVE  BlocksOf(S) \in Nat
<1> DEFINE f == [r \in S |-> Blocks(r)]
<1>1. \A r \in S : f[r] \in Nat
  BY BlocksType
<1> HIDE DEF f
<1>2. SumFunctionOnSet(f, S) \in Nat
  BY <1>1, SumIs
<1> QED
  BY <1>2 DEF BlocksOf, f

LEMMA BlocksAdd ==
  ASSUME NEW S \in SUBSET Run, IsFiniteSet(S), NEW r \in Run, r \notin S
  PROVE  BlocksOf(S \cup {r}) = BlocksOf(S) + Blocks(r)
<1> DEFINE f == [x \in S |-> Blocks(x)]
           g == [x \in S \cup {r} |-> Blocks(x)]
<1>1. g[r] = Blocks(r) /\ g[r] \in Nat
  BY BlocksType
<1>2. \A x \in S : f[x] \in Nat /\ g[x] = f[x]
  BY BlocksType
<1> HIDE DEF f, g
<1>3. IsFiniteSet(S) /\ r \notin S
  OBVIOUS
<1>4. SumFunctionOnSet(g, S \cup {r}) = SumFunctionOnSet(f, S) + g[r]
  BY ONLY <1>1, <1>2, <1>3, SumAdd
<1> QED
  BY <1>1, <1>4 DEF BlocksOf, f, g

LEMMA BlocksUnion ==
  ASSUME NEW S \in SUBSET Run, IsFiniteSet(S), NEW T \in SUBSET Run, IsFiniteSet(T), S \cap T = {}
  PROVE  BlocksOf(S \cup T) = BlocksOf(S) + BlocksOf(T)
<1> DEFINE f == [x \in S |-> Blocks(x)]
           g == [x \in T |-> Blocks(x)]
           h == [x \in S \cup T |-> Blocks(x)]
<1>1. \A x \in S : f[x] \in Nat /\ h[x] = f[x]
  BY BlocksType
<1>2. \A x \in T : g[x] \in Nat /\ h[x] = g[x]
  BY BlocksType
<1>3. \A x \in S \cup T : h[x] \in Nat
  BY <1>1, <1>2
<1> HIDE DEF f, g, h
<1>4. SumFunctionOnSet(h, S \cup T) = SumFunctionOnSet(h, S) + SumFunctionOnSet(h, T)
  BY <1>3, SumUnion
<1>5. SumFunctionOnSet(h, S) = SumFunctionOnSet(f, S) /\ SumFunctionOnSet(h, T) = SumFunctionOnSet(g, T)
  BY <1>1, <1>2, SumSame
<1> QED
  BY <1>4, <1>5 DEF BlocksOf, f, g, h

LEMMA BlocksSubset ==
  ASSUME NEW S \in SUBSET Run, IsFiniteSet(S), NEW T \in SUBSET S
  PROVE  BlocksOf(T) <= BlocksOf(S)
<1>1. /\ IsFiniteSet(T) /\ IsFiniteSet(S \ T) /\ T \in SUBSET Run /\ S \ T \in SUBSET Run
      /\ T \cap (S \ T) = {} /\ T \cup (S \ T) = S
  BY FS_Subset
<1>2. BlocksOf(S) = BlocksOf(T) + BlocksOf(S \ T)
  BY <1>1, BlocksUnion
<1>3. BlocksOf(T) \in Nat /\ BlocksOf(S \ T) \in Nat
  BY <1>1, BlocksNat
<1> QED
  BY <1>2, <1>3

LEMMA PieceFinite == IsFiniteSet(Piece) /\ Piece # {}
<1> DEFINE E == {EthMem[j] : j \in 1..4}
           L == {LwipMem[j] : j \in 1..4}
<1>1. EthMem \in [1..4 -> E] /\ LwipMem \in [1..4 -> L]
  BY GroupFacts, StartUpAssumption
<1>2. EthMem \in Surjection(1..4, E) /\ LwipMem \in Surjection(1..4, L)
  BY <1>1 DEF Surjection
<1>3. IsFiniteSet(1..4)
  <2>1. 1 \in Int /\ 4 \in Int
    OBVIOUS
  <2> QED
    BY <2>1, FS_Interval
<1>4. IsFiniteSet(E) /\ IsFiniteSet(L)
  BY <1>2, <1>3, FS_Surjection
<1>5. Piece = E \cup L
  BY GroupFacts DEF Piece
<1>6. EthMem[1] \in Piece
  BY GroupFacts
<1> QED
  BY <1>4, <1>5, <1>6, FS_Union

(* The runs of a whole try.                                                 *)
Whole(n) == {<<p, n>> : p \in Piece}

LEMMA WholeBlocks ==
  ASSUME NEW n \in Nat
  PROVE  /\ Whole(n) \in SUBSET Run /\ IsFiniteSet(Whole(n))
         /\ BlocksOf(Whole(n)) = OneTry /\ OneTry \in Nat
<1> DEFINE b == [p \in Piece |-> <<p, n>>]
           g == [r \in Whole(n) |-> Blocks(r)]
<1>1. b \in Bijection(Piece, Whole(n))
  <2>1. b \in [Piece -> Whole(n)]
    BY DEF Whole
  <2>2. \A p, q \in Piece : b[p] = b[q] => p = q
    OBVIOUS
  <2>3. \A r \in Whole(n) : \E p \in Piece : b[p] = r
    BY DEF Whole
  <2> HIDE DEF b
  <2> QED
    BY <2>1, <2>2, <2>3 DEF Bijection, Injection, Surjection, IsInjective
<1>2. IsFiniteSet(Whole(n))
  BY <1>1, PieceFinite, FS_Bijection DEF ExistsBijection
<1>3. Whole(n) \in SUBSET Run
  BY DEF Whole, Run
<1>4. \A p \in Piece : Size[p] \in Nat /\ g[b[p]] = Size[p]
  <2> SUFFICES ASSUME NEW p \in Piece PROVE Size[p] \in Nat /\ g[b[p]] = Size[p]
    OBVIOUS
  <2>1. b[p] = <<p, n>> /\ <<p, n>> \in Whole(n) /\ <<p, n>>[1] = p
    BY DEF Whole
  <2>2. g[<<p, n>>] = Blocks(<<p, n>>)
    BY <2>1
  <2> QED
    BY <2>1, <2>2, StartUpAssumption, Different DEF Blocks
<1> HIDE DEF b, g
<1>5. SumFunctionOnSet(g, Whole(n)) = SumFunctionOnSet(Size, Piece)
  BY <1>1, <1>4, PieceFinite, SumBijection
<1>6. SumFunctionOnSet(Size, Piece) \in Nat
  BY <1>4, PieceFinite, SumIs
<1> QED
  BY <1>2, <1>3, <1>5, <1>6 DEF BlocksOf, OneTry, g

LEMMA MboxBlocksOf ==
  ASSUME NEW S \in SUBSET Run, IsFiniteSet(S), \A r \in S : r[1] = "mbox"
  PROVE  BlocksOf(S) = MboxBlocks * Cardinality(S)
<1> DEFINE f == [r \in S |-> Blocks(r)]
<1>1. \A r \in S : f[r] = MboxBlocks
  BY DEF Blocks
<1>2. MboxBlocks \in Nat
  BY StartUpAssumption
<1> HIDE DEF f
<1>3. SumFunctionOnSet(f, S) = MboxBlocks * Cardinality(S)
  BY <1>1, <1>2, SumConstant
<1> QED
  BY <1>3 DEF BlocksOf, f

-----------------------------------------------------------------------------
(* Memory and control blocks suffice.                                       *)

(* Either this is the first try that went so far, and it has got all it     *)
(* asked for, or an earlier one still holds all it took and this one fails. *)
FirstTry ==
  /\ at # "fail" /\ \A r \in heap : r[1] # "mbox" => r[2] = try
  /\ at \in {"eth", "lwip"} => \A j \in 1..4 : j < i => ptr[Group[j]] = try
OldTry ==
  /\ at \in {"eth", "lwip", "fail"}
  /\ \E n \in Nat : (n # try \/ at = "fail") /\ Whole(n) \subseteq heap
MemoryInv ==
  /\ FirstTry \/ OldTry
  /\ at # "up" => Used <= Pool
  /\ ~nullWrite

(* A netconn that nobody is making has both parts of its mailbox or none.   *)
PairInv == \A c \in Conn : c # ac => (conn[c].mbox # 0 <=> conn[c].q)

(* Who undoes a netconn met the limit, and meanwhile no client goes; the     *)
(* place accept_function saw in the acceptmbox is still there.              *)
RefusalInv ==
  /\ Len(acceptq) <= AcceptCap
  /\ al # None /\ srv # "new" => Len(acceptq) < AcceptCap
  /\ al \in {"undomem", "undosem", "undoconn"} => Cardinality(Busy) >= Clients

EnoughInv == MemoryInv /\ PairInv /\ RefusalInv

LEMMA UsedNext == Used' = RecvBlocks + BlocksOf(heap')
BY DEF Used, BlocksOf, SumFunction, Blocks

LEMMA HeapIsRuns == HeapType => heap \in SUBSET Run /\ IsFiniteSet(heap) /\ BlocksOf(heap) \in Nat
BY BlocksNat DEF HeapType, Run

(* Before the kernel runs, the pool has no mailbox.                         *)
LEMMA BootRuns ==
  ASSUME Types, QuietInv, MboxInv, at # "up"
  PROVE  \A r \in heap : r[1] \in Piece /\ r[2] \in Nat \ {0} /\ r = <<r[1], r[2]>>
<1> SUFFICES ASSUME NEW r \in heap
             PROVE  r[1] \in Piece /\ r[2] \in Nat \ {0} /\ r = <<r[1], r[2]>>
  OBVIOUS
<1>1. r[1] \in Piece \cup {"mbox"} /\ r[2] \in Nat \ {0} /\ r = <<r[1], r[2]>>
  BY DEF Types, HeapType
<1>2. tmbox = 0 /\ \A c \in Conn : conn[c].mbox = 0
  BY DEF QuietInv, FreeConn
<1>3. r[1] # "mbox"
  BY <1>1, <1>2 DEF MboxInv
<1> QED
  BY <1>1, <1>3

(* A pool that has room for what is taken never had more taken.             *)
LEMMA LessUsed ==
  ASSUME HeapType, heap' \subseteq heap, Used <= Pool
  PROVE  Used' <= Pool
<1>1. BlocksOf(heap') <= BlocksOf(heap)
  BY HeapIsRuns, BlocksSubset
<1>2. IsFiniteSet(heap') /\ heap' \in SUBSET Run
  BY HeapIsRuns, FS_Subset
<1>3. BlocksOf(heap') \in Nat
  BY <1>2, BlocksNat
<1> QED
  BY <1>1, <1>3, HeapIsRuns, UsedIs, UsedNext, StartUpAssumption

LEMMA MemoryMalloc ==
  ASSUME Types, TriesInv, QuietInv, MboxInv, MemoryInv, BootMalloc
  PROVE  MemoryInv'
<1> DEFINE p == Group[i]
           r == <<p, try>>
<1>1. /\ at \in {"eth", "lwip"} /\ i \in 1..4 /\ p \in Piece /\ i' = i + 1
      /\ UNCHANGED <<at, try, nullWrite>> /\ Group = IF at = "eth" THEN EthMem ELSE LwipMem
      /\ Group' = Group
      /\ try \in Nat /\ try # 0 /\ ptr \in [Piece -> Nat]
  BY GroupIs DEF BootMalloc, Types, BootType, Group
<1>2. IF Fits(Size[p]) THEN ptr' = [ptr EXCEPT ![p] = try] /\ heap' = heap \cup {r}
                       ELSE ptr' = [ptr EXCEPT ![p] = 0] /\ heap' = heap
  BY DEF BootMalloc
<1>3. r \in Run /\ r \notin heap /\ Blocks(r) = Size[p] /\ Size[p] \in Nat
  <2>1. r \notin heap
    BY <1>1 DEF TriesInv, Partial
  <2> QED
    BY <1>1, <2>1, StartUpAssumption, Different DEF Run, Blocks
<1>4. heap \in SUBSET Run /\ IsFiniteSet(heap) /\ BlocksOf(heap) \in Nat
  BY HeapIsRuns DEF Types
<1> HIDE DEF p, r
<1>5. BlocksOf(heap \cup {r}) = BlocksOf(heap) + Size[p]
  BY <1>3, <1>4, BlocksAdd
<1>6. Used' <= Pool
  <2>1. CASE Fits(Size[p])
    <3>1. RecvBlocks \in Nat
      BY StartUpAssumption
    <3>2. Used + Size[p] <= Pool
      BY <2>1 DEF Fits
    <3>3. heap' = heap \cup {r}
      BY <1>2, <2>1
    <3>4. Used' = RecvBlocks + (BlocksOf(heap) + Size[p])
      BY <1>5, <3>3, UsedNext
    <3> QED
      BY <1>3, <1>4, <3>1, <3>2, <3>4, UsedIs
  <2>2. CASE ~Fits(Size[p])
    BY <1>1, <1>2, <2>2, UsedIs, UsedNext DEF MemoryInv
  <2> QED
    BY <2>1, <2>2
<1>7. CASE FirstTry
  <2>1. heap \cup {r} \subseteq Whole(try)
    <3>1. \A x \in heap : x \in Whole(try)
      BY <1>1, <1>7, BootRuns, Different DEF FirstTry, Whole
    <3>2. r \in Whole(try)
      BY <1>1 DEF Whole, r
    <3> QED
      BY <3>1, <3>2
  <2>2. BlocksOf(heap \cup {r}) <= OneTry
    BY <1>1, <2>1, WholeBlocks, BlocksSubset
  <2>3. Fits(Size[p])
    <3>1. MaxQs * MboxBlocks \in Nat /\ RecvBlocks \in Nat /\ MboxBlocks \in Nat /\ Pool \in Nat
      BY StartUpAssumption
    <3>2. OneTry \in Nat
      BY WholeBlocks, <1>1
    <3> HIDE DEF OneTry
    <3>3. RecvBlocks + OneTry <= Pool
      BY <3>1, <3>2, PoolAssumption
    <3> QED
      BY <1>3, <1>4, <1>5, <2>2, <3>1, <3>2, <3>3, UsedIs DEF Fits
  <2>4. ptr' = [ptr EXCEPT ![p] = try] /\ heap' = heap \cup {r}
    BY <1>2, <2>3
  <2>5. \A x \in heap' : x[1] # "mbox" => x[2] = try'
    BY <1>1, <1>7, <2>4 DEF FirstTry, r
  <2>6. \A j \in 1..4 : j < i' => ptr'[Group[j]] = try'
    BY <1>1, <1>7, <2>4, GroupIs DEF FirstTry, p
  <2> QED
    BY <1>1, <1>6, <2>5, <2>6 DEF MemoryInv, FirstTry
<1>8. CASE OldTry
  <2>1. heap \subseteq heap'
    BY <1>2
  <2> QED
    BY <1>1, <1>6, <1>8, <2>1 DEF MemoryInv, OldTry
<1> QED
  BY <1>7, <1>8 DEF MemoryInv

LEMMA MemoryTest ==
  ASSUME Types, TriesInv, QuietInv, MboxInv, MemoryInv, BootTest
  PROVE  MemoryInv'
<1>0. PICK g \in Groups : g = Group
  BY DEF Group, Groups
<1>1. /\ at \in {"eth", "lwip"} /\ at' \in {"eth", "lwip", "phy", "fail"} /\ i = 5 /\ i' = 1
      /\ UNCHANGED <<try, ptr, nullWrite>>
      /\ g = (IF at = "eth" THEN EthMem ELSE LwipMem) /\ DOMAIN g = 1..4
      /\ try \in Nat /\ try # 0 /\ ptr \in [Piece -> Nat] /\ \A j \in 1..4 : g[j] \in Piece
  BY <1>0, GroupIs DEF BootTest, Types, BootType
<1>2. \A j \in 1..4 : ptr[g[j]] \in {0, try}
  BY <1>1 DEF TriesInv, Partial
<1>3. Used' <= Pool
  <2>1. heap' \subseteq heap /\ Used <= Pool
    BY <1>1 DEF BootTest, MemoryInv
  <2> QED
    BY <2>1, LessUsed DEF Types
<1>4. CASE FirstTry
  <2>1. \A j \in 1..4 : ptr[g[j]] = try
    BY <1>0, <1>1, <1>4 DEF FirstTry
  <2>2. ~Missing(g)
    BY <1>1, <2>1 DEF Missing
  <2>3. heap' = heap /\ at' # "fail"
    BY <1>0, <1>1, <2>2 DEF BootTest
  <2> QED
    BY <1>1, <1>3, <1>4, <2>3 DEF MemoryInv, FirstTry
<1>5. CASE OldTry
  <2>1. PICK n \in Nat : n # try /\ Whole(n) \subseteq heap
    BY <1>1, <1>5 DEF OldTry
  <2>2. CASE Missing(g)
    <3>1. heap' = heap \ Runs(g) /\ at' = "fail"
      BY <1>0, <2>2 DEF BootTest
    <3>2. \A x \in Whole(n) : x[2] = n /\ n # 0
      BY <1>1, <2>1, BootRuns DEF Whole
    <3>3. \A x \in Runs(g) : x[2] \in {0, try}
      BY <1>1, <1>2 DEF Runs
    <3>4. Whole(n) \subseteq heap'
      BY <2>1, <3>1, <3>2, <3>3
    <3> QED
      BY <1>1, <1>3, <3>1, <3>4 DEF MemoryInv, OldTry
  <2>3. CASE ~Missing(g)
    <3>1. heap' = heap /\ at' = IF at = "eth" THEN "lwip" ELSE "phy"
      BY <1>0, <2>3 DEF BootTest
    <3>2. CASE at = "eth"
      BY <1>1, <1>3, <2>1, <3>1, <3>2 DEF MemoryInv, OldTry
    <3>3. CASE at = "lwip"
      <4>1. \A j \in 1..4 : <<g[j], try>> \in heap
        BY <1>1, <2>3 DEF TriesInv, Partial, Missing
      <4>2. Owned(EthMem) /\ g = LwipMem
        BY <1>1, <3>3 DEF TriesInv
      <4>3. Whole(try) \subseteq heap
        BY <4>1, <4>2, PieceOfGroup DEF Owned, Whole
      <4>4. Whole(n) \cap Whole(try) = {}
        BY <2>1 DEF Whole
      <4>5. BlocksOf(Whole(n) \cup Whole(try)) = OneTry + OneTry
        BY <1>1, <4>4, WholeBlocks, BlocksUnion
      <4>6. OneTry + OneTry <= BlocksOf(heap)
        BY <2>1, <4>3, <4>5, HeapIsRuns, BlocksSubset DEF Types
      <4>7. RecvBlocks + OneTry + OneTry <= Pool
        <5>1. RecvBlocks \in Nat /\ OneTry \in Nat /\ BlocksOf(heap) \in Nat /\ Pool \in Nat
          BY <1>1, WholeBlocks, HeapIsRuns, StartUpAssumption DEF Types
        <5>2. RecvBlocks + BlocksOf(heap) <= Pool
          BY <1>1, UsedIs DEF MemoryInv
        <5> HIDE DEF OneTry
        <5> QED
          BY <4>6, <5>1, <5>2
      <4> HIDE DEF OneTry
      <4> QED
        BY <1>1, <4>7, WholeBlocks, PoolAssumption, StartUpAssumption
    <3> QED
      BY <1>1, <3>2, <3>3
  <2> QED
    BY <2>2, <2>3
<1> QED
  BY <1>4, <1>5 DEF MemoryInv

LEMMA MemoryBoot ==
  ASSUME Types, TriesInv, QuietInv, MboxInv, MemoryInv, BootPhy \/ BootTcpip \/ BootRetry \/ Cable
  PROVE  MemoryInv'
<1>1. CASE BootPhy
  <2>1. UNCHANGED <<i, try, ptr, heap, nullWrite>> /\ at = "phy" /\ at' \in {"fail", "tcpip"}
    BY <1>1 DEF BootPhy
  <2>2. Used' <= Pool /\ FirstTry
    BY <2>1, UsedIs, UsedNext DEF MemoryInv, OldTry
  <2>3. Whole(try) \subseteq heap /\ try \in Nat
    BY <2>1, PieceOfGroup DEF TriesInv, Owned, Whole, Types, BootType
  <2> QED
    BY <2>1, <2>2, <2>3 DEF MemoryInv, FirstTry, OldTry
<1>2. CASE BootTcpip
  <2>1. /\ UNCHANGED <<i, try, ptr, nullWrite>> /\ at = "tcpip" /\ at' = "up"
        /\ heap' = heap \cup {<<"mbox", NewMbox>>}
    BY <1>2 DEF BootTcpip
  <2> QED
    BY <2>1 DEF MemoryInv, FirstTry, OldTry
<1>3. CASE BootRetry
  <2>1. UNCHANGED <<i, ptr, heap, nullWrite>> /\ at = "fail" /\ at' = "eth" /\ try' = NewNumber(Piece)
    BY <1>3 DEF BootRetry
  <2>2. PICK n \in Nat : Whole(n) \subseteq heap
    BY <2>1 DEF MemoryInv, FirstTry, OldTry
  <2>3. n # try'
    BY <2>1, <2>2, NewNumberFree, PieceFinite DEF Types, Whole
  <2>4. Used' <= Pool
    BY <2>1, UsedIs, UsedNext DEF MemoryInv
  <2> QED
    BY <2>1, <2>2, <2>3, <2>4 DEF MemoryInv, OldTry
<1>4. CASE Cable
  <2>1. UNCHANGED <<at, i, try, ptr, heap, nullWrite>>
    BY <1>4 DEF Cable
  <2>2. Used' = Used /\ Group' = Group
    BY <2>1, UsedIs, UsedNext DEF Group
  <2> QED
    BY <2>1, <2>2 DEF MemoryInv, FirstTry, OldTry
<1> QED
  BY <1>1, <1>2, <1>3, <1>4

(* The kernel runs: what lwip_comm_init took stays as it is.                *)
LEMMA PairUp ==
  ASSUME Types, NetconnInv, PairInv, Alloc \/ Server \/ DelConn \/ Decode
  PROVE  PairInv'
<1>0. ConnType /\ AllocInv /\ ServeInv /\ conn \in [Conn -> Netconn]
  BY DEF Types, ConnType, NetconnInv
<1>1. ASSUME NEW c \in Conn, Only(c), ac' = c, ac \in {c, None}
      PROVE  PairInv'
  BY <1>1, NoneIsNoConn DEF PairInv, Only
<1>2. ASSUME \A c \in Conn : conn'[c].mbox = conn[c].mbox /\ conn'[c].q = conn[c].q,
             ac' = ac \/ (conn[ac].mbox # 0 <=> conn[ac].q)
      PROVE  PairInv'
  BY <1>2 DEF PairInv
<1>3. CASE AllocConn
  <2>1. PICK c \in Conn : ac' = c /\ Set(c, "st", "open")
    BY <1>3 DEF AllocConn
  <2>2. Only(c) /\ ac = None
    BY <1>0, <1>3, <2>1, SetField DEF AllocConn, AllocInv
  <2> QED
    BY <1>1, <2>1, <2>2
<1>4. CASE AllocSem \/ AllocMem \/ AllocEvent \/ AllocQueue \/ UndoMem \/ UndoSem
  <2>1. ac \in Conn /\ ac' = ac
    BY <1>0, <1>4, AtWork
       DEF AllocSem, AllocMem, AllocEvent, AllocQueue, UndoMem, UndoSem, None
  <2>2. NewMbox \in Nat
    BY NewNumberFree DEF NewMbox, Types
  <2>3. \/ conn' = conn \/ Set(ac, "sem", TRUE) \/ Set(ac, "mbox", NewMbox) \/ Set(ac, "q", TRUE)
        \/ Set(ac, "mbox", 0) \/ Set(ac, "sem", FALSE)
    BY <1>4 DEF AllocSem, AllocMem, AllocEvent, AllocQueue, UndoMem, UndoSem
  <2>4. Only(ac)
    <3>1. CASE conn' = conn
      BY <3>1 DEF Only
    <3>2. CASE conn' # conn
      BY <1>0, <2>1, <2>2, <2>3, <3>2, SetField
    <3> QED
      BY <3>1, <3>2
  <2> QED
    BY <1>1, <2>1, <2>4
<1>5. CASE AllocDone \/ Listen
  <2>1. conn' = conn /\ ac \in Conn /\ (conn[ac].mbox # 0 <=> conn[ac].q)
    BY <1>0, <1>5, AtWork DEF AllocDone, Listen, AllocInv, None
  <2> QED
    BY <2>1, <1>2
<1>6. CASE UndoConn
  <2>1. Set(ac, "st", "free") /\ ac \in Conn /\ (conn[ac].mbox # 0 <=> conn[ac].q)
    BY <1>0, <1>6, AtWork DEF UndoConn, AllocInv, None
  <2>2. \A c \in Conn : conn'[c].mbox = conn[c].mbox /\ conn'[c].q = conn[c].q
    BY <1>0, <2>1, SetField DEF Only
  <2> QED
    BY <2>1, <2>2, <1>2
<1>7. CASE DelConn
  <2>1. cl \in Conn /\ ac' = ac
    BY <1>0, <1>7, AtServe DEF DelConn
  <2>2. Only(cl) /\ conn'[cl].mbox = 0 /\ conn'[cl].q = FALSE
    BY <1>0, <1>7, <2>1, DelFields DEF DelConn
  <2> QED
    BY <2>1, <2>2 DEF PairInv, Only
<1>8. CASE DelSem \/ DelFree
  <2>1. cl \in Conn /\ ac' = ac
    BY <1>0, <1>8, AtServe DEF DelSem, DelFree
  <2>2. Set(cl, "sem", FALSE) \/ Set(cl, "st", "free")
    BY <1>8 DEF DelSem, DelFree
  <2>3. \A c \in Conn : conn'[c].mbox = conn[c].mbox /\ conn'[c].q = conn[c].q
    BY <1>0, <2>1, <2>2, SetField DEF Only
  <2> QED
    BY <1>2, <2>1, <2>3
<1>9. CASE Accept \/ Decode
  BY <1>2, <1>9 DEF Accept, Decode
<1> QED
  BY <1>3, <1>4, <1>5, <1>6, <1>7, <1>8, <1>9 DEF Alloc, Server

(* A mailbox for every queue control block, and no more.                    *)
LEMMA MboxesFew ==
  ASSUME Types, QuietInv, NetconnInv, MboxInv, CountInv, PairInv, at = "up", al \in {None, "mem"}
  PROVE  LET M == {r \in heap : r[1] = "mbox"}
         IN  IsFiniteSet(M) /\ Cardinality(M) \in Nat /\ Cardinality(M) <= MaxQs
<1> DEFINE M == {r \in heap : r[1] = "mbox"}
           D == Qs \cup {None}
           f == [x \in D |-> IF x = None THEN <<"mbox", tmbox>> ELSE <<"mbox", conn[x].mbox>>]
           I == {f[x] : x \in D}
<1>1. IsFiniteSet(Qs) /\ Cardinality(Qs) \in Nat /\ None \notin Qs
  BY Counts, NoneIsNoConn DEF Types, Qs
<1>2. IsFiniteSet(D) /\ Cardinality(D) = Cardinality(Qs) + 1
  BY <1>1, FS_AddElement
<1>3. f \in Surjection(D, I)
  BY DEF Surjection
<1>4. M \subseteq I
  <2> SUFFICES ASSUME NEW r \in M PROVE r \in I
    OBVIOUS
  <2>1. r = <<"mbox", r[2]>> /\ r[2] \in Nat
    BY DEF Types, HeapType
  <2>2. r[2] # 0 /\ (r[2] = tmbox \/ \E c \in Conn : conn[c].mbox = r[2])
    BY <2>1 DEF MboxInv
  <2>3. CASE r[2] = tmbox
    <3>1. f[None] = r /\ None \in D
      BY <2>1, <2>3
    <3> QED
      BY <3>1
  <2>4. CASE \E c \in Conn : conn[c].mbox = r[2]
    <3>1. PICK c \in Conn : conn[c].mbox = r[2]
      BY <2>4
    <3>2. c # ac
      BY <2>2, <3>1, NoneIsNoConn DEF NetconnInv, AllocInv, None
    <3>3. c \in Qs /\ c # None
      BY <2>2, <3>1, <3>2, NoneIsNoConn DEF PairInv, Qs
    <3>4. f[c] = r /\ c \in D
      BY <2>1, <3>1, <3>3
    <3> QED
      BY <3>4
  <2> QED
    BY <2>2, <2>3, <2>4
<1> HIDE DEF M, D, f, I
<1>5. IsFiniteSet(I) /\ Cardinality(I) <= Cardinality(D)
  BY <1>2, <1>3, FS_Surjection
<1>6. IsFiniteSet(M) /\ Cardinality(M) <= Cardinality(I)
  BY <1>4, <1>5, FS_Subset
<1>7. Cardinality(M) \in Nat /\ Cardinality(I) \in Nat
  BY <1>5, <1>6, FS_CardinalityType
<1>8. Cardinality(Qs) + 1 <= MaxQs
  <2>1. qFree \in Nat /\ Started = 1 /\ MaxQs \in Nat
    BY StartUpAssumption DEF Types, FreeType, Started
  <2> QED
    BY <1>1, <2>1 DEF CountInv
<1>9. Cardinality(M) <= MaxQs
  BY <1>1, <1>2, <1>5, <1>6, <1>7, <1>8, StartUpAssumption
<1> QED
  BY <1>6, <1>7, <1>9 DEF M

LEMMA TimesMono ==
  ASSUME NEW k \in Nat, NEW m \in Nat, NEW n \in Nat, m <= n
  PROVE  k * m <= n * k /\ k * m \in Nat /\ n * k \in Nat
<1>1. PICK d \in Nat : n = m + d
  <2>1. n - m \in Nat /\ n = m + (n - m)
    OBVIOUS
  <2> QED
    BY <2>1
<1>2. n * k = k * m + k * d
  BY <1>1
<1>3. k * d \in Nat /\ k * m \in Nat
  OBVIOUS
<1> QED
  BY <1>2, <1>3

LEMMA UpUsed ==
  ASSUME Types, QuietInv, NetconnInv, MboxInv, CountInv, MemoryInv, PairInv,
         at = "up", al \in {None, "mem"}
  PROVE  Fits(MboxBlocks) /\ Fits(TextBlocks)
<1> DEFINE M == {r \in heap : r[1] = "mbox"}
           T == {r \in heap : r[1] # "mbox"}
<1>1. try \in Nat /\ heap \in SUBSET Run /\ IsFiniteSet(heap)
  BY HeapIsRuns DEF Types, BootType
<1>2. T \subseteq Whole(try)
  <2> SUFFICES ASSUME NEW r \in heap, r[1] # "mbox" PROVE r \in Whole(try)
    OBVIOUS
  <2>1. r = <<r[1], r[2]>> /\ r[1] \in Piece /\ r[2] = try
    BY DEF Types, HeapType, MemoryInv, FirstTry, OldTry
  <2> QED
    BY <2>1 DEF Whole
<1>3. M \in SUBSET Run /\ T \in SUBSET Run /\ T \cap M = {} /\ T \cup M = heap
  BY <1>1
<1>4. IsFiniteSet(M) /\ IsFiniteSet(T) /\ Cardinality(M) \in Nat /\ Cardinality(M) <= MaxQs
  BY <1>1, <1>3, MboxesFew, FS_Subset
<1>5. BlocksOf(M) = MboxBlocks * Cardinality(M)
  BY <1>3, <1>4, MboxBlocksOf
<1> HIDE DEF M, T
<1>6. BlocksOf(T) <= OneTry /\ BlocksOf(T) \in Nat /\ OneTry \in Nat
  BY <1>1, <1>2, <1>3, <1>4, WholeBlocks, BlocksSubset, BlocksNat
<1>7. BlocksOf(heap) = BlocksOf(T) + BlocksOf(M)
  BY <1>3, <1>4, BlocksUnion
<1>8. /\ MboxBlocks * Cardinality(M) <= MaxQs * MboxBlocks
      /\ MboxBlocks * Cardinality(M) \in Nat /\ MaxQs * MboxBlocks \in Nat
  BY <1>4, TimesMono, StartUpAssumption
<1> DEFINE k == MaxQs * MboxBlocks
<1>9. BlocksOf(M) <= k /\ BlocksOf(M) \in Nat /\ k \in Nat
  BY <1>5, <1>8
<1>10. /\ RecvBlocks \in Nat /\ MboxBlocks \in Nat /\ TextBlocks \in Nat /\ Pool \in Nat
  BY StartUpAssumption
<1>11. RecvBlocks + OneTry + k + MboxBlocks <= Pool /\ RecvBlocks + OneTry + k + TextBlocks <= Pool
  BY PoolAssumption
<1>12. Used = RecvBlocks + (BlocksOf(T) + BlocksOf(M))
  BY <1>7, UsedIs
<1> HIDE DEF OneTry, k
<1>13. Used + MboxBlocks <= Pool /\ Used + TextBlocks <= Pool
  BY <1>6, <1>9, <1>10, <1>11, <1>12
<1> QED
  BY <1>13 DEF Fits

LEMMA MemoryUp ==
  ASSUME Types, QuietInv, NetconnInv, MboxInv, CountInv, MemoryInv, PairInv,
         Alloc \/ Server \/ DelConn \/ Decode
  PROVE  MemoryInv'
<1>1. at = "up" /\ UNCHANGED <<at, try>>
  <2>1. UNCHANGED try
    BY DEF Alloc, AllocConn, AllocSem, AllocMem, AllocEvent, AllocQueue, AllocDone,
           UndoMem, UndoSem, UndoConn, Server, Listen, Accept, DelConn, DelSem, DelFree, Decode, boot
  <2> QED
    BY <2>1, UpFirst
<1>2. heap' = heap \/ \E n : heap' = heap \cup {<<"mbox", n>>} \/ heap' = heap \ {<<"mbox", n>>}
  BY Zenon
     DEF Alloc, AllocConn, AllocSem, AllocMem, AllocEvent, AllocQueue, AllocDone,
         UndoMem, UndoSem, UndoConn, Server, Listen, Accept, DelConn, DelSem, DelFree, Decode
<1>3. \A r \in heap' : r[1] # "mbox" => r \in heap
  BY <1>2
<1>4. ~nullWrite'
  <2>1. CASE Decode
    <3>1. al = None
      BY <2>1 DEF Decode
    <3>2. Fits(TextBlocks)
      BY <1>1, <3>1, UpUsed
    <3> QED
      BY <2>1, <3>2 DEF Decode, MemoryInv
  <2>2. CASE ~Decode
    BY <2>2
       DEF Alloc, AllocConn, AllocSem, AllocMem, AllocEvent, AllocQueue, AllocDone,
           UndoMem, UndoSem, UndoConn, Server, Listen, Accept, DelConn, DelSem, DelFree, MemoryInv
  <2> QED
    BY <2>1, <2>2
<1> QED
  BY <1>1, <1>3, <1>4 DEF MemoryInv, FirstTry, OldTry

LEMMA BusyFacts ==
  ASSUME Types, NetconnInv
  PROVE  /\ IsFiniteSet(Busy) /\ Cardinality(Busy) \in Nat
         /\ \A X \in SUBSET Conn : (\A c \in X : conn[c].st = "open") =>
              /\ ac \notin X => Cardinality(X) <= Cardinality(Busy) + 1
              /\ Cardinality(X) <= Cardinality(Busy) + 2
              /\ Cardinality(X) \in Nat
<1>1. IsFiniteSet(Busy) /\ Cardinality(Busy) \in Nat
  <2>1. Busy \subseteq Conn
    BY DEF Busy
  <2> QED
    BY <2>1, StartUpAssumption, FS_Subset, FS_CardinalityType
<1> SUFFICES ASSUME NEW X \in SUBSET Conn, \A c \in X : conn[c].st = "open"
             PROVE  /\ ac \notin X => Cardinality(X) <= Cardinality(Busy) + 1
                    /\ Cardinality(X) <= Cardinality(Busy) + 2
                    /\ Cardinality(X) \in Nat
  BY <1>1
<1> DEFINE B == Busy
           L == B \cup {lis}
           A == L \cup {ac}
<1>2. X \subseteq A /\ (ac \notin X => X \subseteq L)
  BY DEF Busy
<1> HIDE DEF B
<1>3. IsFiniteSet(B) /\ Cardinality(B) \in Nat
  BY <1>1 DEF B
<1>4. IsFiniteSet(L) /\ Cardinality(L) \in Nat /\ Cardinality(L) <= Cardinality(B) + 1
  BY <1>3, FS_AddElement, FS_CardinalityType
<1> HIDE DEF L
<1>5. IsFiniteSet(A) /\ Cardinality(A) \in Nat /\ Cardinality(A) <= Cardinality(B) + 2
  <2>1. IsFiniteSet(A) /\ (Cardinality(A) = Cardinality(L) \/ Cardinality(A) = Cardinality(L) + 1)
    BY <1>4, FS_AddElement
  <2> QED
    BY <1>3, <1>4, <2>1
<1> HIDE DEF A
<1>6. Cardinality(X) <= Cardinality(A) /\ Cardinality(X) \in Nat
  BY <1>2, <1>5, FS_Subset, FS_CardinalityType
<1>7. ac \notin X => Cardinality(X) <= Cardinality(L)
  BY <1>2, <1>4, FS_Subset
<1>8. /\ ac \notin X => Cardinality(X) <= Cardinality(B) + 1
      /\ Cardinality(X) <= Cardinality(B) + 2
  BY <1>3, <1>4, <1>5, <1>6, <1>7
<1> QED
  BY <1>6, <1>8 DEF B

LEMMA ClientsFew ==
  ASSUME NEW n \in Nat, MaxEvents <= 2 * n + 7 \/ MaxQs <= n + 2
  PROVE  n >= Clients
<1>1. MaxEvents \in Nat /\ MaxQs \in Nat
  BY StartUpAssumption
<1>2. CASE MaxEvents <= 2 * n + 7
  <2>1. (MaxEvents - 6) \div 2 <= n
    BY <1>1, <1>2
  <2>2. (MaxEvents - TmrEvents - MutexEvents - 3) \div 2 = (MaxEvents - 6) \div 2
    <3>1. MaxEvents - TmrEvents - MutexEvents - 3 = MaxEvents - 6
      BY <1>1 DEF TmrEvents, MutexEvents
    <3> QED
      BY <3>1
  <2>3. (MaxEvents - 6) \div 2 \in Int /\ MaxQs - 2 \in Int
    BY <1>1
  <2> QED
    BY <2>1, <2>2, <2>3 DEF Clients, Smaller
<1>3. CASE MaxQs <= n + 2
  <2>1. MaxQs - 2 <= n /\ MaxQs - 2 \in Int
    BY <1>1, <1>3
  <2>2. (MaxEvents - TmrEvents - MutexEvents - 3) \div 2 \in Int
    BY <1>1 DEF TmrEvents, MutexEvents
  <2> QED
    BY <2>1, <2>2 DEF Clients, Smaller
<1> QED
  BY <1>2, <1>3

(* Each failure of netconn_alloc has its reason.                            *)
LEMMA Reasons ==
  ASSUME Types, QuietInv, NetconnInv, MboxInv, CountInv, MemoryInv, PairInv, at = "up"
  PROVE  /\ al = "sem" /\ evFree = 0 => Cardinality(Busy) >= Clients
         /\ al = "mem" => Fits(MboxBlocks)
         /\ al = "event" /\ evFree = 0 => Cardinality(Busy) >= Clients
         /\ al = "queue" /\ qFree = 0 => Cardinality(Busy) >= Clients
<1> DEFINE B == Cardinality(Busy)
           s == Cardinality(Sems)
           q == Cardinality(Qs)
<1>1. B \in Nat
  BY BusyFacts
<1>2. /\ Sems \in SUBSET Conn /\ \A c \in Sems : conn[c].st = "open"
      /\ Qs \in SUBSET Conn /\ \A c \in Qs : conn[c].st = "open"
  BY DEF Sems, Qs, NetconnInv, FreeInv, Types, ConnType, Netconn
<1>3. /\ s \in Nat /\ s <= B + 2 /\ (ac \notin Sems => s <= B + 1)
      /\ q \in Nat /\ (ac \notin Qs => q <= B + 1)
  BY <1>2, BusyFacts
<1>4. al \in {"sem", "event", "queue"} => ac \in Conn /\ ac \notin Qs /\ (al = "sem" => ac \notin Sems)
  BY AtWork DEF NetconnInv, AllocInv, Types, None, Sems, Qs
<1>5. /\ evFree + 4 + s + q + Held = MaxEvents /\ qFree + 1 + q = MaxQs
      /\ evFree \in Nat /\ qFree \in Nat /\ MaxEvents \in Nat /\ MaxQs \in Nat
  <2>1. Started = 1
    BY DEF Started
  <2>2. evFree \in Nat /\ qFree \in Nat /\ MaxEvents \in Nat /\ MaxQs \in Nat /\ Held \in Nat
    BY StartUpAssumption DEF Types, FreeType, Held
  <2>3. /\ evFree + 2 + 2 * 1 + s + q + Held = MaxEvents /\ qFree + 1 + q = MaxQs
    BY <2>1 DEF CountInv, TmrEvents
  <2> HIDE DEF s, q
  <2> QED
    BY <1>3, <2>2, <2>3 DEF s, q
<1> HIDE DEF B, s, q
<1>6. CASE al = "sem" /\ evFree = 0
  <2>1. Held = 0
    BY <1>6 DEF Held
  <2>2. MaxEvents <= 2 * B + 7
    BY <1>1, <1>3, <1>4, <1>5, <1>6, <2>1
  <2> QED
    BY <1>1, <1>6, <2>2, ClientsFew DEF B
<1>7. CASE al = "event" /\ evFree = 0
  <2>1. Held = 0
    BY <1>7 DEF Held
  <2>2. MaxEvents <= 2 * B + 7
    BY <1>1, <1>3, <1>4, <1>5, <1>7, <2>1
  <2> QED
    BY <1>1, <1>7, <2>2, ClientsFew DEF B
<1>8. CASE al = "queue" /\ qFree = 0
  <2>1. MaxQs <= B + 2
    BY <1>1, <1>3, <1>4, <1>5, <1>8
  <2> QED
    BY <1>1, <1>8, <2>1, ClientsFew DEF B
<1>9. al = "mem" => Fits(MboxBlocks)
  BY UpUsed
<1> QED
  BY <1>6, <1>7, <1>8, <1>9

LEMMA RefusalUp ==
  ASSUME Types, QuietInv, NetconnInv, MboxInv, CountInv, MemoryInv, PairInv, RefusalInv,
         Alloc \/ Server \/ DelConn \/ Decode
  PROVE  RefusalInv'
<1>0. ConnType /\ AllocInv /\ ServeInv /\ conn \in [Conn -> Netconn] /\ at = "up"
  BY UpFirst DEF Types, ConnType, NetconnInv
<1>1. Len(acceptq') <= AcceptCap
  <2>1. CASE AllocDone
    <3>1. acceptq' = Append(acceptq, ac) /\ ac \in Conn /\ acceptq \in Seq(Conn)
      BY <1>0, <2>1, AtWork DEF AllocDone, None, ConnType
    <3>2. Len(acceptq') = Len(acceptq) + 1 /\ Len(acceptq) \in Nat
      BY <3>1
    <3>3. Len(acceptq) < AcceptCap
      BY <2>1 DEF AllocDone, RefusalInv, None, ByServer
    <3> QED
      BY <3>2, <3>3, StartUpAssumption
  <2>2. CASE Accept
    <3>1. acceptq' = Tail(acceptq) /\ acceptq \in Seq(Conn) /\ acceptq # <<>>
      BY <1>0, <2>2 DEF Accept, ConnType
    <3>2. Len(acceptq') = Len(acceptq) - 1 /\ Len(acceptq) \in Nat
      BY <3>1
    <3> QED
      BY <3>2, StartUpAssumption DEF RefusalInv
  <2>3. CASE ~AllocDone /\ ~Accept
    <3>1. acceptq' = acceptq
      BY <2>3
         DEF Alloc, AllocConn, AllocSem, AllocMem, AllocEvent, AllocQueue,
             UndoMem, UndoSem, UndoConn, Server, Listen, DelConn, DelSem, DelFree, Decode
    <3> QED
      BY <3>1 DEF RefusalInv
  <2> QED
    BY <2>1, <2>2, <2>3
<1>a. al' # None /\ srv' # "new" => Len(acceptq') < AcceptCap
  <2>1. CASE AllocConn
    BY <2>1 DEF AllocConn, ByServer, server
  <2>2. CASE AllocDone \/ UndoConn \/ Server \/ DelConn \/ Decode
    BY <2>2 DEF AllocDone, UndoConn, Server, Listen, Accept, DelSem, DelFree, DelConn, Decode
  <2>3. CASE AllocSem \/ AllocMem \/ AllocEvent \/ AllocQueue \/ UndoMem \/ UndoSem
    <3>1. al # None /\ UNCHANGED <<acceptq, srv>>
      BY <2>3 DEF AllocSem, AllocMem, AllocEvent, AllocQueue, UndoMem, UndoSem, None, server
    <3> QED
      BY <3>1 DEF RefusalInv
  <2> QED
    BY <2>1, <2>2, <2>3 DEF Alloc
<1> DEFINE undo == {"undomem", "undosem", "undoconn"}
<1>2. ASSUME Cardinality(Busy) >= Clients, Busy' = Busy
      PROVE  RefusalInv'
  BY <1>1, <1>a, <1>2 DEF RefusalInv, Clients, Smaller
<1>3. ASSUME al' \notin undo
      PROVE  RefusalInv'
  BY <1>1, <1>a, <1>3 DEF RefusalInv
<1>4. ASSUME UNCHANGED <<lis, ac>>, \A c \in Conn : conn'[c].st = conn[c].st
      PROVE  Busy' = Busy
  BY <1>4 DEF Busy
<1>5. CASE AllocSem
  <2>1. CASE evFree > 0
    BY <1>3, <1>5, <2>1, Zenon DEF AllocSem
  <2>2. CASE ~(evFree > 0)
    <3>1. evFree = 0 /\ al = "sem" /\ UNCHANGED <<conn, lis, ac>>
      BY <1>5, <2>2 DEF AllocSem, Types, FreeType, server
    <3> QED
      BY <1>0, <1>2, <1>4, <3>1, Reasons
  <2> QED
    BY <2>1, <2>2
<1>6. CASE AllocMem
  <2>1. Fits(MboxBlocks)
    BY <1>0, <1>6, Reasons DEF AllocMem
  <2>2. al' = "event"
    BY <1>6, <2>1 DEF AllocMem
  <2> QED
    BY <1>3, <2>2
<1>7. CASE AllocEvent
  <2>1. CASE evFree > 0
    <3>1. al' = "queue"
      BY <1>7, <2>1 DEF AllocEvent
    <3> QED
      BY <1>3, <3>1
  <2>2. CASE ~(evFree > 0)
    <3>1. evFree = 0 /\ al = "event" /\ UNCHANGED <<conn, lis, ac>>
      BY <1>7, <2>2 DEF AllocEvent, Types, FreeType, server
    <3> QED
      BY <1>0, <1>2, <1>4, <3>1, Reasons
  <2> QED
    BY <2>1, <2>2
<1>8. CASE AllocQueue
  <2>1. CASE qFree > 0
    <3>1. al' = "done"
      BY <1>8, <2>1, Zenon DEF AllocQueue
    <3> QED
      BY <1>3, <3>1
  <2>2. CASE ~(qFree > 0)
    <3>1. qFree = 0 /\ al = "queue" /\ UNCHANGED <<conn, lis, ac>>
      BY <1>8, <2>2 DEF AllocQueue, Types, FreeType, server
    <3> QED
      BY <1>0, <1>2, <1>4, <3>1, Reasons
  <2> QED
    BY <2>1, <2>2
<1>9. CASE AllocDone
  <2>1. al' = None
    BY <1>9 DEF AllocDone
  <2> QED
    BY <1>3, <2>1 DEF None
<1>10. CASE UndoMem \/ UndoSem
  <2>1. /\ ac \in Conn /\ al \in undo /\ UNCHANGED <<lis, ac, acceptq>>
        /\ Set(ac, "mbox", 0) \/ Set(ac, "sem", FALSE)
    BY <1>0, <1>10, AtWork DEF UndoMem, UndoSem, None, server
  <2>2. \A c \in Conn : conn'[c].st = conn[c].st
    BY <1>0, <2>1, SetField DEF Only
  <2>3. Busy' = Busy
    BY <1>4, <2>1, <2>2
  <2> QED
    BY <1>2, <2>1, <2>3 DEF RefusalInv
<1>11. CASE AllocConn \/ UndoConn \/ Server \/ DelConn \/ Decode
  <2>1. al' = None \/ al' = "sem"
    BY <1>11 DEF AllocConn, UndoConn, Server, Listen, Accept, DelSem, DelFree, DelConn, Decode
  <2> QED
    BY <1>3, <2>1 DEF None
<1> QED
  BY <1>5, <1>6, <1>7, <1>8, <1>9, <1>10, <1>11 DEF Alloc

LEMMA EnoughInit == Init => EnoughInv
<1> SUFFICES ASSUME Init PROVE EnoughInv
  OBVIOUS
<1>1. Used <= Pool
  <2> DEFINE f == [r \in {} |-> Blocks(r)]
  <2>1. BlocksOf({}) = 0
    <3>1. SumFunctionOnSet(f, {}) = 0
      BY SumEmpty
    <3> QED
      BY <3>1 DEF BlocksOf
  <2>2. Used = RecvBlocks
    BY <2>1, UsedIs, StartUpAssumption DEF Init
  <2>3. /\ RecvBlocks \in Nat /\ OneTry \in Nat /\ Pool \in Nat
        /\ MaxQs * MboxBlocks \in Nat /\ MboxBlocks \in Nat
    BY WholeBlocks, StartUpAssumption
  <2> DEFINE k == MaxQs * MboxBlocks
  <2>4. RecvBlocks + OneTry + k + MboxBlocks <= Pool
    BY PoolAssumption
  <2> HIDE DEF k, OneTry
  <2>5. RecvBlocks <= Pool
    BY <2>3, <2>4 DEF k
  <2> QED
    BY <2>2, <2>5
<1>2. MemoryInv
  BY <1>1 DEF Init, MemoryInv, FirstTry
<1>3. PairInv
  BY DEF Init, PairInv, FreeConn
<1>4. RefusalInv
  BY StartUpAssumption DEF Init, RefusalInv, None
<1> QED
  BY <1>2, <1>3, <1>4 DEF EnoughInv

LEMMA EnoughNext == IInv /\ EnoughInv /\ [Next]_vars => EnoughInv'
<1> SUFFICES ASSUME IInv, EnoughInv, [Next]_vars PROVE EnoughInv'
  OBVIOUS
<1>0. /\ Types /\ TriesInv /\ QuietInv /\ NetconnInv /\ MboxInv /\ CountInv
      /\ MemoryInv /\ PairInv /\ RefusalInv
  BY DEF IInv, EnoughInv
<1>1. CASE Boot \/ Cable
  <2>1. MemoryInv'
    BY <1>0, <1>1, MemoryMalloc, MemoryTest, MemoryBoot DEF Boot
  <2>2. UNCHANGED <<conn, al, ac, acceptq, srv, lis, cl>>
    BY <1>1 DEF Boot, BootMalloc, BootTest, BootPhy, BootTcpip, BootRetry, Cable, server
  <2>3. PairInv'
    BY <1>0, <2>2 DEF PairInv
  <2>4. RefusalInv'
    BY <1>0, <2>2 DEF RefusalInv, Busy, Clients, Smaller
  <2> QED
    BY <2>1, <2>3, <2>4 DEF EnoughInv
<1>2. CASE Alloc \/ Server \/ DelConn \/ Decode
  BY <1>0, <1>2, MemoryUp, PairUp, RefusalUp DEF EnoughInv
<1>3. CASE UNCHANGED vars
  <2>1. /\ UNCHANGED <<at, i, try, ptr, heap, nullWrite, conn, al, ac, acceptq, lis, srv>>
    BY <1>3 DEF vars, boot, object, server
  <2>2. Used' = Used /\ Group' = Group
    BY <2>1, UsedIs, UsedNext DEF Group
  <2>3. MemoryInv'
    BY <1>0, <2>1, <2>2 DEF MemoryInv, FirstTry, OldTry
  <2>4. PairInv'
    BY <1>0, <2>1 DEF PairInv
  <2>5. RefusalInv'
    BY <1>0, <2>1 DEF RefusalInv, Busy, Clients, Smaller
  <2> QED
    BY <2>3, <2>4, <2>5 DEF EnoughInv
<1> QED
  BY <1>1, <1>2, <1>3 DEF Next

LEMMA Enough == Spec => []EnoughInv
BY InvInit, InvNext, EnoughInit, EnoughNext, PTL DEF Spec

(* netconn_alloc fails for want of a control block only when the clients    *)
(* there are, or one that is half deleted, have them all, whatever has      *)
(* failed before; memory of the pool is never what is missing.              *)
THEOREM RefusedCorrect == Spec => []RefusedOnlyWhenFull
<1>1. EnoughInv => RefusedOnlyWhenFull
  BY DEF EnoughInv, RefusalInv, RefusedOnlyWhenFull, ByServer, None
<1> QED
  BY <1>1, Enough, PTL

(* Once the kernel runs, one try of lwip_comm_init and the mailboxes of as  *)
(* many netconns as there can be leave room for the decoder's texts.        *)
THEOREM DecodeHasMemoryCorrect == Spec => []DecodeHasMemory
<1>1. EnoughInv => DecodeHasMemory
  BY DEF EnoughInv, MemoryInv, DecodeHasMemory
<1> QED
  BY <1>1, Enough, PTL
=============================================================================
