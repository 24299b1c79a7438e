------------------------------ MODULE MemPool ------------------------------
(***************************************************************************)
(* MALLOC/malloc.c under uC/OS-II: mymem_malloc scans the block map from    *)
(* the top and marks a run, mymem_free clears it, entry by entry and with   *)
(* no lock of their own.  Two tasks use the pool at run time.  tcpip_thread *)
(* (priority 5) allocates and frees mailboxes in sys_mbox_new and           *)
(* sys_mbox_free, unmasked.  spi_task (priority 8) takes two texts in       *)
(* TIMXX_Decode and gives them back, all inside one OS_ENTER_CRITICAL.      *)
(* Either may stand at any map entry when the other becomes ready.          *)
(*                                                                         *)
(* Blocks is what the start-up allocations, which are never freed, left of  *)
(* the pool: they were taken from its top.                                  *)
(***************************************************************************)
EXTENDS Integers, FiniteSets

CONSTANTS
  Blocks,      \* blocks of the pool
  Mbox,        \* mailboxes of the netconns that can be open
  recv_type, recv_cont,   \* the two texts of TIMXX_Decode
  Need         \* blocks each of them asks for: its size over 32 bytes, rounded up

Handle == Mbox \cup {recv_type, recv_cont}
Task == {"tcpip", "spi"}
Block == 0..(Blocks - 1)
NULL == -1

ASSUME MemPoolAssumption ==
  /\ Blocks \in Nat \ {0}
  /\ recv_type \notin Mbox /\ recv_cont \notin Mbox /\ recv_type # recv_cont
  /\ Need \in [Handle -> Nat \ {0}]

VARIABLES
  memmap,      \* memmap[SRAMIN]: 0, or the length of the run the block is in
  ptr,         \* first block of each pointer, NULL if none
  irq,         \* "on", or "spi" inside OS_ENTER_CRITICAL
  spi_pc,      \* TIMXX_Decode: out, malloc twice, free twice
  op,          \* what a task is doing: idle, or inside malloc or free
  arg, offset, index, nmemb    \* its pointer and its loop variables

locals == <<arg, offset, index, nmemb>>
vars == <<memmap, ptr, irq, spi_pc, op, locals>>

Init ==
  /\ memmap = [b \in Block |-> 0] /\ ptr = [h \in Handle |-> NULL]
  /\ irq = "on" /\ spi_pc = "out"
  /\ op = [t \in Task |-> "idle"] /\ arg = [t \in Task |-> recv_type]
  /\ offset = [t \in Task |-> 0] /\ index = [t \in Task |-> 0] /\ nmemb = [t \in Task |-> 0]

(* The smaller priority number runs unless interrupts are off.              *)
MayRun(t) ==
  IF t = "tcpip" THEN irq = "on" ELSE op["tcpip"] = "idle" /\ irq \in {"on", "spi"}

-----------------------------------------------------------------------------
(* mymalloc and myfree, one map entry at a time.  index is cmemb in the     *)
(* scan and i in the marking and clearing loops.                            *)

CallMalloc(t, h) ==
  /\ op[t] = "idle" /\ ptr[h] = NULL
  /\ op' = [op EXCEPT ![t] = "scan"] /\ arg' = [arg EXCEPT ![t] = h]
  /\ nmemb' = [nmemb EXCEPT ![t] = Need[h]]
  /\ offset' = [offset EXCEPT ![t] = Blocks - 1] /\ index' = [index EXCEPT ![t] = 0]
  /\ UNCHANGED <<memmap, ptr>>

(* cmemb after the entry at offset was read.                                *)
Run(t) == IF memmap[offset[t]] = 0 THEN index[t] + 1 ELSE 0

Scan(t) ==   \* NULL is returned when the whole map was searched
  /\ MayRun(t) /\ op[t] = "scan"
  /\ IF offset[t] < 0
       THEN op' = [op EXCEPT ![t] = "idle"] /\ UNCHANGED <<offset, index>>
       ELSE IF Run(t) = nmemb[t]
              THEN op' = [op EXCEPT ![t] = "mark"] /\ index' = [index EXCEPT ![t] = 0]
                   /\ UNCHANGED offset
              ELSE /\ offset' = [offset EXCEPT ![t] = @ - 1]
                   /\ index' = [index EXCEPT ![t] = Run(t)]
                   /\ UNCHANGED op
  /\ UNCHANGED <<memmap, ptr, irq, spi_pc, arg, nmemb>>

(* Faulty variant: i <= nmemb in the marking loop. *)
MarkOneMore(t) ==
  /\ MayRun(t) /\ op[t] = "mark"
  /\ IF index[t] <= nmemb[t]
       THEN /\ memmap' = [memmap EXCEPT ![offset[t] + index[t]] = nmemb[t]]
            /\ index' = [index EXCEPT ![t] = @ + 1]
            /\ UNCHANGED <<op, ptr>>
       ELSE /\ ptr' = [ptr EXCEPT ![arg[t]] = offset[t]]
            /\ op' = [op EXCEPT ![t] = "idle"]
            /\ UNCHANGED <<memmap, index>>
  /\ UNCHANGED <<irq, spi_pc, arg, offset, nmemb>>

Mark(t) ==
  /\ MayRun(t) /\ op[t] = "mark"
  /\ IF index[t] < nmemb[t]
       THEN /\ memmap' = [memmap EXCEPT ![offset[t] + index[t]] = nmemb[t]]
            /\ index' = [index EXCEPT ![t] = @ + 1]
            /\ UNCHANGED <<op, ptr>>
       ELSE /\ ptr' = [ptr EXCEPT ![arg[t]] = offset[t]]
            /\ op' = [op EXCEPT ![t] = "idle"]
            /\ UNCHANGED <<memmap, index>>
  /\ UNCHANGED <<irq, spi_pc, arg, offset, nmemb>>

CallFree(t, h) == \* the length of the run is read from the map
  /\ op[t] = "idle" /\ ptr[h] # NULL
  /\ op' = [op EXCEPT ![t] = "free"] /\ arg' = [arg EXCEPT ![t] = h]
  /\ nmemb' = [nmemb EXCEPT ![t] = memmap[ptr[h]]]
  /\ offset' = [offset EXCEPT ![t] = ptr[h]] /\ index' = [index EXCEPT ![t] = 0]
  /\ UNCHANGED <<memmap, ptr>>

(* Faulty variant: the last block of the run is forgotten. *)
ClearOneLess(t) ==
  /\ MayRun(t) /\ op[t] = "free"
  /\ IF index[t] < nmemb[t] - 1
       THEN /\ memmap' = [memmap EXCEPT ![offset[t] + index[t]] = 0]
            /\ index' = [index EXCEPT ![t] = @ + 1]
            /\ UNCHANGED <<op, ptr>>
       ELSE /\ ptr' = [ptr EXCEPT ![arg[t]] = NULL]
            /\ op' = [op EXCEPT ![t] = "idle"]
            /\ UNCHANGED <<memmap, index>>
  /\ UNCHANGED <<irq, spi_pc, arg, offset, nmemb>>

Clear(t) ==
  /\ MayRun(t) /\ op[t] = "free"
  /\ IF index[t] < nmemb[t]
       THEN /\ memmap' = [memmap EXCEPT ![offset[t] + index[t]] = 0]
            /\ index' = [index EXCEPT ![t] = @ + 1]
            /\ UNCHANGED <<op, ptr>>
       ELSE /\ ptr' = [ptr EXCEPT ![arg[t]] = NULL]
            /\ op' = [op EXCEPT ![t] = "idle"]
            /\ UNCHANGED <<memmap, index>>
  /\ UNCHANGED <<irq, spi_pc, arg, offset, nmemb>>

-----------------------------------------------------------------------------
(* The two callers.                                                         *)

MboxNew(m) == MayRun("tcpip") /\ CallMalloc("tcpip", m) /\ UNCHANGED <<irq, spi_pc>>
MboxFree(m) == MayRun("tcpip") /\ CallFree("tcpip", m) /\ UNCHANGED <<irq, spi_pc>>

(* Faulty variant: TIMXX_Decode is called with interrupts on. *)
DecodeEnterUnmasked ==
  /\ MayRun("spi") /\ spi_pc = "out" /\ irq = "on"
  /\ spi_pc' = "type"
  /\ UNCHANGED <<memmap, ptr, irq, op, locals>>

DecodeEnter ==
  /\ MayRun("spi") /\ spi_pc = "out" /\ irq = "on"
  /\ irq' = "spi" /\ spi_pc' = "type"
  /\ UNCHANGED <<memmap, ptr, op, locals>>

DecodeMalloc(h, from, to) ==
  /\ MayRun("spi") /\ spi_pc = from
  /\ CallMalloc("spi", h)
  /\ spi_pc' = to /\ UNCHANGED irq

DecodeFree(h, from, to) ==   \* myfree returns at once for NULL
  /\ MayRun("spi") /\ spi_pc = from /\ op["spi"] = "idle"
  /\ \/ CallFree("spi", h)
     \/ ptr[h] = NULL /\ UNCHANGED <<memmap, ptr, op, locals>>
  /\ spi_pc' = to /\ UNCHANGED irq

DecodeExit ==
  /\ MayRun("spi") /\ spi_pc = "exit" /\ op["spi"] = "idle"
  /\ irq' = "on" /\ spi_pc' = "out"
  /\ UNCHANGED <<memmap, ptr, op, locals>>

Decode ==
  \/ DecodeEnter
  \/ DecodeMalloc(recv_type, "type", "cont") \/ DecodeMalloc(recv_cont, "cont", "free1")
  \/ DecodeFree(recv_type, "free1", "free2") \/ DecodeFree(recv_cont, "free2", "exit")
  \/ DecodeExit

Next ==
  \/ \E t \in Task : Scan(t) \/ Mark(t) \/ Clear(t)
  \/ \E m \in Mbox : MboxNew(m) \/ MboxFree(m)
  \/ Decode

Spec == Init /\ [][Next]_vars

-----------------------------------------------------------------------------
P == INSTANCE Pool

(* The type invariant.                                                      *)
TypeOK ==
  /\ memmap \in [Block -> Nat] /\ ptr \in [Handle -> Block \cup {NULL}]
  /\ irq \in {"on", "spi"}
  /\ spi_pc \in {"out", "type", "cont", "free1", "free2", "exit"}
  /\ op \in [Task -> {"idle", "scan", "mark", "free"}]
  /\ arg \in [Task -> Handle] /\ offset \in [Task -> Block \cup {NULL}]
  /\ index \in [Task -> Nat] /\ nmemb \in [Task -> Nat]
  /\ \A t \in Task : index[t] <= nmemb[t]

(* No block is handed out to two pointers, although mymalloc looks for a    *)
(* run and marks it in two passes that nothing in malloc.c protects.        *)
Disjoint == P!Disjoint

(* While nobody is inside malloc.c the map says exactly who holds what: no  *)
(* block is lost by a free, none is free while it is held.                  *)
MapExact ==
  (\A t \in Task : op[t] = "idle") =>
    \A b \in Block :
      \/ memmap[b] = 0 /\ (\A h \in Handle : b \notin P!Region(h))
      \/ \E h \in Handle : b \in P!Region(h) /\ memmap[b] = Need[h]

(* mymalloc returns NULL only if no run of that length is free.             *)
FailsOnlyWhenFull ==
  [][ \A t \in Task : op[t] = "scan" /\ op'[t] = "idle" =>
        \A o \in Block : ~P!Fits(o, nmemb[t]) ]_vars

(* The two passes look like one step to the callers.                        *)
Atomic == P!Spec

-----------------------------------------------------------------------------
(* What makes these inductive.                                              *)

Taken(b) == \E h \in Handle : b \in P!Region(h)
Passed(t) == offset[t]..(offset[t] + index[t] - 1)     \* blocks marked or cleared so far
Marked(b) == \E t \in Task : op[t] = "mark" /\ b \in Passed(t)
Cleared(b) == \E t \in Task : op[t] = "free" /\ b \in Passed(t)
NoFitAbove(t) == \A o \in Block : o > offset[t] => ~P!Fits(o, nmemb[t])

(* One task at a time is inside malloc.c: spi_task because it masks, and    *)
(* tcpip_thread because it is the one of the smaller priority number.       *)
Exclusive ==
  /\ spi_pc = "out" <=> irq = "on"
  /\ op["spi"] # "idle" => irq = "spi"
  /\ irq = "spi" => op["tcpip"] = "idle"

(* The map, also in the middle of a loop.                                   *)
MapInv ==
  \A b \in Block :
    /\ Taken(b) \/ Marked(b) \/ memmap[b] = 0
    /\ Cleared(b) => memmap[b] = 0
    /\ Marked(b) => memmap[b] # 0
    /\ \A h \in Handle : b \in P!Region(h) /\ ~Cleared(b) => memmap[b] = Need[h]

InPool == \A h \in Handle : ptr[h] # NULL => ptr[h] + Need[h] <= Blocks

(* The loop variables: the scan has a run of exactly index free blocks and  *)
(* passed by no place that fits, the other loops work on the run they got.  *)
OpInv(t) ==
  /\ op[t] # "idle" => nmemb[t] = Need[arg[t]]
  /\ op[t] \in {"scan", "mark"} => ptr[arg[t]] = NULL /\ NoFitAbove(t)
  /\ op[t] = "scan" =>
       LET next == offset[t] + index[t] + 1
       IN /\ index[t] < nmemb[t] /\ next <= Blocks
          /\ \A b \in (offset[t] + 1)..(next - 1) : ~Taken(b)
          /\ next = Blocks \/ Taken(next)
  /\ op[t] = "mark" => /\ offset[t] # NULL /\ P!Fits(offset[t], nmemb[t])
                       /\ \A b \in Passed(t) : memmap[b] = nmemb[t]
  /\ op[t] = "free" => ptr[arg[t]] = offset[t] /\ offset[t] # NULL

IInv == TypeOK /\ Exclusive /\ InPool /\ Disjoint /\ MapInv /\ (\A t \in Task : OpInv(t))
=============================================================================
