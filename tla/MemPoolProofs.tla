--------------------------- MODULE MemPoolProofs ---------------------------
(* Theorems about MemPool, for every size of the pool, every number of      *)
(* mailboxes and all lengths: malloc.c, entry by entry and without a lock,  *)
(* implements Pool under the priorities and the masking of its callers.     *)
EXTENDS MemPool, TLAPS

(* A task that may run in malloc.c is alone there.                          *)
LEMMA Alone ==
  ASSUME Exclusive, NEW t \in Task, MayRun(t)
  PROVE  \A u \in Task : u # t => op[u] = "idle"
  BY DEF Exclusive, MayRun, Task

(* What depends on ptr alone stays as long as ptr does.                     *)
LEMMA PtrSame ==
  ASSUME ptr' = ptr
  PROVE  /\ \A h \in Handle : P!Region(h)' = P!Region(h)
         /\ \A b : Taken(b)' <=> Taken(b)
         /\ \A o, n : P!Fits(o, n)' <=> P!Fits(o, n)
  BY DEF P!Region, P!NULL, Taken, P!Fits

(* With the other task outside, the blocks under way are those of t.        *)
LEMMA Busy ==
  ASSUME NEW t \in Task, \A u \in Task : u # t => op[u] = "idle"
  PROVE  \A b : /\ Marked(b) <=> op[t] = "mark" /\ b \in Passed(t)
                /\ Cleared(b) <=> op[t] = "free" /\ b \in Passed(t)
  BY DEF Marked, Cleared

(* The same after a step that leaves the other task outside.                *)
LEMMA BusyNext ==
  ASSUME NEW t \in Task, \A u \in Task : u # t => op'[u] = "idle"
  PROVE  \A b : /\ Marked(b)' <=> op'[t] = "mark" /\ b \in Passed(t)'
                /\ Cleared(b)' <=> op'[t] = "free" /\ b \in Passed(t)'
  BY DEF Marked, Cleared

(* A task outside malloc.c has nothing to keep.                             *)
LEMMA IdleOp ==
  ASSUME NEW t \in Task, op'[t] = "idle"
  PROVE  OpInv(t)'
  BY DEF OpInv

(* A block that a pointer holds is in the pool, and its entry says so.      *)
LEMMA TakenUsed ==
  ASSUME TypeOK, MapInv, NEW t \in Task, op[t] = "scan",
         \A u \in Task : u # t => op[u] = "idle", NEW b \in Block
  PROVE  memmap[b] = 0 <=> ~Taken(b)
PROOF
<1>1. ~Marked(b) /\ ~Cleared(b)
  BY Busy
<1>2. \A h \in Handle : Need[h] # 0
  BY MemPoolAssumption
<1>. QED BY <1>1, <1>2 DEF MapInv, Taken

-----------------------------------------------------------------------------
(* A call of mymalloc starts a scan over a map that says who holds what.    *)
LEMMA SafeCallMalloc ==
  ASSUME IInv, NEW t \in Task, NEW h \in Handle, MayRun(t), CallMalloc(t, h)
  PROVE  TypeOK' => (InPool /\ Disjoint /\ MapInv /\ (\A u \in Task : OpInv(u)))'
PROOF
<1>. SUFFICES ASSUME TypeOK'
              PROVE  (InPool /\ Disjoint /\ MapInv /\ (\A u \in Task : OpInv(u)))'
  OBVIOUS
<1>. USE MemPoolAssumption
<1>1. TypeOK /\ Exclusive /\ InPool /\ Disjoint /\ MapInv
  BY DEF IInv
<1>2. \A u \in Task : u # t => op[u] = "idle"
  BY <1>1, Alone
<1>3. op[t] = "idle" /\ op'[t] = "scan" /\ ptr' = ptr /\ memmap' = memmap /\ ptr[h] = NULL
  BY <1>1 DEF CallMalloc, TypeOK
<1>4. \A u \in Task : u # t => op'[u] = "idle"
  BY <1>1, <1>2 DEF CallMalloc, TypeOK
<1>5. (InPool /\ Disjoint)'
  BY <1>1, <1>3, PtrSame DEF InPool, Disjoint, P!Disjoint
<1>6. MapInv'
  BY <1>1, <1>2, <1>3, <1>4, PtrSame, Busy, BusyNext DEF MapInv
<1>7. /\ arg'[t] = h /\ nmemb'[t] = Need[h]
      /\ offset'[t] = Blocks - 1 /\ index'[t] = 0
  BY <1>1 DEF CallMalloc, TypeOK
<1>8. OpInv(t)'
  <2>1. NoFitAbove(t)'
    BY <1>7, SMT DEF NoFitAbove, Block
  <2>. QED BY <1>3, <1>7, <2>1, SMT DEF OpInv, NULL
<1>. QED BY <1>4, <1>5, <1>6, <1>8, IdleOp

(* A call of myfree reads the length its malloc wrote.                      *)
LEMMA SafeCallFree ==
  ASSUME IInv, NEW t \in Task, NEW h \in Handle, MayRun(t), CallFree(t, h)
  PROVE  TypeOK' => (InPool /\ Disjoint /\ MapInv /\ (\A u \in Task : OpInv(u)))'
PROOF
<1>. SUFFICES ASSUME TypeOK'
              PROVE  (InPool /\ Disjoint /\ MapInv /\ (\A u \in Task : OpInv(u)))'
  OBVIOUS
<1>. USE MemPoolAssumption
<1>1. TypeOK /\ Exclusive /\ InPool /\ Disjoint /\ MapInv
  BY DEF IInv
<1>2. \A u \in Task : u # t => op[u] = "idle"
  BY <1>1, Alone
<1>3. op[t] = "idle" /\ op'[t] = "free" /\ ptr' = ptr /\ memmap' = memmap /\ ptr[h] # NULL
  BY <1>1 DEF CallFree, TypeOK
<1>4. \A u \in Task : u # t => op'[u] = "idle"
  BY <1>1, <1>2 DEF CallFree, TypeOK
<1>5. (InPool /\ Disjoint)'
  BY <1>1, <1>3, PtrSame DEF InPool, Disjoint, P!Disjoint
<1>6. arg'[t] = h /\ nmemb'[t] = memmap[ptr[h]] /\ offset'[t] = ptr[h] /\ index'[t] = 0
  BY <1>1 DEF CallFree, TypeOK
<1>7. Passed(t)' = {}
  BY <1>1, <1>6, <1>3, SMT DEF Passed, TypeOK, Block
<1>8. MapInv'
  BY <1>1, <1>2, <1>3, <1>4, <1>7, PtrSame, Busy, BusyNext DEF MapInv
<1>9. memmap[ptr[h]] = Need[h]
  <2>1. ptr[h] \in Block /\ ptr[h] \in P!Region(h)
    BY <1>1, <1>3, SMT DEF TypeOK, P!Region, P!NULL, NULL, Block
  <2>2. ~Cleared(ptr[h])
    BY <1>2, <1>3, Busy
  <2>. QED BY <1>1, <2>1, <2>2 DEF MapInv
<1>10. OpInv(t)'
  BY <1>3, <1>6, <1>9, SMT DEF OpInv
<1>. QED BY <1>4, <1>5, <1>8, <1>10, IdleOp

(* One entry of the scan: the run of free blocks grows, begins again below  *)
(* a used block, or is long enough; and no place is passed that fits.       *)
LEMMA SafeScan ==
  ASSUME IInv, NEW t \in Task, Scan(t)
  PROVE  TypeOK' => (InPool /\ Disjoint /\ MapInv /\ (\A u \in Task : OpInv(u)))'
PROOF
<1>. SUFFICES ASSUME TypeOK'
              PROVE  (InPool /\ Disjoint /\ MapInv /\ (\A u \in Task : OpInv(u)))'
  OBVIOUS
<1>. USE MemPoolAssumption
<1>1. TypeOK /\ Exclusive /\ InPool /\ Disjoint /\ MapInv /\ OpInv(t)
  BY DEF IInv
<1>2. \A u \in Task : u # t => op[u] = "idle"
  BY <1>1, Alone DEF Scan
<1>3. op[t] = "scan" /\ ptr' = ptr /\ memmap' = memmap /\ arg' = arg /\ nmemb' = nmemb
  BY DEF Scan
<1>4. \A u \in Task : u # t => op'[u] = "idle"
  BY <1>1, <1>2 DEF Scan, TypeOK
<1>5. (InPool /\ Disjoint)'
  BY <1>1, <1>3, PtrSame DEF InPool, Disjoint, P!Disjoint
<1>6. /\ offset[t] \in Block \cup {NULL} /\ index[t] \in Nat /\ nmemb[t] \in Nat
      /\ arg[t] \in Handle /\ nmemb[t] = Need[arg[t]] /\ ptr[arg[t]] = NULL
      /\ NoFitAbove(t) /\ index[t] < nmemb[t] /\ offset[t] + index[t] + 1 <= Blocks
      /\ \A b \in (offset[t] + 1)..(offset[t] + index[t]) : ~Taken(b)
      /\ offset[t] + index[t] + 1 = Blocks \/ Taken(offset[t] + index[t] + 1)
  BY <1>1, <1>3, SMT DEF OpInv, TypeOK, Block, NULL
<1>7. CASE op'[t] = "idle"
  <2>1. MapInv'
    BY <1>1, <1>2, <1>3, <1>4, <1>7, PtrSame, Busy, BusyNext DEF MapInv
  <2>. QED BY <1>4, <1>5, <1>7, <2>1, IdleOp
<1>8. CASE op'[t] # "idle"
  <2>1. offset[t] \in Block /\ offset[t] >= 0
    BY <1>1, <1>3, <1>6, <1>8, SMT DEF Scan, TypeOK, Block, NULL
  <2>2. memmap[offset[t]] = 0 <=> ~Taken(offset[t])
    BY <1>1, <1>2, <1>3, <2>1, TakenUsed
  <2>3. Run(t) = IF Taken(offset[t]) THEN 0 ELSE index[t] + 1
    BY <2>2 DEF Run
  <2>4. CASE Run(t) = nmemb[t]
    <3>1. op'[t] = "mark" /\ offset' = offset /\ index'[t] = 0
      <4>1. ~(offset[t] < 0)
        BY <2>1, SMT DEF Block
      <4>2. /\ op' = [op EXCEPT ![t] = "mark"] /\ index' = [index EXCEPT ![t] = 0]
            /\ offset' = offset
        BY <2>4, <4>1 DEF Scan
      <4>. QED BY <1>1, <4>2, Zenon DEF TypeOK
    <3>2. ~Taken(offset[t]) /\ nmemb[t] = index[t] + 1
      BY <1>6, <2>3, <2>4, SMT
    <3>3. P!Fits(offset[t], nmemb[t])
      <4>1. \A b \in offset[t]..(offset[t] + nmemb[t] - 1) : ~Taken(b)
        BY <1>6, <2>1, <3>2, SMT DEF Block
      <4>2. \A h \in Handle : P!Region(h) \cap offset[t]..(offset[t] + nmemb[t] - 1) = {}
        BY <4>1 DEF Taken
      <4>3. offset[t] + nmemb[t] <= Blocks
        BY <1>6, <2>1, <3>2, SMT DEF Block
      <4>. QED BY <4>2, <4>3 DEF P!Fits
    <3>4. Passed(t)' = {}
      BY <2>1, <3>1, SMT DEF Passed, Block
    <3>5. MapInv'
      BY <1>1, <1>2, <1>3, <1>4, <3>1, <3>4, PtrSame, Busy, BusyNext DEF MapInv
    <3>6. NoFitAbove(t)'
      BY <1>3, <1>6, <3>1, PtrSame DEF NoFitAbove
    <3>7. P!Fits(offset[t], nmemb[t])'
      BY <1>3, <3>1, <3>3 DEF P!Fits, P!Region, P!NULL
    <3>8. OpInv(t)'
      <4>1. offset[t] # NULL
        BY <2>1, SMT DEF Block, NULL
      <4>. QED BY <1>3, <1>6, <3>1, <3>4, <3>6, <3>7, <4>1 DEF OpInv
    <3>. QED BY <1>4, <1>5, <3>5, <3>8, IdleOp
  <2>5. CASE Run(t) # nmemb[t]
    <3>1. op'[t] = "scan" /\ offset'[t] = offset[t] - 1 /\ index'[t] = Run(t)
      <4>1. ~(offset[t] < 0)
        BY <2>1, SMT DEF Block
      <4>2. /\ op' = op /\ index' = [index EXCEPT ![t] = Run(t)]
            /\ offset' = [offset EXCEPT ![t] = @ - 1]
        BY <2>5, <4>1 DEF Scan
      <4>3. offset'[t] = offset[t] - 1 /\ index'[t] = Run(t)
        BY <1>1, <4>2 DEF TypeOK
      <4>. QED BY <1>3, <4>2, <4>3
    <3>2. ~P!Fits(offset[t], nmemb[t])
      <4>. DEFINE o == offset[t]   n == nmemb[t]
      <4>1. CASE Taken(o)
        <5>1. PICK h \in Handle : o \in P!Region(h)
          BY <4>1 DEF Taken
        <5>2. o \in o..(o + n - 1)
          BY <1>6, <2>1, SMT DEF Block
        <5>. QED BY <5>1, <5>2 DEF P!Fits
      <4>2. CASE ~Taken(o)
        <5>1. index[t] + 1 < n
          BY <1>6, <2>3, <2>5, <4>2, SMT
        <5>2. CASE o + index[t] + 1 = Blocks
          BY <1>6, <2>1, <5>1, <5>2, SMT DEF P!Fits, Block
        <5>3. CASE Taken(o + index[t] + 1)
          <6>1. PICK h \in Handle : o + index[t] + 1 \in P!Region(h)
            BY <5>3 DEF Taken
          <6>2. o + index[t] + 1 \in o..(o + n - 1)
            BY <1>6, <2>1, <5>1, SMT DEF Block
          <6>. QED BY <6>1, <6>2 DEF P!Fits
        <5>. QED BY <1>6, <5>2, <5>3
      <4>. QED BY <4>1, <4>2
    <3>3. NoFitAbove(t)'
      <4>1. SUFFICES ASSUME NEW o \in Block, o > offset'[t]
                     PROVE  ~P!Fits(o, nmemb[t])'
        BY <1>3 DEF NoFitAbove
      <4>2. o = offset[t] \/ o > offset[t]
        BY <2>1, <3>1, <4>1, SMT DEF Block
      <4>3. ~P!Fits(o, nmemb[t])
        BY <1>6, <3>2, <4>2 DEF NoFitAbove
      <4>. QED BY <1>3, <4>3 DEF P!Fits, P!Region, P!NULL
    <3>4. MapInv'
      BY <1>1, <1>2, <1>3, <1>4, <3>1, PtrSame, Busy, BusyNext DEF MapInv
    <3>5. /\ index'[t] < nmemb[t] /\ offset'[t] + index'[t] + 1 <= Blocks
          /\ \A b \in (offset'[t] + 1)..(offset'[t] + index'[t]) : ~Taken(b)
          /\ offset'[t] + index'[t] + 1 = Blocks \/ Taken(offset'[t] + index'[t] + 1)
      <4>1. CASE Taken(offset[t])
        BY <1>6, <2>1, <2>3, <3>1, <4>1, SMT DEF Block
      <4>2. CASE ~Taken(offset[t])
        <5>1. index'[t] = index[t] + 1 /\ offset'[t] + index'[t] = offset[t] + index[t]
          BY <1>6, <2>1, <2>3, <3>1, <4>2, SMT DEF Block
        <5>2. index'[t] < nmemb[t]
          BY <1>6, <2>3, <2>5, <3>1, <4>2, <5>1, SMT
        <5>3. \A b \in (offset'[t] + 1)..(offset'[t] + index'[t]) :
                b = offset[t] \/ b \in (offset[t] + 1)..(offset[t] + index[t])
          BY <1>6, <2>1, <3>1, <5>1, SMT DEF Block
        <5>. QED BY <1>6, <4>2, <5>1, <5>2, <5>3
      <4>. QED BY <4>1, <4>2
    <3>6. OpInv(t)'
      <4>. DEFINE next == offset[t] + index[t] + 1
      <4>1. /\ \A b \in (offset'[t] + 1)..(next' - 1) : ~Taken(b)'
            /\ next' = Blocks \/ Taken(next)'
        <5>1. next' - 1 = offset'[t] + index'[t]
          BY <1>6, <2>1, <2>3, <3>1, SMT DEF Block
        <5>2. Taken(next)' <=> Taken(next')
          BY <1>3 DEF Taken, P!Region, P!NULL
        <5>. QED BY <1>3, <3>5, <5>1, <5>2, PtrSame
      <4>. QED BY <1>3, <1>6, <3>1, <3>3, <3>5, <4>1 DEF OpInv
    <3>. QED BY <1>4, <1>5, <3>4, <3>6, IdleOp
  <2>. QED BY <2>4, <2>5
<1>. QED BY <1>7, <1>8

(* Marking turns one more block of a run that fits into a used one, and the *)
(* run is handed out when all of it is marked.                              *)
LEMMA SafeMark ==
  ASSUME IInv, NEW t \in Task, Mark(t)
  PROVE  TypeOK' => (InPool /\ Disjoint /\ MapInv /\ (\A u \in Task : OpInv(u)))'
PROOF
<1>. SUFFICES ASSUME TypeOK'
              PROVE  (InPool /\ Disjoint /\ MapInv /\ (\A u \in Task : OpInv(u)))'
  OBVIOUS
<1>. USE MemPoolAssumption
<1>1. TypeOK /\ Exclusive /\ InPool /\ Disjoint /\ MapInv /\ OpInv(t)
  BY DEF IInv
<1>2. \A u \in Task : u # t => op[u] = "idle"
  BY <1>1, Alone DEF Mark
<1>3. op[t] = "mark" /\ arg' = arg /\ nmemb' = nmemb /\ offset' = offset
  BY DEF Mark
<1>4. \A u \in Task : u # t => op'[u] = "idle"
  BY <1>1, <1>2 DEF Mark, TypeOK
<1>. DEFINE h == arg[t]   o == offset[t]   n == nmemb[t]   i == index[t]
<1>5. /\ o \in Block /\ i \in Nat /\ n \in Nat /\ h \in Handle /\ i <= n
      /\ n = Need[h] /\ n > 0 /\ ptr[h] = NULL /\ NoFitAbove(t)
      /\ o + n <= Blocks /\ (\A g \in Handle : P!Region(g) \cap o..(o + n - 1) = {})
  BY <1>1, <1>3, SMT DEF OpInv, TypeOK, P!Fits
<1>6. CASE i < n
  <2>1. /\ memmap' = [memmap EXCEPT ![o + i] = n] /\ index' = [index EXCEPT ![t] = i + 1]
        /\ op' = op /\ ptr' = ptr
    BY <1>6 DEF Mark
  <2>2. index'[t] = i + 1
    BY <1>1, <2>1, Zenon DEF TypeOK
  <2>3. o + i \in Block /\ ~Taken(o + i)
    <3>1. o + i \in Block /\ o + i \in o..(o + n - 1)
      BY <1>5, <1>6, SMT DEF Block
    <3>. QED BY <1>5, <3>1 DEF Taken
  <2>4. (InPool /\ Disjoint)'
    BY <1>1, <2>1, PtrSame DEF InPool, Disjoint, P!Disjoint
  <2>5. MapInv'
    <3>1. \A b \in Block : b \in Passed(t)' <=> b \in Passed(t) \/ b = o + i
      BY <1>3, <1>5, <2>2, SMTT(60) DEF Passed, Block
    <3>2. \A b \in Block : memmap'[b] = IF b = o + i THEN n ELSE memmap[b]
      BY <1>1, <2>1 DEF TypeOK
    <3>3. \A b : ~Cleared(b) /\ ~Cleared(b)'
      BY <1>2, <1>3, <1>4, <2>1, Busy, BusyNext
    <3>4. \A b \in Block : Marked(b)' <=> Marked(b) \/ b = o + i
      BY <1>2, <1>3, <1>4, <2>1, <3>1, Busy, BusyNext
    <3>. HIDE DEF o, i, n
    <3>5. n # 0
      BY <1>5, SMT
    <3>. SUFFICES ASSUME NEW b \in Block
                  PROVE  /\ Taken(b)' \/ Marked(b)' \/ memmap'[b] = 0
                         /\ Cleared(b)' => memmap'[b] = 0
                         /\ Marked(b)' => memmap'[b] # 0
                         /\ \A g \in Handle : b \in P!Region(g)' /\ ~Cleared(b)'
                              => memmap'[b] = Need[g]
      BY DEF MapInv
    <3>6. CASE b = o + i
      BY <2>1, <2>3, <3>2, <3>3, <3>4, <3>5, <3>6, PtrSame DEF Taken
    <3>7. CASE b # o + i
      BY <1>1, <2>1, <3>2, <3>3, <3>4, <3>7, PtrSame DEF MapInv
    <3>. QED BY <3>6, <3>7
  <2>6. OpInv(t)'
    <3>1. NoFitAbove(t)' /\ P!Fits(o, n)'
      BY <1>1, <1>3, <1>5, <2>1 DEF NoFitAbove, P!Fits, P!Region, P!NULL
    <3>2. \A b \in Passed(t)' : memmap'[b] = n
      <4>1. \A b \in Passed(t)' : b \in Block /\ (b \in Passed(t) \/ b = o + i)
        BY <1>3, <1>5, <1>6, <2>2, SMT DEF Passed, Block
      <4>2. \A b \in Passed(t) : memmap[b] = n
        BY <1>1, <1>3 DEF OpInv
      <4>. QED BY <1>1, <2>1, <4>1, <4>2 DEF TypeOK
    <3>3. o # NULL
      BY <1>5, SMT DEF Block, NULL
    <3>. QED BY <1>3, <1>5, <2>1, <3>1, <3>2, <3>3 DEF OpInv
  <2>. QED BY <1>4, <2>4, <2>5, <2>6, IdleOp
<1>7. CASE ~(i < n)
  <2>1. /\ ptr' = [ptr EXCEPT ![h] = o] /\ op' = [op EXCEPT ![t] = "idle"]
        /\ memmap' = memmap /\ index' = index
    BY <1>7 DEF Mark
  <2>2. op'[t] = "idle" /\ i = n
    BY <1>1, <1>5, <1>7, <2>1, SMT DEF TypeOK
  <2>3. /\ \A g \in Handle : g # h => P!Region(g)' = P!Region(g)
        /\ P!Region(h)' = o..(o + n - 1) /\ P!Region(h) = {}
        /\ Passed(t) = o..(o + n - 1)
    <3>1. ptr'[h] = o /\ \A g \in Handle : g # h => ptr'[g] = ptr[g]
      BY <1>1, <1>5, <2>1 DEF TypeOK
    <3>2. o # NULL /\ NULL = P!NULL
      BY <1>5, SMT DEF NULL, P!NULL, Block
    <3>3. \A g \in Handle : g # h => P!Region(g)' = P!Region(g)
      BY <3>1 DEF P!Region, P!NULL
    <3>4. P!Region(h)' = o..(o + n - 1)
      BY <1>3, <1>5, <3>1, <3>2 DEF P!Region, P!NULL
    <3>5. P!Region(h) = {}
      BY <1>5, <3>2 DEF P!Region
    <3>6. Passed(t) = o..(o + n - 1)
      BY <2>2 DEF Passed
    <3>. QED BY <3>3, <3>4, <3>5, <3>6
  <2>4. InPool'
    <3>1. ptr'[h] = o /\ \A g \in Handle : g # h => ptr'[g] = ptr[g]
      BY <1>1, <1>5, <2>1 DEF TypeOK
    <3>. HIDE DEF h, o, n
    <3>. QED BY <1>1, <1>5, <3>1 DEF InPool
  <2>5. Disjoint'
    <3>. DEFINE run == o..(o + n - 1)
    <3>1. \A g \in Handle : P!Region(g)' = IF g = h THEN run ELSE P!Region(g)
      BY <1>3, <2>3
    <3>2. \A g \in Handle : P!Region(g) \cap run = {}
      BY <1>5
    <3>3. \A f, g \in Handle : f # g => P!Region(f) \cap P!Region(g) = {}
      BY <1>1 DEF Disjoint, P!Disjoint
    <3>. HIDE DEF run, h
    <3>4. \A f, g \in Handle : f # g => P!Region(f)' \cap P!Region(g)' = {}
      BY <3>1, <3>2, <3>3
    <3>. QED BY <3>4 DEF Disjoint, P!Disjoint
  <2>6. MapInv'
    <3>1. \A b : ~Cleared(b) /\ ~Cleared(b)' /\ ~Marked(b)' /\ (Marked(b) <=> b \in Passed(t))
      BY <1>2, <1>3, <1>4, <2>2, Busy, BusyNext
    <3>2. \A b \in Block : b \in Passed(t) => memmap[b] = n
      BY <1>1, <1>3 DEF OpInv
    <3>3. \A b \in Block : Taken(b)' <=> Taken(b) \/ Marked(b)
      <4>1. \A g \in Handle : P!Region(g)' = IF g = h THEN Passed(t) ELSE P!Region(g)
        BY <1>3, <2>3
      <4>. QED BY <1>5, <2>3, <3>1, <4>1 DEF Taken
    <3>. SUFFICES ASSUME NEW b \in Block
                  PROVE  /\ Taken(b)' \/ memmap[b] = 0
                         /\ \A g \in Handle : b \in P!Region(g)' => memmap[b] = Need[g]
      BY <2>1, <3>1 DEF MapInv
    <3>4. Taken(b)' \/ memmap[b] = 0
      BY <1>1, <3>3 DEF MapInv
    <3>5. ASSUME NEW g \in Handle, b \in P!Region(g)' PROVE memmap[b] = Need[g]
      <4>1. CASE g = h
        BY <1>3, <1>5, <2>3, <3>2, <3>5, <4>1
      <4>2. CASE g # h
        BY <1>1, <2>3, <3>1, <3>5, <4>2 DEF MapInv
      <4>. QED BY <4>1, <4>2
    <3>. QED BY <3>4, <3>5
  <2>. QED BY <1>4, <2>2, <2>4, <2>5, <2>6, IdleOp
<1>. QED BY <1>6, <1>7

(* Clearing empties one more entry of the caller's own run, and the pointer *)
(* is given up when all of them are empty.                                  *)
LEMMA SafeClear ==
  ASSUME IInv, NEW t \in Task, Clear(t)
  PROVE  TypeOK' => (InPool /\ Disjoint /\ MapInv /\ (\A u \in Task : OpInv(u)))'
PROOF
<1>. SUFFICES ASSUME TypeOK'
              PROVE  (InPool /\ Disjoint /\ MapInv /\ (\A u \in Task : OpInv(u)))'
  OBVIOUS
<1>. USE MemPoolAssumption
<1>1. TypeOK /\ Exclusive /\ InPool /\ Disjoint /\ MapInv /\ OpInv(t)
  BY DEF IInv
<1>2. \A u \in Task : u # t => op[u] = "idle"
  BY <1>1, Alone DEF Clear
<1>3. op[t] = "free" /\ arg' = arg /\ nmemb' = nmemb /\ offset' = offset
  BY DEF Clear
<1>4. \A u \in Task : u # t => op'[u] = "idle"
  BY <1>1, <1>2 DEF Clear, TypeOK
<1>. DEFINE h == arg[t]   o == offset[t]   n == nmemb[t]   i == index[t]
<1>5. /\ o \in Block /\ i \in Nat /\ n \in Nat /\ h \in Handle /\ i <= n
      /\ n = Need[h] /\ ptr[h] = o /\ ptr[h] # NULL /\ o + n <= Blocks
  BY <1>1, <1>3 DEF OpInv, TypeOK, InPool
<1>6. P!Region(h) = o..(o + n - 1)
  BY <1>5 DEF P!Region, P!NULL, NULL
<1>7. CASE i < n
  <2>1. /\ memmap' = [memmap EXCEPT ![o + i] = 0] /\ index' = [index EXCEPT ![t] = i + 1]
        /\ op' = op /\ ptr' = ptr
    BY <1>7 DEF Clear
  <2>2. index'[t] = i + 1
    BY <1>1, <2>1, Zenon DEF TypeOK
  <2>3. (InPool /\ Disjoint)'
    BY <1>1, <2>1, PtrSame DEF InPool, Disjoint, P!Disjoint
  <2>4. MapInv'
    <3>1. \A b \in Block : b \in Passed(t)' <=> b \in Passed(t) \/ b = o + i
      BY <1>3, <1>5, <2>2, SMT DEF Passed, Block
    <3>2. \A b \in Block : memmap'[b] = IF b = o + i THEN 0 ELSE memmap[b]
      BY <1>1, <2>1 DEF TypeOK
    <3>3. \A b : ~Marked(b) /\ ~Marked(b)'
      BY <1>2, <1>3, <1>4, <2>1, Busy, BusyNext
    <3>4. \A b \in Block : Cleared(b)' <=> Cleared(b) \/ b = o + i
      BY <1>2, <1>3, <1>4, <2>1, <3>1, Busy, BusyNext
    <3>. HIDE DEF o, i
    <3>. QED BY <1>1, <2>1, <3>2, <3>3, <3>4, PtrSame DEF MapInv
  <2>5. OpInv(t)'
    BY <1>3, <1>5, <2>1 DEF OpInv
  <2>. QED BY <1>4, <2>3, <2>4, <2>5, IdleOp
<1>8. CASE ~(i < n)
  <2>1. /\ ptr' = [ptr EXCEPT ![h] = NULL] /\ op' = [op EXCEPT ![t] = "idle"]
        /\ memmap' = memmap /\ index' = index
    BY <1>8 DEF Clear
  <2>2. op'[t] = "idle" /\ i = n
    BY <1>1, <1>5, <1>8, <2>1, SMT DEF TypeOK
  <2>3. ptr'[h] = NULL /\ \A g \in Handle : g # h => ptr'[g] = ptr[g]
    BY <1>1, <1>5, <2>1 DEF TypeOK
  <2>4. \A g \in Handle : P!Region(g)' = IF g = h THEN {} ELSE P!Region(g)
    BY <1>3, <2>3 DEF P!Region, P!NULL, NULL
  <2>5. InPool'
    BY <1>1, <2>3 DEF InPool
  <2>6. Disjoint'
    BY <1>1, <2>4 DEF Disjoint, P!Disjoint
  <2>7. MapInv'
    <3>1. \A b : ~Marked(b) /\ ~Marked(b)' /\ ~Cleared(b)' /\ (Cleared(b) <=> b \in P!Region(h))
      BY <1>2, <1>3, <1>4, <1>6, <2>2, Busy, BusyNext DEF Passed
    <3>2. \A f, g \in Handle : f # g => P!Region(f) \cap P!Region(g) = {}
      BY <1>1 DEF Disjoint, P!Disjoint
    <3>. HIDE DEF h
    <3>. SUFFICES ASSUME NEW b \in Block
                  PROVE  /\ Taken(b)' \/ memmap[b] = 0
                         /\ \A g \in Handle : b \in P!Region(g)' => memmap[b] = Need[g]
      BY <2>1, <3>1 DEF MapInv
    <3>3. Taken(b)' \/ memmap[b] = 0
      BY <1>1, <2>4, <3>1 DEF MapInv, Taken
    <3>4. ASSUME NEW g \in Handle, b \in P!Region(g)' PROVE memmap[b] = Need[g]
      <4>1. g # h /\ b \in P!Region(g)
        BY <2>4, <3>4
      <4>2. ~Cleared(b)
        BY <1>5, <3>1, <3>2, <4>1
      <4>. QED BY <1>1, <4>1, <4>2 DEF MapInv
    <3>. QED BY <3>3, <3>4
  <2>. QED BY <1>4, <2>2, <2>5, <2>6, <2>7, IdleOp
<1>. QED BY <1>7, <1>8

(* A step of TIMXX_Decode that only enters or leaves the critical section,  *)
(* or skips a free, changes nothing of the pool.                            *)
LEMMA SafeQuiet ==
  ASSUME IInv, UNCHANGED <<memmap, ptr, op, locals>>
  PROVE  (InPool /\ Disjoint /\ MapInv /\ (\A u \in Task : OpInv(u)))'
PROOF
<1>1. /\ memmap' = memmap /\ ptr' = ptr /\ op' = op /\ arg' = arg
      /\ offset' = offset /\ index' = index /\ nmemb' = nmemb
  BY DEF locals
<1>2. (InPool /\ Disjoint)'
  BY <1>1, PtrSame DEF IInv, InPool, Disjoint, P!Disjoint
<1>3. MapInv'
  BY <1>1, PtrSame DEF IInv, MapInv, Marked, Cleared, Passed
<1>4. ASSUME NEW u \in Task PROVE OpInv(u)'
  BY <1>1 DEF IInv, OpInv, NoFitAbove, Passed, Taken, P!Fits, P!Region, P!NULL
<1>. QED BY <1>2, <1>3, <1>4

-----------------------------------------------------------------------------
(* Nobody enters malloc.c while another is there.                           *)
LEMMA ExclusiveStep == TypeOK /\ Exclusive /\ [Next]_vars => Exclusive'
PROOF
<1>. SUFFICES ASSUME TypeOK, Exclusive, [Next]_vars PROVE Exclusive'
  OBVIOUS
<1>1. ASSUME NEW t \in Task, Scan(t) \/ Mark(t) \/ Clear(t) PROVE Exclusive'
  BY <1>1 DEF Scan, Mark, Clear, MayRun, Exclusive, TypeOK, Task
<1>2. ASSUME NEW m \in Mbox, MboxNew(m) \/ MboxFree(m) PROVE Exclusive'
  BY <1>2 DEF MboxNew, MboxFree, CallMalloc, CallFree, MayRun, Exclusive, TypeOK, Task
<1>3. CASE Decode
  <2>1. CASE DecodeEnter \/ DecodeExit
    BY <2>1 DEF DecodeEnter, DecodeExit, MayRun, Exclusive
  <2>2. ASSUME NEW h, NEW from \in {"type", "cont"}, NEW to \in {"cont", "free1"},
               DecodeMalloc(h, from, to)
        PROVE  Exclusive'
    BY <2>2 DEF DecodeMalloc, CallMalloc, MayRun, Exclusive, TypeOK, Task
  <2>3. ASSUME NEW h, NEW from \in {"free1", "free2"}, NEW to \in {"free2", "exit"},
               DecodeFree(h, from, to)
        PROVE  Exclusive'
    BY <2>3 DEF DecodeFree, CallFree, MayRun, Exclusive, TypeOK, Task
  <2>. QED BY <1>3, <2>1, <2>2, <2>3 DEF Decode
<1>4. CASE UNCHANGED vars
  BY <1>4 DEF vars, Exclusive
<1>. QED BY <1>1, <1>2, <1>3, <1>4 DEF Next

(* A call of mymalloc or myfree keeps the types.                            *)
LEMMA TypeCall ==
  ASSUME TypeOK, NEW t \in Task, NEW h \in Handle, CallMalloc(t, h) \/ CallFree(t, h)
  PROVE  /\ memmap' = memmap /\ ptr' = ptr
         /\ op' \in [Task -> {"idle", "scan", "mark", "free"}]
         /\ arg' \in [Task -> Handle] /\ offset' \in [Task -> Block \cup {NULL}]
         /\ index' \in [Task -> Nat] /\ nmemb' \in [Task -> Nat]
         /\ \A u \in Task : index'[u] <= nmemb'[u]
PROOF
<1>. USE MemPoolAssumption
<1>1. Blocks - 1 \in Block /\ 0 \in Nat
  BY SMT DEF Block
<1>2. CASE CallMalloc(t, h)
  <2>1. Need[h] \in Nat
    OBVIOUS
  <2>2. /\ index' = [index EXCEPT ![t] = 0] /\ nmemb' = [nmemb EXCEPT ![t] = Need[h]]
        /\ offset' = [offset EXCEPT ![t] = Blocks - 1] /\ arg' = [arg EXCEPT ![t] = h]
        /\ op' = [op EXCEPT ![t] = "scan"] /\ memmap' = memmap /\ ptr' = ptr
    BY <1>2 DEF CallMalloc
  <2>3. \A u \in Task : index'[u] <= nmemb'[u]
    BY <2>1, <2>2 DEF TypeOK
  <2>. QED BY <1>1, <2>1, <2>2, <2>3 DEF TypeOK
<1>3. CASE CallFree(t, h)
  <2>1. ptr[h] \in Block /\ memmap[ptr[h]] \in Nat
    BY <1>3 DEF CallFree, TypeOK
  <2>2. /\ index' = [index EXCEPT ![t] = 0] /\ nmemb' = [nmemb EXCEPT ![t] = memmap[ptr[h]]]
        /\ offset' = [offset EXCEPT ![t] = ptr[h]] /\ arg' = [arg EXCEPT ![t] = h]
        /\ op' = [op EXCEPT ![t] = "free"] /\ memmap' = memmap /\ ptr' = ptr
    BY <1>3 DEF CallFree
  <2>3. \A u \in Task : index'[u] <= nmemb'[u]
    BY <2>1, <2>2 DEF TypeOK
  <2>. QED BY <1>1, <2>1, <2>2, <2>3 DEF TypeOK
<1>. QED BY <1>2, <1>3

(* A pass of one of the three loops keeps the types.                        *)
LEMMA TypeLoop ==
  ASSUME TypeOK, NEW t \in Task, OpInv(t), Scan(t) \/ Mark(t) \/ Clear(t)
  PROVE  TypeOK'
PROOF
<1>. USE MemPoolAssumption
<1>1. /\ offset[t] \in Block \cup {NULL} /\ index[t] \in Nat /\ nmemb[t] \in Nat
      /\ arg[t] \in Handle /\ index[t] <= nmemb[t]
  BY DEF TypeOK
<1>2. CASE Scan(t)
  <2>1. UNCHANGED <<memmap, ptr, irq, spi_pc, arg, nmemb>>
    BY <1>2 DEF Scan
  <2>2. op' \in [Task -> {"idle", "scan", "mark", "free"}]
    BY <1>2 DEF Scan, TypeOK
  <2>3. Run(t) \in Nat /\ Run(t) <= nmemb[t]
    BY <1>1, <1>2, SMT DEF Scan, Run, OpInv
  <2>4. offset' \in [Task -> Block \cup {NULL}]
    <3>1. offset' = offset \/ (~(offset[t] < 0) /\ offset' = [offset EXCEPT ![t] = @ - 1])
      BY <1>2 DEF Scan
    <3>2. ~(offset[t] < 0) => offset[t] - 1 \in Block \cup {NULL}
      BY <1>1, SMT DEF Block, NULL
    <3>. QED BY <3>1, <3>2 DEF TypeOK
  <2>5. /\ index' \in [Task -> Nat]
        /\ \A u \in Task : index'[u] <= nmemb[u]
    <3>1. \/ index' = index
          \/ index' = [index EXCEPT ![t] = 0]
          \/ index' = [index EXCEPT ![t] = Run(t)]
      BY <1>2 DEF Scan
    <3>. QED BY <1>1, <2>3, <3>1 DEF TypeOK
  <2>. QED BY <2>1, <2>2, <2>4, <2>5 DEF TypeOK
<1>3. CASE Mark(t)
  <2>1. UNCHANGED <<irq, spi_pc, arg, offset, nmemb>> /\ op[t] = "mark"
    BY <1>3 DEF Mark
  <2>2. /\ op' \in [Task -> {"idle", "scan", "mark", "free"}]
        /\ memmap' \in [Block -> Nat]
    BY <1>1, <1>3 DEF Mark, TypeOK
  <2>3. offset[t] \in Block
    BY <1>1, <2>1 DEF OpInv
  <2>4. ptr' \in [Handle -> Block \cup {NULL}]
    BY <1>1, <1>3, <2>3 DEF Mark, TypeOK
  <2>5. /\ index' \in [Task -> Nat]
        /\ \A u \in Task : index'[u] <= nmemb[u]
    <3>1. index' = index \/ (index[t] < nmemb[t] /\ index' = [index EXCEPT ![t] = @ + 1])
      BY <1>3 DEF Mark
    <3>. QED BY <1>1, <3>1, SMT DEF TypeOK
  <2>. QED BY <2>1, <2>2, <2>4, <2>5 DEF TypeOK
<1>4. CASE Clear(t)
  <2>1. UNCHANGED <<irq, spi_pc, arg, offset, nmemb>>
    BY <1>4 DEF Clear
  <2>2. /\ op' \in [Task -> {"idle", "scan", "mark", "free"}]
        /\ memmap' \in [Block -> Nat] /\ ptr' \in [Handle -> Block \cup {NULL}]
    BY <1>1, <1>4 DEF Clear, TypeOK
  <2>3. /\ index' \in [Task -> Nat]
        /\ \A u \in Task : index'[u] <= nmemb[u]
    <3>1. index' = index \/ (index[t] < nmemb[t] /\ index' = [index EXCEPT ![t] = @ + 1])
      BY <1>4 DEF Clear
    <3>. QED BY <1>1, <3>1, SMT DEF TypeOK
  <2>. QED BY <2>1, <2>2, <2>3 DEF TypeOK
<1>. QED BY <1>2, <1>3, <1>4

(* Every step is a loop pass, a call by a task that may run, or leaves the  *)
(* pool alone.                                                              *)
LEMMA StepCases ==
  ASSUME [Next]_vars
  PROVE  \/ \E t \in Task : Scan(t) \/ Mark(t) \/ Clear(t)
         \/ /\ \E t \in Task, h \in Handle : MayRun(t) /\ (CallMalloc(t, h) \/ CallFree(t, h))
            /\ UNCHANGED irq
            /\ spi_pc' \in {spi_pc, "cont", "free1", "free2", "exit"}
         \/ /\ UNCHANGED <<memmap, ptr, op, locals>>
            /\ irq' \in {irq, "on", "spi"}
            /\ spi_pc' \in {spi_pc, "type", "free2", "exit", "out"}
PROOF
<1>. DEFINE Call == \E t \in Task, h \in Handle : MayRun(t) /\ (CallMalloc(t, h) \/ CallFree(t, h))
<1>1. ASSUME NEW m \in Mbox, MboxNew(m) \/ MboxFree(m)
      PROVE  Call /\ UNCHANGED <<irq, spi_pc>>
  BY <1>1 DEF MboxNew, MboxFree, Task, Handle
<1>2. ASSUME NEW h \in Handle, NEW from, NEW to, DecodeMalloc(h, from, to)
      PROVE  Call /\ UNCHANGED irq /\ spi_pc' = to
  BY <1>2 DEF DecodeMalloc, Task
<1>3. ASSUME NEW h \in Handle, NEW from, NEW to, DecodeFree(h, from, to)
      PROVE  /\ Call \/ UNCHANGED <<memmap, ptr, op, locals>>
             /\ UNCHANGED irq /\ spi_pc' = to
  BY <1>3 DEF DecodeFree, Task
<1>4. CASE DecodeEnter \/ DecodeExit
  BY <1>4 DEF DecodeEnter, DecodeExit
<1>5. CASE UNCHANGED vars
  BY <1>5 DEF vars
<1>6. recv_type \in Handle /\ recv_cont \in Handle
  BY DEF Handle
<1>. HIDE DEF Call
<1>7. CASE Decode
  BY <1>2, <1>3, <1>4, <1>6, <1>7 DEF Decode, Call
<1>. QED BY <1>1, <1>5, <1>7 DEF Next, Call

(* Every step keeps the invariant.                                          *)
LEMMA SafeStep == IInv /\ [Next]_vars => IInv'
PROOF
<1>. SUFFICES ASSUME IInv, [Next]_vars PROVE IInv'
  OBVIOUS
<1>1. Exclusive'
  BY ExclusiveStep DEF IInv
<1>2. ASSUME NEW t \in Task, Scan(t) \/ Mark(t) \/ Clear(t) PROVE IInv'
  <2>1. TypeOK'
    BY <1>2, TypeLoop DEF IInv
  <2>. QED BY <1>1, <1>2, <2>1, SafeScan, SafeMark, SafeClear DEF IInv
<1>3. ASSUME NEW t \in Task, NEW h \in Handle, MayRun(t), CallMalloc(t, h) \/ CallFree(t, h),
             UNCHANGED irq, spi_pc' \in {spi_pc, "cont", "free1", "free2", "exit"}
      PROVE  IInv'
  <2>1. TypeOK'
    BY <1>3, TypeCall DEF IInv, TypeOK
  <2>. QED BY <1>1, <1>3, <2>1, SafeCallMalloc, SafeCallFree DEF IInv
<1>4. ASSUME UNCHANGED <<memmap, ptr, op, locals>>, irq' \in {irq, "on", "spi"},
             spi_pc' \in {spi_pc, "type", "free2", "exit", "out"}
      PROVE  IInv'
  <2>1. TypeOK'
    BY <1>4 DEF IInv, TypeOK, locals
  <2>. QED BY <1>1, <1>4, <2>1, SafeQuiet DEF IInv
<1>. QED BY <1>2, <1>3, <1>4, StepCases

(* The empty pool satisfies the invariant.                                  *)
LEMMA SafeInit == Init => IInv
PROOF
<1>. SUFFICES ASSUME Init PROVE IInv
  OBVIOUS
<1>1. \A b : ~Taken(b) /\ ~Marked(b) /\ ~Cleared(b)
  BY DEF Init, Taken, Marked, Cleared, P!Region, P!NULL, NULL
<1>2. \A h \in Handle : P!Region(h) = {}
  BY DEF Init, P!Region, P!NULL, NULL
<1>3. TypeOK
  <2>1. 0 \in Block /\ 0 \in Nat /\ recv_type \in Handle
    BY MemPoolAssumption, SMT DEF Block, Handle
  <2>2. \A t \in Task : index[t] <= nmemb[t]
    BY SMT DEF Init
  <2>. QED BY <2>1, <2>2 DEF Init, TypeOK, NULL
<1>4. Exclusive /\ InPool /\ Disjoint /\ MapInv
  BY <1>1, <1>2 DEF Init, Exclusive, InPool, Disjoint, P!Disjoint, MapInv, Task
<1>5. \A t \in Task : OpInv(t)
  BY DEF Init, OpInv
<1>. QED BY <1>3, <1>4, <1>5 DEF IInv

(* The invariant holds in every reachable state.                            *)
THEOREM InvCorrect == Spec => []IInv
  BY SafeInit, SafeStep, PTL DEF Spec

(* The tasks' variables and the map stay in their ranges, and no loop of    *)
(* malloc.c leaves the pool.                                                *)
THEOREM TypeCorrect == Spec => []TypeOK
PROOF
<1>1. IInv => TypeOK
  BY DEF IInv
<1>. QED BY <1>1, InvCorrect, PTL

(* No block is handed out twice, with no lock in malloc.c: the priorities   *)
(* and the masking of its two callers are enough.                           *)
THEOREM DisjointCorrect == Spec => []Disjoint
PROOF
<1>1. IInv => Disjoint
  BY DEF IInv
<1>. QED BY <1>1, InvCorrect, PTL

(* Between the calls the map tells exactly who holds which block.           *)
THEOREM MapExactCorrect == Spec => []MapExact
PROOF
<1>1. IInv => MapExact
  <2>. SUFFICES ASSUME IInv, \A t \in Task : op[t] = "idle", NEW b \in Block
                PROVE  \/ memmap[b] = 0 /\ (\A h \in Handle : b \notin P!Region(h))
                       \/ \E h \in Handle : b \in P!Region(h) /\ memmap[b] = Need[h]
    BY DEF MapExact
  <2>1. ~Marked(b) /\ ~Cleared(b)
    BY DEF Marked, Cleared
  <2>. QED BY <2>1 DEF IInv, MapInv, Taken
<1>. QED BY <1>1, InvCorrect, PTL

(* mymalloc gives up only when no run of the length asked for is free.      *)
THEOREM FailsOnlyWhenFullCorrect == Spec => FailsOnlyWhenFull
PROOF
<1>1. ASSUME IInv, [Next]_vars, NEW t \in Task, op[t] = "scan", op'[t] = "idle"
      PROVE  \A o \in Block : ~P!Fits(o, nmemb[t])
  <2>1. TypeOK /\ OpInv(t)
    BY <1>1 DEF IInv
  <2>2. Scan(t)
    <3>1. ASSUME NEW u \in Task, Scan(u) \/ Mark(u) \/ Clear(u) PROVE u = t
      <4>. SUFFICES ASSUME u # t PROVE FALSE
        OBVIOUS
      <4>1. op'[t] = op[t]
        BY <2>1, <3>1 DEF Scan, Mark, Clear, TypeOK
      <4>. QED BY <1>1, <4>1
    <3>2. ASSUME NEW u \in Task, NEW h \in Handle, CallMalloc(u, h) \/ CallFree(u, h)
          PROVE  FALSE
      BY <1>1, <2>1, <3>2 DEF CallMalloc, CallFree, TypeOK
    <3>3. ~(UNCHANGED op)
      BY <1>1
    <3>4. ~Mark(t) /\ ~Clear(t)
      BY <1>1 DEF Mark, Clear
    <3>. QED BY <1>1, <3>1, <3>2, <3>3, <3>4, StepCases
  <2>3. offset[t] < 0
    <3>. SUFFICES ASSUME ~(offset[t] < 0) PROVE FALSE
      OBVIOUS
    <3>1. op' = [op EXCEPT ![t] = "mark"] \/ op' = op
      BY <2>2 DEF Scan
    <3>. QED BY <1>1, <2>1, <3>1 DEF TypeOK
  <2>4. \A o \in Block : o > offset[t]
    <3>1. offset[t] \in Block \cup {NULL}
      BY <2>1 DEF TypeOK
    <3>2. offset[t] = -1
      BY <2>3, <3>1, MemPoolAssumption, SMT DEF Block, NULL
    <3>. QED BY <3>2, MemPoolAssumption, SMT DEF Block
  <2>. QED BY <1>1, <2>1, <2>4 DEF OpInv, NoFitAbove
<1>2. IInv /\ [Next]_vars =>
        [\A t \in Task : op[t] = "scan" /\ op'[t] = "idle" =>
           \A o \in Block : ~P!Fits(o, nmemb[t])]_vars
  BY <1>1
<1>. QED BY <1>2, InvCorrect, PTL DEF Spec, FailsOnlyWhenFull

(* malloc.c under its callers implements the atomic pool: every call takes  *)
(* effect at once, a malloc at the highest place that fits.                 *)
THEOREM AtomicCorrect == Spec => Atomic
PROOF
<1>1. Init => P!Init
  BY DEF Init, P!Init, P!NULL, NULL
<1>2. ASSUME IInv, [Next]_vars PROVE [P!Next]_ptr
  <2>1. ASSUME NEW t \in Task, Mark(t) PROVE [P!Next]_ptr
    <3>. DEFINE h == arg[t]   o == offset[t]
    <3>1. TypeOK /\ OpInv(t) /\ op[t] = "mark"
      BY <1>2, <2>1 DEF IInv, Mark
    <3>2. h \in Handle /\ o \in Block /\ ptr[h] = NULL
      BY <3>1 DEF TypeOK, OpInv
    <3>3. P!Fits(o, Need[h]) /\ \A p \in (o + 1)..(Blocks - 1) : ~P!Fits(p, Need[h])
      <4>1. \A p \in (o + 1)..(Blocks - 1) : p \in Block /\ p > o
        BY <3>2, MemPoolAssumption, SMT DEF Block
      <4>. QED BY <3>1, <4>1 DEF OpInv, NoFitAbove
    <3>4. ptr' = ptr \/ ptr' = [ptr EXCEPT ![h] = o]
      BY <2>1 DEF Mark
    <3>. QED BY <3>2, <3>3, <3>4 DEF P!Next, P!Malloc, P!NULL, NULL, Block
  <2>2. ASSUME NEW t \in Task, Clear(t) PROVE [P!Next]_ptr
    <3>1. TypeOK /\ OpInv(t) /\ op[t] = "free"
      BY <1>2, <2>2 DEF IInv, Clear
    <3>2. arg[t] \in Handle /\ ptr[arg[t]] # NULL
      BY <3>1 DEF TypeOK, OpInv
    <3>3. ptr' = ptr \/ ptr' = [ptr EXCEPT ![arg[t]] = NULL]
      BY <2>2 DEF Clear
    <3>. QED BY <3>2, <3>3 DEF P!Next, P!Free, P!NULL, NULL
  <2>3. ASSUME NEW t \in Task, Scan(t) PROVE ptr' = ptr
    BY <2>3 DEF Scan
  <2>4. ASSUME NEW t \in Task, NEW h \in Handle, CallMalloc(t, h) \/ CallFree(t, h)
        PROVE  ptr' = ptr
    BY <2>4 DEF CallMalloc, CallFree
  <2>. QED BY <1>2, <2>1, <2>2, <2>3, <2>4, StepCases
<1>3. IInv /\ [Next]_vars => [P!Next]_ptr
  BY <1>2
<1>. QED BY <1>1, <1>3, InvCorrect, PTL DEF Spec, Atomic, P!Spec
=============================================================================
