-------------------------------- MODULE Pool --------------------------------
(***************************************************************************)
(* What mymalloc and myfree promise: a pool of blocks from which a caller   *)
(* gets the highest run that nobody else holds, in one step, and to which   *)
(* it gives its run back.                                                   *)
(***************************************************************************)
EXTENDS Integers

CONSTANTS Blocks, Handle, Need   \* pool size, callers' pointers, blocks each asks for
VARIABLE ptr                     \* first block a pointer refers to, NULL if none

NULL == -1
Region(h) == IF ptr[h] = NULL THEN {} ELSE ptr[h]..(ptr[h] + Need[h] - 1)
Disjoint == \A g, h \in Handle : g # h => Region(g) \cap Region(h) = {}

(* n blocks from o on are in the pool, and no caller holds one of them.     *)
Fits(o, n) ==
  o + n <= Blocks /\ (\A h \in Handle : Region(h) \cap o..(o + n - 1) = {})

Init == ptr = [h \in Handle |-> NULL]

Malloc(h) ==
  /\ ptr[h] = NULL
  /\ \E o \in 0..(Blocks - 1) :
       /\ Fits(o, Need[h]) /\ (\A p \in (o + 1)..(Blocks - 1) : ~Fits(p, Need[h]))
       /\ ptr' = [ptr EXCEPT ![h] = o]

Free(h) == ptr[h] # NULL /\ ptr' = [ptr EXCEPT ![h] = NULL]

Next == \E h \in Handle : Malloc(h) \/ Free(h)
Spec == Init /\ [][Next]_ptr
=============================================================================
