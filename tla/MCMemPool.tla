----------------------------- MODULE MCMemPool -----------------------------
(* MemPool with a pool of a few blocks.  The code's mailboxes all need      *)
(* three blocks (TQ_DESCR is 84 bytes) and its texts one; some mailboxes    *)
(* are made smaller here so that the pool gets holes that do not fit.       *)
EXTENDS MemPool

CONSTANTS Small
MCNeed == [h \in Handle |-> IF h \in Mbox \ Small THEN 3 ELSE IF h \in Small THEN 2 ELSE 1]
=============================================================================
