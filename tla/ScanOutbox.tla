---------------------------- MODULE ScanOutbox ----------------------------
(***************************************************************************)
(* What the gateway promises for the scans of the sensor: two places in a   *)
(* row, the packet spi_task holds and the one that is posted.  A scan moves *)
(* from the first to the second only when no scan is in the second, leaves  *)
(* that once, to one client or to nobody, and counts as delivered only when *)
(* it went to the client as a whole.                                        *)
(* Gateway implements this (GatewayOutbox).                                 *)
(***************************************************************************)
EXTENDS Naturals

CONSTANTS MaxScan, MaxConn

VARIABLES
  made,    \* scans read from the sensor so far
  held,    \* the scan spi_task has read and not posted, 0 for none
  posted,  \* the scan that waits for the server, 0 for none
  sent     \* the scans delivered: <<client, scan>>

ovars == <<made, held, posted, sent>>

Init == made = 0 /\ held = 0 /\ posted = 0 /\ sent = {}

Read ==
  /\ held = 0 /\ made < MaxScan
  /\ made' = made + 1 /\ held' = made + 1
  /\ UNCHANGED <<posted, sent>>

Post ==
  /\ held # 0 /\ posted = 0
  /\ posted' = held /\ held' = 0
  /\ UNCHANGED <<made, sent>>

Deliver(c) ==
  /\ posted # 0 /\ \A d \in 1..MaxConn : <<d, posted>> \notin sent
  /\ sent' = sent \cup {<<c, posted>>} /\ posted' = 0
  /\ UNCHANGED <<made, held>>

Drop ==   \* netconn_write failed or sent a part, or an echo takes its place
  /\ posted # 0 /\ posted' = 0
  /\ UNCHANGED <<made, held, sent>>

Next == Read \/ Post \/ Drop \/ \E c \in 1..MaxConn : Deliver(c)

Spec == Init /\ [][Next]_ovars
=============================================================================
