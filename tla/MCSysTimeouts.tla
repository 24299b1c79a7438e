---------------------------- MODULE MCSysTimeouts ----------------------------
(* Instances of SysTimeouts for TLC: ticks of 3 ms, a counter of 16 ticks,   *)
(* and the three periods scaled down, none a multiple of a tick.             *)
EXTENDS SysTimeouts
=============================================================================
