---------------------------- MODULE MCEthDriver ----------------------------
(* Small instances of EthDriver for TLC; the bounds are in the cfg files.   *)
EXTENDS EthDriver
=============================================================================
