----------------------------- MODULE MCGateway -----------------------------
(* Small instances of Gateway for TLC; the bounds are in the cfg files.     *)
EXTENDS GatewayInv, GatewayOutbox
=============================================================================
