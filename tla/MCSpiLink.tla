----------------------------- MODULE MCSpiLink -----------------------------
(* Instances of SpiLink for TLC: a packet a little longer than request and  *)
(* header together, with several restarts; MCSpiLinkLag.cfg has the real    *)
(* length of 270 bytes.                                                     *)
EXTENDS SpiLink
=============================================================================
