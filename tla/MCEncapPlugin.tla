---------------------------- MODULE MCEncapPlugin ----------------------------
(* One address, so that every packet after the first reuses it; packets of *)
(* up to 3 bytes cut into chunks of 1 or 2 bytes, or not cut (0).          *)
EXTENDS EncapPlugin

CONSTANTS a1

MCAddrs == {a1}
=============================================================================
