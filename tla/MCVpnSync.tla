----------------------------- MODULE MCVpnSync ------------------------------
(* Values for the constants of VpnSync. *)
EXTENDS VpnSync

CONSTANTS u1

OverdrawnOrEmpty == {-1, 0}
=============================================================================
