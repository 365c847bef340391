----------------------------- MODULE MCBrowser ------------------------------
(* Values for the constants of Browser. *)
EXTENDS Browser

CONSTANTS alice, bob
=============================================================================
