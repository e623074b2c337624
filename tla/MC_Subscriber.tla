---------------------------- MODULE MC_Subscriber ----------------------------
(***************************************************************************)
(* Small instances of Subscriber.                                          *)
(***************************************************************************)
EXTENDS Subscriber

CONSTANTS alice, r1, r2

MC_BlockIds == 1 .. MaxBlocks
=============================================================================
