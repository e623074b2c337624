--------------------------- MODULE MC_RecordQueries ---------------------------
(***************************************************************************)
(* Small instances of RecordQueries.                                       *)
(***************************************************************************)
EXTENDS RecordQueries

CONSTANTS alice, r1, r2

MC_BlockIds == 1 .. MaxBlocks
=============================================================================
