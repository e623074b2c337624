---------------------------- MODULE LedgerFollower ----------------------------
(***************************************************************************)
(* What a reader of the reporting database is promised, whatever tables,   *)
(* events and restarts stand between it and the ledger.                    *)
(*                                                                         *)
(* The ledger passes through a sequence of states.  The reader is shown    *)
(* these states, perhaps late, but in order and without missing one.       *)
(***************************************************************************)
EXTENDS Integers, Sequences

CONSTANT EmptyState    \* what is shown before the first block

VARIABLES
    ledger,    \* the states after each block so far
    shown,     \* the state the reader is shown
    seen       \* the block that state belongs to, 0 before the first

vars == <<ledger, shown, seen>>

Init ==
    /\ ledger = << >>
    /\ shown = EmptyState
    /\ seen = 0

Grow ==
    /\ Len(ledger') = Len(ledger) + 1
    /\ SubSeq(ledger', 1, Len(ledger)) = ledger
    /\ UNCHANGED <<shown, seen>>

(* The reader moves on; the blocks it passes over changed nothing. *)
Follow(n) ==
    /\ \A m \in seen + 1 .. n - 1 : ledger[m] = shown
    /\ shown' = ledger[n]
    /\ seen' = n
    /\ UNCHANGED ledger

Next == Grow \/ \E n \in seen + 1 .. Len(ledger) : Follow(n)

Spec == Init /\ [][Next]_vars
=============================================================================
