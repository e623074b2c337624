--------------------------- MODULE RecordOwnership ---------------------------
(***************************************************************************)
(* What Simple Supply promises about ownership, whatever the containers,   *)
(* histories and timestamps it is implemented with.                        *)
(*                                                                         *)
(* Agents register once and stay registered.  A record is created by a     *)
(* registered agent, who owns it; from then on nothing is done to it that  *)
(* its owner did not sign, and it only ever passes to a registered agent.  *)
(***************************************************************************)
CONSTANTS
    Keys,        \* public keys
    RecordIds,   \* record identifiers
    NoOne        \* owner of a record that does not exist, not a public key

VARIABLES
    registered,   \* the agents
    owner,        \* who owns each record, NoOne before it is created
    signer        \* who signed the last transaction to be committed

vars == <<registered, owner, signer>>

Init ==
    /\ registered = {}
    /\ owner = [id \in RecordIds |-> NoOne]
    /\ signer = NoOne

Register(k) ==
    /\ k \notin registered
    /\ signer' = k
    /\ registered' = registered \cup {k}
    /\ UNCHANGED owner

Create(k, id) ==
    /\ k \in registered
    /\ owner[id] = NoOne
    /\ signer' = k
    /\ owner' = [owner EXCEPT ![id] = k]
    /\ UNCHANGED registered

HandOver(id, receiver) ==
    /\ owner[id] # NoOne
    /\ receiver \in registered
    /\ signer' = owner[id]
    /\ owner' = [owner EXCEPT ![id] = receiver]
    /\ UNCHANGED registered

(* The owner does something to the record that leaves it with its owner. *)
Amend(id) ==
    /\ owner[id] # NoOne
    /\ signer' = owner[id]
    /\ UNCHANGED <<registered, owner>>

Next ==
    \/ \E k \in Keys : Register(k)
    \/ \E k \in Keys, id \in RecordIds : Create(k, id)
    \/ \E id \in RecordIds, k \in Keys : HandOver(id, k)
    \/ \E id \in RecordIds : Amend(id)

Spec == Init /\ [][Next]_vars
=============================================================================
