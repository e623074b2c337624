---------------------------- MODULE SupplyReplicas ----------------------------
(***************************************************************************)
(* Several validators, each with a Simple Supply transaction processor of  *)
(* its own, executing the same blocks.                                     *)
(*                                                                         *)
(* The validators are external.  One that has the head of the chain        *)
(* publishes a block with a transaction its own processor accepts and the  *)
(* state after it.  Every other one executes the block when it gets to it, *)
(* perhaps much later, and refuses it, and all that follows, if its own    *)
(* processor raises InvalidTransaction or comes to another state.  Which   *)
(* of two competing blocks becomes the head is left to the consensus.      *)
(*                                                                         *)
(* The handler compares the timestamp of the transaction with the clock of *)
(* the machine it runs on, time.mktime of utcnow(): seconds since 1970, as *)
(* far off as that machine's clock and its local time zone put it, and not *)
(* by the same amount each time.                                           *)
(***************************************************************************)
EXTENDS SupplyHandler

CONSTANTS
    Validators,
    ClockError,              \* seconds a validator's reading may be off
    ClientError,             \* seconds a client's timestamp may lie ahead
    Latitudes, Longitudes,   \* coordinates clients send
    MaxBlocks,               \* bound: length of the chain
    MaxTime                  \* bound: time stops here

ASSUME ReplicasAssumption ==
    /\ {ClockError, ClientError, MaxBlocks, MaxTime} \subseteq Nat
    /\ Latitudes \cup Longitudes \subseteq Int

(* What the tolerance is for (handler.py:177-178). *)
ASSUME ClocksAssumption == ClockError + ClientError <= SYNC_TOLERANCE

VARIABLES
    time,       \* seconds since 1970
    chain,      \* the blocks: each a transaction and the state after it
    ledger,     \* the state each validator has come to
    height,     \* the block it belongs to
    refused     \* validators that have refused a block

vars == <<time, chain, ledger, height, refused>>

(* A transaction may have been built long ago. *)
Timestamps == 0 .. time + ClientError

Transactions ==
         {make_create_agent(k, ts) : k \in Keys, ts \in Timestamps}
    \cup {make_create_record(k, lat, lng, id, ts) :
            k \in Keys, lat \in Latitudes, lng \in Longitudes,
            id \in RecordIds, ts \in Timestamps}
    \cup {make_transfer_record(k, receiver, id, ts) :
            k \in Keys, receiver \in Keys, id \in RecordIds, ts \in Timestamps}
    \cup {make_update_record(k, lat, lng, id, ts) :
            k \in Keys, lat \in Latitudes, lng \in Longitudes,
            id \in RecordIds, ts \in Timestamps}

(* current_time of _validate_timestamp, on any validator. *)
Readings == time - ClockError .. time + ClockError

Init ==
    /\ time = 0
    /\ chain = << >>
    /\ ledger = [v \in Validators |-> GenesisState]
    /\ height = [v \in Validators |-> 0]
    /\ refused = {}

-----------------------------------------------------------------------------

(* The block validator v executes next. *)
NextBlock(v) == chain[height[v] + 1]

Behind(v) == height[v] < Len(chain) /\ v \notin refused

Publish(v, t) ==
    /\ Len(chain) < MaxBlocks
    /\ height[v] = Len(chain)
    /\ \E now \in Readings : Accepts(ledger[v], t, now)
    /\ chain' = Append(chain, [txn |-> t, state_root |-> Effect(ledger[v], t)])
    /\ ledger' = [ledger EXCEPT ![v] = Effect(@, t)]
    /\ height' = [height EXCEPT ![v] = @ + 1]
    /\ UNCHANGED <<time, refused>>

Confirms(v, now) ==
    /\ Accepts(ledger[v], NextBlock(v).txn, now)
    /\ Effect(ledger[v], NextBlock(v).txn) = NextBlock(v).state_root

Validate(v, now) ==
    /\ Behind(v)
    /\ ledger' = IF Confirms(v, now) THEN [ledger EXCEPT ![v] = NextBlock(v).state_root]
                                     ELSE ledger
    /\ height' = IF Confirms(v, now) THEN [height EXCEPT ![v] = @ + 1] ELSE height
    /\ refused' = IF Confirms(v, now) THEN refused ELSE refused \cup {v}
    /\ UNCHANGED <<time, chain>>

Tick ==
    /\ time < MaxTime
    /\ time' = time + 1
    /\ UNCHANGED <<chain, ledger, height, refused>>

Next ==
    \/ \E v \in Validators :
        \/ \E t \in Transactions : Publish(v, t)
        \/ \E now \in Readings : Validate(v, now)
    \/ Tick

(* A validator executes the blocks of the chain; nothing makes it grow. *)
Fairness == \A v \in Validators : WF_vars(\E now \in Readings : Validate(v, now))

Spec == Init /\ [][Next]_vars /\ Fairness

-----------------------------------------------------------------------------
(* Properties *)

(* Type invariant. *)
TypeOK ==
    /\ time \in 0 .. MaxTime
    /\ chain \in Seq([txn : Transactions, state_root : GlobalStates])
    /\ ledger \in [Validators -> GlobalStates]
    /\ height \in [Validators -> 0 .. Len(chain)]
    /\ refused \in SUBSET Validators

(***************************************************************************)
(* While the clocks of clients and validators together are off by no more  *)
(* than SYNC_TOLERANCE, no validator refuses a block another one has       *)
(* published, however late it executes it: the network never splits over a *)
(* timestamp (handler.py:180-183), nor over an owner that depends on it.   *)
(***************************************************************************)
NoBlockRefused == refused = {}

(***************************************************************************)
(* A validator that joins late executes the whole chain in the end.        *)
(***************************************************************************)
EveryoneCatchesUp == \A v \in Validators : []<>(height[v] = Len(chain))
=============================================================================
