------------------------ MODULE SupplyReplicas_proofs ------------------------
(***************************************************************************)
(* Proofs about SupplyReplicas, for any number of validators, any chain    *)
(* and all clocks that ClocksAssumption admits.                            *)
(***************************************************************************)
EXTENDS SupplyReplicas, SupplyHandler_proofs

USE AddressingAssumption, ToleranceAssumption, ReplicasAssumption

Block == [txn : Transactions, state_root : GlobalStates]

(* The state after the first h blocks of a chain. *)
StateAt(c, h) == IF h = 0 THEN GenesisState ELSE c[h].state_root

(* What Accepts asks of a transaction, but for its timestamp. *)
Allowed(s, t) ==
    \/ t.action = "CREATE_AGENT"    /\ MayCreateAgent(s, t)
    \/ t.action = "CREATE_RECORD"   /\ MayCreateRecord(s, t)
    \/ t.action = "TRANSFER_RECORD" /\ MayTransferRecord(s, t)
    \/ t.action = "UPDATE_RECORD"   /\ MayUpdateRecord(s, t)

(* Every block follows from the one before it. *)
Follows(c, h) ==
    /\ Allowed(StateAt(c, h - 1), c[h].txn)
    /\ Effect(StateAt(c, h - 1), c[h].txn) = c[h].state_root

ChainFollows(c) == \A h \in 1 .. Len(c) : Follows(c, h)

(* Every validator is where the chain was at its height. *)
OnTheChain(c, l, n) == \A v \in Validators : l[v] = StateAt(c, n[v])

-----------------------------------------------------------------------------
(* Transactions *)

LEMMA TransactionsWellFormed ==
    ASSUME time \in Nat, NEW t \in Transactions
    PROVE  WellFormed(t) /\ t.timestamp <= time + ClientError
<1>1. \A ts \in Timestamps : ts \in Nat /\ ts <= time + ClientError
  BY DEF Timestamps
<1>2. t.timestamp \in Timestamps
  BY DEF Transactions, make_create_agent, make_create_record, make_transfer_record,
         make_update_record
<1>3. WellFormed(t)
  BY <1>1, BuiltWellFormed DEF Transactions
<1> QED BY <1>1, <1>2, <1>3

LEMMA TransactionsGrow ==
    ASSUME time \in Nat, time' \in Nat, time <= time'
    PROVE  Transactions \subseteq Transactions'
<1>1. Timestamps \subseteq Timestamps'
  BY DEF Timestamps
<1> QED BY <1>1 DEF Transactions

(* Whenever a transaction was built, every later reading accepts its       *)
(* timestamp: this is what the tolerance is for.                           *)
LEMMA EveryReadingAccepts ==
    ASSUME time \in Nat, NEW ts \in Nat, ts <= time + ClientError, NEW now \in Readings
    PROVE  ValidTimestamp(ts, now)
<1>1. now \in Int /\ now >= time - ClockError
  BY DEF Readings
<1>2. ts - now <= ClientError + ClockError
  BY <1>1
<1> QED BY <1>1, <1>2, ClocksAssumption DEF ValidTimestamp

LEMMA AcceptsIs ==
    ASSUME NEW s, NEW t, NEW now
    PROVE  Accepts(s, t, now) <=> ValidTimestamp(t.timestamp, now) /\ Allowed(s, t)
BY DEF Accepts, Allowed

-----------------------------------------------------------------------------
(* Every step keeps the chain in order and every validator on it. *)

LEMMA BlockType ==
    ASSUME chain \in Seq(Block), NEW h \in 1 .. Len(chain)
    PROVE  chain[h].txn \in Transactions /\ chain[h].state_root \in GlobalStates
<1>1. chain[h] \in Block
  OBVIOUS
<1> QED BY <1>1 DEF Block

LEMMA SeqGrows ==
    ASSUME NEW A, NEW B, A \subseteq B, NEW c \in Seq(A)
    PROVE  c \in Seq(B)
<1>1. \A i \in 1 .. Len(c) : c[i] \in B
  OBVIOUS
<1> QED BY <1>1

LEMMA TypeStep ==
    ASSUME TypeOK, [Next]_vars
    PROVE  TypeOK'
<1> USE DEF TypeOK
<1>1. time \in Nat /\ chain \in Seq(Block)
  BY DEF Block
<1>2. ASSUME NEW v \in Validators, NEW t \in Transactions, Publish(v, t)
      PROVE  TypeOK'
  <2>1. Effect(ledger[v], t) \in GlobalStates
    BY <1>1, TransactionsWellFormed, EffectType
  <2>2. Transactions' = Transactions
    BY <1>2 DEF Publish, Transactions, Timestamps
  <2>3. /\ chain' = Append(chain, [txn |-> t, state_root |-> Effect(ledger[v], t)])
        /\ height' = [height EXCEPT ![v] = @ + 1]
        /\ ledger' = [ledger EXCEPT ![v] = Effect(@, t)]
        /\ height[v] = Len(chain)
        /\ UNCHANGED <<time, refused>>
    BY <1>2 DEF Publish
  <2>4. chain' \in Seq(Block) /\ Len(chain') = Len(chain) + 1
    BY <1>1, <2>1, <2>3 DEF Block
  <2>5. height' \in [Validators -> 0 .. Len(chain')]
    BY <1>1, <2>3, <2>4
  <2>6. ledger' \in [Validators -> GlobalStates]
    BY <2>1, <2>3
  <2>7. chain' \in Seq([txn : Transactions', state_root : GlobalStates])
    BY <2>2, <2>4 DEF Block
  <2> QED BY <2>3, <2>5, <2>6, <2>7
<1>3. ASSUME NEW v \in Validators, NEW now \in Readings, Validate(v, now)
      PROVE  TypeOK'
  <2>1. Transactions' = Transactions /\ UNCHANGED <<time, chain>>
    BY <1>3 DEF Validate, Transactions, Timestamps
  <2>2. height[v] + 1 \in 1 .. Len(chain)
    BY <1>1, <1>3 DEF Validate, Behind
  <2>3. NextBlock(v).state_root \in GlobalStates
    BY <1>1, <2>2, BlockType DEF NextBlock
  <2>4. ledger' \in [Validators -> GlobalStates]
    BY <1>3, <2>3 DEF Validate
  <2>5. height' \in [Validators -> 0 .. Len(chain')]
    BY <1>1, <1>3, <2>1, <2>2 DEF Validate
  <2>6. refused' \in SUBSET Validators
    BY <1>3 DEF Validate
  <2> QED BY <2>1, <2>4, <2>5, <2>6
<1>4. CASE Tick
  <2>1. time' \in 0 .. MaxTime /\ time <= time' /\ UNCHANGED <<chain, ledger, height, refused>>
    BY <1>1, <1>4 DEF Tick
  <2>2. Transactions \subseteq Transactions'
    BY <1>1, <2>1, TransactionsGrow
  <2>3. chain' \in Seq([txn : Transactions', state_root : GlobalStates])
    <3>1. chain' \in Seq([txn : Transactions, state_root : GlobalStates])
      BY <2>1
    <3>2. [txn : Transactions, state_root : GlobalStates]
              \subseteq [txn : Transactions', state_root : GlobalStates]
      BY <2>2
    <3> QED BY <3>1, <3>2, SeqGrows
  <2> QED BY <2>1, <2>3
<1>5. CASE UNCHANGED vars
  BY <1>5 DEF vars, Transactions, Timestamps
<1> QED BY <1>2, <1>3, <1>4, <1>5 DEF Next

LEMMA FollowsStep ==
    ASSUME TypeOK, ChainFollows(chain), OnTheChain(chain, ledger, height), NoBlockRefused,
           [Next]_vars
    PROVE  /\ ChainFollows(chain')
           /\ OnTheChain(chain', ledger', height')
           /\ refused' = {}
<1>1. /\ time \in Nat /\ chain \in Seq(Block) /\ Len(chain) \in Nat
      /\ ledger \in [Validators -> GlobalStates] /\ height \in [Validators -> 0 .. Len(chain)]
  BY DEF TypeOK, Block
<1>2. ASSUME NEW v \in Validators, NEW t \in Transactions, Publish(v, t)
      PROVE  /\ ChainFollows(chain')
             /\ OnTheChain(chain', ledger', height')
             /\ refused' = {}
  <2> DEFINE block == [txn |-> t, state_root |-> Effect(ledger[v], t)]
             n == Len(chain)
  <2>1. /\ height[v] = n
        /\ chain' = Append(chain, block)
        /\ height' = [height EXCEPT ![v] = @ + 1]
        /\ ledger' = [ledger EXCEPT ![v] = Effect(@, t)]
        /\ refused' = refused
        /\ Allowed(ledger[v], t)
    BY <1>2, AcceptsIs DEF Publish
  <2>2. block.txn = t /\ block.state_root = Effect(ledger[v], t)
    OBVIOUS
  <2> HIDE DEF block
  <2>3. Len(chain') = n + 1 /\ chain'[n + 1] = block /\ \A h \in 1 .. n : chain'[h] = chain[h]
    BY <1>1, <2>1
  <2>4. \A h \in 0 .. n : StateAt(chain', h) = StateAt(chain, h)
    BY <1>1, <2>3 DEF StateAt
  <2>5. StateAt(chain', n + 1) = Effect(ledger[v], t)
    BY <1>1, <2>2, <2>3 DEF StateAt
  <2>6. ledger[v] = StateAt(chain, n)
    BY <2>1 DEF OnTheChain
  <2>7. ASSUME NEW h \in 1 .. (n + 1) PROVE Follows(chain', h)
    <3>1. CASE h \in 1 .. n
      <4>1. h - 1 \in 0 .. n
        BY <1>1, <3>1
      <4>2. StateAt(chain', h - 1) = StateAt(chain, h - 1) /\ chain'[h] = chain[h]
        BY <2>3, <2>4, <3>1, <4>1
      <4>3. Follows(chain, h)
        BY <3>1 DEF ChainFollows
      <4> QED BY <4>2, <4>3 DEF Follows
    <3>2. CASE h = n + 1
      <4>1. h - 1 = n /\ n \in 0 .. n
        BY <1>1, <3>2
      <4>2. StateAt(chain', h - 1) = ledger[v] /\ chain'[h] = block
        BY <2>3, <2>4, <2>6, <3>2, <4>1
      <4> QED BY <2>1, <2>2, <4>2 DEF Follows
    <3> QED BY <1>1, <3>1, <3>2
  <2>8. ASSUME NEW u \in Validators PROVE ledger'[u] = StateAt(chain', height'[u])
    <3>1. CASE u = v
      BY <1>1, <2>1, <2>5, <3>1
    <3>2. CASE u # v
      <4>1. height'[u] = height[u] /\ height[u] \in 0 .. n /\ ledger'[u] = ledger[u]
        BY <1>1, <2>1, <3>2
      <4> QED BY <2>4, <4>1 DEF OnTheChain
    <3> QED BY <3>1, <3>2
  <2> QED BY <2>1, <2>3, <2>7, <2>8 DEF ChainFollows, OnTheChain, NoBlockRefused
<1>3. ASSUME NEW v \in Validators, NEW now \in Readings, Validate(v, now)
      PROVE  /\ ChainFollows(chain')
             /\ OnTheChain(chain', ledger', height')
             /\ refused' = {}
  <2> DEFINE h == height[v] + 1
  <2>1. h \in 1 .. Len(chain) /\ h - 1 = height[v] /\ chain' = chain
    <3>1. height[v] \in 0 .. Len(chain) /\ height[v] < Len(chain) /\ chain' = chain
      BY <1>1, <1>3 DEF Validate, Behind
    <3> QED BY <1>1, <3>1
  <2> HIDE DEF h
  <2>2. chain[h].txn \in Transactions
    BY <1>1, <2>1, BlockType
  <2>3. chain[h].txn.timestamp \in Nat /\ chain[h].txn.timestamp <= time + ClientError
    BY <1>1, <2>2, TransactionsWellFormed DEF WellFormed
  <2>4. ValidTimestamp(chain[h].txn.timestamp, now)
    BY <1>1, <2>3, EveryReadingAccepts
  <2>5. /\ Allowed(ledger[v], chain[h].txn)
        /\ Effect(ledger[v], chain[h].txn) = chain[h].state_root
    BY <2>1 DEF ChainFollows, Follows, OnTheChain
  <2>6. NextBlock(v) = chain[h]
    BY DEF NextBlock, h
  <2>7. Confirms(v, now)
    BY <2>4, <2>5, <2>6, AcceptsIs DEF Confirms
  <2>8. /\ ledger' = [ledger EXCEPT ![v] = chain[h].state_root]
        /\ height' = [height EXCEPT ![v] = h]
        /\ refused' = refused
    BY <1>3, <2>6, <2>7 DEF Validate, h
  <2>9. StateAt(chain, h) = chain[h].state_root
    BY <2>1 DEF StateAt
  <2>10. ASSUME NEW u \in Validators PROVE ledger'[u] = StateAt(chain, height'[u])
    <3>1. CASE u = v
      BY <1>1, <2>8, <2>9, <3>1
    <3>2. CASE u # v
      BY <1>1, <2>8, <3>2 DEF OnTheChain
    <3> QED BY <3>1, <3>2
  <2> QED BY <2>1, <2>8, <2>10 DEF OnTheChain, NoBlockRefused
<1>4. CASE UNCHANGED <<chain, ledger, height, refused>>
  BY <1>4 DEF NoBlockRefused
<1> QED BY <1>2, <1>3, <1>4 DEF Next, Tick, vars

Inv ==
    /\ TypeOK
    /\ ChainFollows(chain)
    /\ OnTheChain(chain, ledger, height)
    /\ NoBlockRefused

LEMMA Invariance == Spec => []Inv
<1>1. Init => Inv
  <2> SUFFICES ASSUME Init PROVE Inv
    OBVIOUS
  <2>1. TypeOK
    BY GenesisType DEF Init, TypeOK
  <2>2. ChainFollows(chain) /\ OnTheChain(chain, ledger, height) /\ NoBlockRefused
    BY DEF Init, ChainFollows, OnTheChain, NoBlockRefused, StateAt
  <2> QED BY <2>1, <2>2 DEF Inv
<1>2. Inv /\ [Next]_vars => Inv'
  <2> SUFFICES ASSUME Inv, [Next]_vars PROVE Inv'
    OBVIOUS
  <2>1. TypeOK'
    BY TypeStep DEF Inv
  <2>2. ChainFollows(chain') /\ OnTheChain(chain', ledger', height') /\ refused' = {}
    BY FollowsStep DEF Inv
  <2> QED BY <2>1, <2>2 DEF Inv, NoBlockRefused
<1> QED BY <1>1, <1>2, PTL DEF Spec

(* No validator refuses a block another one has published, however late it *)
(* executes it and whatever its clock reads, within ClocksAssumption.      *)
THEOREM NetworkNeverSplits == Spec => []NoBlockRefused
<1>1. Inv => NoBlockRefused
  BY DEF Inv
<1> QED BY <1>1, Invariance, PTL

(* Everything on the chain and in the replicas is typed.                   *)
THEOREM ReplicasTyped == Spec => []TypeOK
<1>1. Inv => TypeOK
  BY DEF Inv
<1> QED BY <1>1, Invariance, PTL
=============================================================================
