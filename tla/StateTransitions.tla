--------------------------- MODULE StateTransitions ---------------------------
(***************************************************************************)
(* What the state transitions of a block do to the platform state          *)
(* (packages/js-drive/lib/abci/handlers/deliverTxHandlerFactory.js and the *)
(* transitions of packages/js-dpp): identities and their keys, asset locks *)
(* spent on credits, data contracts, fees, and the distribution pool the   *)
(* fees of a block end in.                                                 *)
(*                                                                         *)
(* Tenderdash's consensus connection hands over one request at a time, so  *)
(* a transition is one step; those that fail validation change nothing.    *)
(* An identity's id is the hash of the asset lock output it was created    *)
(* with and is named by it; a contract, whose id is the hash of its owner  *)
(* and an entropy, by its owner.  A commit is one step here: what a crash  *)
(* leaves of one is the subject of BlockExecution.                         *)
(***************************************************************************)
EXTENDS Integers, Sequences, FiniteSetsExt

CONSTANTS
  Outpoints,    \* asset lock outputs
  Credits,      \* the credits an output buys
  Keys,         \* public keys
  Fees,         \* fees of transitions: their sizes in bytes
  None,         \* no identity
  FixedHeights, \* heights at which FIX_CUMULATIVE_FEES is enabled
  DpnsContract, DpnsHeight, \* the configured contract and the block it must be in
  MaxHeight     \* bound: blocks of a behaviour

ASSUME TransitionsAssumption ==
  /\ Credits \in [Outpoints -> Nat] /\ Fees \subseteq Nat
  /\ None \notin Outpoints /\ MaxHeight \in Nat /\ FixedHeights \subseteq Nat

States == [identities : SUBSET Outpoints, balance : [Outpoints -> Int],
           keys : [Outpoints -> SUBSET Keys], keyOwner : [Keys -> Outpoints \cup {None}],
           spent : SUBSET Outpoints, contracts : SUBSET Outpoints, pool : Nat]

VARIABLES
  phase,     \* "idle", "executing" a block, or "ended" and not committed
  height,    \* of the block in the context
  state,     \* the stores
  tx,        \* the same as the block's transactions see them
  pool,      \* the credits distribution pool in memory
  fees, created, \* the context's cumulative fees and data contracts
  saved,     \* the context on disk
  discarded  \* history: credits that left the pool when it was set

context == <<height, fees, created>>
vars == <<phase, context, state, tx, pool, saved, discarded>>

TypeOK ==
  /\ phase \in {"idle", "executing", "ended"} /\ height \in 0 .. MaxHeight
  /\ state \in States /\ tx \in States
  /\ pool \in Nat /\ fees \in Nat /\ created \in Seq(Outpoints)
  /\ saved \in [height : 0 .. MaxHeight, fees : Nat, created : Seq(Outpoints)]
  /\ discarded \in Nat

EmptyState ==
  [identities |-> {}, balance |-> [i \in Outpoints |-> 0], keys |-> [i \in Outpoints |-> {}],
   keyOwner |-> [k \in Keys |-> None], spent |-> {}, contracts |-> {}, pool |-> 0]

Init ==
  /\ phase = "idle" /\ height = 0 /\ fees = 0 /\ created = << >>
  /\ state = EmptyState /\ tx = EmptyState /\ pool = 0
  /\ saved = [height |-> 0, fees |-> 0, created |-> << >>] /\ discarded = 0

-----------------------------------------------------------------------------
(* Faulty variants of what follows, for the mutation runs *)

\* The fees of the block before are kept.
BeginBlockKeepsFees ==
  /\ height < MaxHeight
  /\ phase' = "executing" /\ height' = height + 1
  /\ created' = << >> /\ tx' = state
  /\ UNCHANGED <<state, pool, fees, saved, discarded>>

\* The contracts of the block before are kept.
BeginBlockKeepsContracts ==
  /\ height < MaxHeight
  /\ phase' = "executing" /\ height' = height + 1
  /\ fees' = 0 /\ tx' = state
  /\ UNCHANGED <<state, pool, created, saved, discarded>>

\* Balances are looked up without the transaction.
CoversCommitted(t, i, credits, fee) == state.balance[i] + credits >= fee

\* Keys are looked up without the transaction.
KeysFreeCommitted(t, ks) == \A k \in ks : state.keyOwner[k] = None

\* Keys are not looked up.
KeysUnchecked(t, ks) == TRUE

\* The fee is booked with the wrong sign.
ChargeRefunds(t, i, fee) ==
  /\ tx' = [t EXCEPT !.balance[i] = @ + fee]
  /\ fees' = fees - fee

-----------------------------------------------------------------------------
(* Blocks *)

\* The context is reset; transactions left open are aborted, new ones started.
\* After a restart of Tenderdash alone the block begun before is skipped, for
\* Info reports the height in memory (see BlockExecution).
BeginBlock ==
  /\ height < MaxHeight
  /\ phase' = "executing" /\ height' = height + 1
  /\ fees' = 0 /\ created' = << >> /\ tx' = state
  /\ UNCHANGED <<state, pool, saved, discarded>>

\* validateStateTransitionFee, with the credits a top-up brings itself.
Covers(t, i, credits, fee) == t.balance[i] + credits >= fee

\* validateIdentityPublicKeysUniqueness.
KeysFree(t, ks) == \A k \in ks : t.keyOwner[k] = None

\* After a transition was applied: reduceBalance and incrementCumulativeFees.
Charge(t, i, fee) ==
  /\ tx' = [t EXCEPT !.balance[i] = @ - fee]
  /\ fees' = fees + fee

Unspent(o) == o \notin tx.spent

\* applyIdentityCreateTransition: the identity, its keys' owner, the output.
WithIdentity(t, o, ks) ==
  [t EXCEPT !.identities = @ \cup {o}, !.balance[o] = Credits[o], !.keys[o] = ks,
            !.keyOwner = [k \in Keys |-> IF k \in ks THEN o ELSE @[k]],
            !.spent = @ \cup {o}]

IdentityCreate(o, ks, fee) ==
  /\ phase = "executing"
  /\ Unspent(o) /\ Credits[o] >= fee
  /\ o \notin tx.identities /\ KeysFree(tx, ks)
  /\ Charge(WithIdentity(tx, o, ks), o, fee)
  /\ UNCHANGED <<phase, height, state, pool, created, saved, discarded>>

\* applyIdentityTopUpTransition.
WithCredits(t, i, o) ==
  [t EXCEPT !.balance[i] = @ + Credits[o], !.spent = @ \cup {o}]

IdentityTopUp(i, o, fee) ==
  /\ phase = "executing"
  /\ Unspent(o) /\ i \in tx.identities
  /\ Covers(tx, i, Credits[o], fee)
  /\ Charge(WithCredits(tx, i, o), i, fee)
  /\ UNCHANGED <<phase, height, state, pool, created, saved, discarded>>

\* applyDataContractCreateTransition.
WithContract(t, i) == [t EXCEPT !.contracts = @ \cup {i}]

\* The contract must not be there yet; fetchDataContract uses no transaction.
DataContractCreate(i, fee) ==
  /\ phase = "executing"
  /\ i \in tx.identities /\ i \notin state.contracts
  /\ Covers(tx, i, 0, fee)
  /\ Charge(WithContract(tx, i), i, fee)
  /\ created' = Append(created, i)
  /\ UNCHANGED <<phase, height, state, pool, saved, discarded>>

\* What a batch does to documents is DocumentsStore's subject.
DocumentsBatch(i, contract, fee) ==
  /\ phase = "executing"
  /\ i \in tx.identities /\ contract \in state.contracts
  /\ Covers(tx, i, 0, fee)
  /\ Charge(tx, i, fee)
  /\ UNCHANGED <<phase, height, state, pool, created, saved, discarded>>

\* Heights of requests are Long objects, configured heights are numbers: ===
\* between the two is false.
LongHeight(h) == <<"Long", h>>
NumberHeight(h) == <<"number", h>>

\* endBlock throws if the configured contract is not in its block.
EndBlock ==
  /\ phase = "executing"
  /\ LongHeight(height) = NumberHeight(DpnsHeight) => DpnsContract \in Range(created)
  /\ phase' = "ended"
  /\ UNCHANGED <<context, state, tx, pool, saved, discarded>>

\* The block's fees are added to the pool, or replace it before the fix.
NextPool == IF height \in FixedHeights THEN pool + fees ELSE fees

Commit ==
  /\ phase = "ended"
  /\ phase' = "idle"
  /\ pool' = NextPool
  /\ state' = [tx EXCEPT !.pool = NextPool] /\ tx' = state'
  /\ saved' = [height |-> height, fees |-> fees, created |-> created]
  /\ discarded' = discarded + (pool + fees - NextPool)
  /\ UNCHANGED context

\* Drive ends and starts again: transactions are lost, the context comes from
\* disk and the pool from its store.
Restart ==
  /\ phase' = "idle"
  /\ height' = saved.height /\ fees' = saved.fees /\ created' = saved.created
  /\ tx' = state /\ pool' = state.pool
  /\ UNCHANGED <<state, saved, discarded>>

Next ==
  \/ BeginBlock
  \/ \E o \in Outpoints, ks \in (SUBSET Keys) \ {{}}, fee \in Fees : IdentityCreate(o, ks, fee)
  \/ \E i, o \in Outpoints, fee \in Fees : IdentityTopUp(i, o, fee)
  \/ \E i \in Outpoints, fee \in Fees : DataContractCreate(i, fee)
  \/ \E i, c \in Outpoints, fee \in Fees : DocumentsBatch(i, c, fee)
  \/ EndBlock
  \/ Commit
  \/ Restart

Spec == Init /\ [][Next]_vars

-----------------------------------------------------------------------------
(* Properties *)

\* Credits are neither made nor lost: what the asset locks bought is with the
\* identities, in the block's fees, in the pool, or was discarded with it.
CreditsConserved ==
  MapThenSumSet(LAMBDA i : tx.balance[i], tx.identities) + pool + discarded
    + (IF phase = "idle" THEN 0 ELSE fees)
  = MapThenSumSet(LAMBDA o : Credits[o], tx.spent)

\* Fees never exceed what their payer has, however many transitions of one
\* block it pays for.
NoDebt == \A i \in Outpoints : state.balance[i] >= 0 /\ tx.balance[i] >= 0

\* The identities' keys and the map from keys to identities agree: no key has
\* two identities, in the stores and in an open block.
Agree(t) ==
  \A k \in Keys, i \in Outpoints : t.keyOwner[k] = i <=> i \in t.identities /\ k \in t.keys[i]
KeysAgree == Agree(state) /\ Agree(tx)

\* The contracts for which commit creates databases are those the block adds,
\* whatever was begun and not committed before.
CreatedAreNew == phase # "idle" => Range(created) = tx.contracts \ state.contracts

\* A spent output, a key and a contract stay taken by whom took them, through
\* restarts and aborted blocks.
TakenStaysTaken ==
  [][/\ state.spent \subseteq state'.spent /\ state.contracts \subseteq state'.contracts
     /\ \A k \in Keys : state.keyOwner[k] # None => state'.keyOwner[k] = state.keyOwner[k]]_vars
=============================================================================
