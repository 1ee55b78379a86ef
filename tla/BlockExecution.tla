--------------------------- MODULE BlockExecution ---------------------------
(***************************************************************************)
(* Drive's block execution (packages/js-drive): the ABCI handlers info,    *)
(* beginBlock, deliverTx/endBlock (as one step) and commit, the two        *)
(* families of stores they write (the current ones, at the height being    *)
(* committed, and the "previous" ones that queries and proofs read, one    *)
(* block behind), the execution contexts kept in LevelDB and the file that *)
(* carries the last block's changes to the next commit.                    *)
(*                                                                         *)
(* The content of a store is the set of blocks whose changes it holds.     *)
(* Between two awaits of a handler nothing else of Drive runs, so a step   *)
(* here is what happens from one await to the next; the process may die at *)
(* every one of them and is restarted by its supervisor.                   *)
(***************************************************************************)
EXTENDS Integers, FiniteSets

CONSTANTS
  NumStores,       \* stores, numbered in the order their commits take effect
  ContractStore,   \* the data contracts' store
  MongoStore,      \* the MongoDB indices, committed just before the documents
  MaxHeight,       \* bound: blocks of a behaviour
  ContractHeights, \* the blocks that create a data contract
  Faults,          \* the kinds of fault a behaviour may meet
  MaxFaults        \* bound: faults of a behaviour

FaultKinds == {"crash", "storeFailure", "contextFailure", "consensusRestart"}

ASSUME ConstantsAssumption ==
  /\ NumStores \in Nat /\ MaxHeight \in Nat /\ MaxFaults \in Nat
  /\ MongoStore = NumStores - 1
  /\ ContractStore \in Nat /\ 1 <= ContractStore /\ ContractStore < MongoStore
  /\ ContractHeights \subseteq 1 .. MaxHeight
  /\ Faults \subseteq FaultKinds

Stores  == 1 .. NumStores
Leaves  == Stores \ {MongoStore}   \* the stores under the root tree
Heights == 1 .. MaxHeight

VARIABLES
  pc,          \* where Drive is: down, waiting for a call, or inside a handler
  next,        \* the height Tenderdash sends next
  ctx,         \* height in blockExecutionContext, 0 when empty
  prevCtx,     \* height in previousBlockExecutionContext, 0 when empty
  newContract, \* a contract in blockExecutionContext.dataContracts
  tx,          \* stores whose changes the block's transactions carry
  started,     \* blockExecutionStoreTransactions.isStarted()
  k,           \* the store whose commit comes next
  failed,      \* the stores whose commit failed
  contPrev,    \* previousBlockExecutionStoreTransactions in the container
  rootTree,    \* the current stores when the root tree was last rebuilt
  \* persisted state
  cur, prev,         \* the current and the previous stores
  dbs, prevDbs,      \* contracts' document databases, current and previous
  extCtx, extPrev,   \* contexts in the external LevelDB
  file,              \* the previous transactions' file
  \* history
  torn,        \* blocks whose commit was cut between two stores
  lost,        \* blocks whose changes never reached the file
  skipped,     \* blocks reported to Tenderdash without having been committed
  faults       \* faults so far

mem   == <<ctx, prevCtx, newContract, tx, started, k, failed, contPrev, rootTree>>
disk  == <<cur, prev, dbs, prevDbs, extCtx, extPrev, file>>
hist  == <<torn, lost, skipped>>
vars  == <<pc, next, mem, disk, hist, faults>>

\* A clone of a block's transactions: its height and the stores it changes.
NoChanges == [height |-> 0, stores |-> {}]
Torn      == [height |-> -1, stores |-> {}]   \* a file cut while being written
Changes   == [height : Heights, stores : SUBSET Stores]

Commits == {"stores", "context", "prevContext", "prevDatabases",
            "prevStores", "truncate", "write", "respond"}
Phases  == {"down", "handshake", "idle", "begin", "executing", "executed"} \cup Commits

TypeOK ==
  /\ pc \in Phases
  /\ next \in 1 .. MaxHeight + 1
  /\ ctx \in 0 .. MaxHeight /\ prevCtx \in 0 .. MaxHeight
  /\ newContract \in BOOLEAN /\ tx \subseteq Stores /\ started \in BOOLEAN
  /\ k \in 1 .. NumStores + 1 /\ failed \subseteq Stores
  /\ contPrev \in Changes \cup {NoChanges}
  /\ rootTree \in [Leaves -> SUBSET Heights]
  /\ cur \in [Stores -> SUBSET Heights] /\ prev \in [Stores -> SUBSET Heights]
  /\ dbs \subseteq ContractHeights /\ prevDbs \subseteq ContractHeights
  /\ extCtx \in 0 .. MaxHeight /\ extPrev \in 0 .. MaxHeight
  /\ file \in Changes \cup {NoChanges, Torn}
  /\ torn \subseteq Heights /\ lost \subseteq Heights /\ skipped \subseteq Heights
  /\ faults \in 0 .. MaxFaults

Rebuild(stores) == [i \in Leaves |-> stores[i]]

Init ==
  /\ pc = "down" /\ next = 1
  /\ ctx = 0 /\ prevCtx = 0 /\ newContract = FALSE /\ tx = {} /\ started = FALSE
  /\ k = 1 /\ failed = {} /\ contPrev = NoChanges
  /\ rootTree = [i \in Leaves |-> {}]
  /\ cur = [i \in Stores |-> {}] /\ prev = [i \in Stores |-> {}]
  /\ dbs = {} /\ prevDbs = {} /\ extCtx = 0 /\ extPrev = 0 /\ file = NoChanges
  /\ torn = {} /\ lost = {} /\ skipped = {} /\ faults = 0

-----------------------------------------------------------------------------
(* Faults *)

\* The block being committed is in some store, but not in the context.
TornNow == pc \in {"stores", "context"} /\ \E i \in Stores : ctx \in cur[i]

\* Every error of a block handler ends the process, as a kill does; what
\* the death costs is recorded in the history.
Die ==
  /\ pc' = "down"
  /\ torn' = IF TornNow THEN torn \cup {ctx} ELSE torn
  /\ lost' = IF extCtx > 0 /\ file.height # extCtx THEN lost \cup {extCtx} ELSE lost
  /\ UNCHANGED <<next, mem, skipped>>

Fault(kind) ==
  /\ kind \in Faults /\ faults < MaxFaults
  /\ faults' = faults + 1

-----------------------------------------------------------------------------
(* Faulty variants of the actions below, for the mutation runs: each one is  *)
(* a slip this code could have.                                              *)

\* allSettled in place of all: failed stores are not noticed.
StoresSettled ==
  /\ pc = "stores" /\ k = NumStores + 1
  /\ started' = FALSE /\ pc' = "context"
  /\ UNCHANGED <<next, ctx, prevCtx, newContract, tx, k, failed, contPrev, rootTree,
                 disk, hist, faults>>

\* The new clone is registered before the old one is committed.
RegisterBeforePrevious ==
  /\ pc = "prevContext"
  /\ contPrev' = [height |-> ctx, stores |-> tx]
  /\ extPrev' = prevCtx /\ rootTree' = Rebuild(cur)
  /\ pc' = "prevDatabases"
  /\ UNCHANGED <<next, ctx, prevCtx, newContract, tx, started, k, failed, cur, prev, dbs,
                 prevDbs, extCtx, file, hist, faults>>

\* A cold start does not read the file.
InfoIgnoresFile ==
  /\ pc = "handshake"
  /\ next' = ctx + 1 /\ pc' = "idle"
  /\ UNCHANGED <<mem, disk, hist, faults>>

\* The previous context is only filled while it is empty.
BeginBlockKeepsPrevious ==
  /\ pc = "idle" /\ next <= MaxHeight
  /\ prevCtx' = IF prevCtx = 0 THEN ctx ELSE prevCtx
  /\ ctx' = next /\ newContract' = FALSE /\ pc' = "begin"
  /\ UNCHANGED <<next, tx, started, k, failed, contPrev, rootTree, disk, hist, faults>>

\* The root tree is not rebuilt after a commit.
NoRebuild ==
  /\ pc = "prevContext"
  /\ extPrev' = IF prevCtx # 0 THEN prevCtx ELSE extPrev
  /\ pc' = IF contPrev = NoChanges THEN "truncate" ELSE "prevDatabases"
  /\ UNCHANGED <<next, mem, cur, prev, dbs, prevDbs, extCtx, file, hist, faults>>

\* Contracts' databases are left to be created later.
CreateNoDatabases ==
  /\ pc = "executed"
  /\ pc' = "stores" /\ k' = 1 /\ failed' = {}
  /\ UNCHANGED <<next, ctx, prevCtx, newContract, tx, started, contPrev, rootTree,
                 disk, hist, faults>>

\* The two contexts are populated from each other's key.
StartSwapped ==
  /\ pc = "down" /\ pc' = "handshake"
  /\ ctx' = extPrev /\ prevCtx' = extCtx
  /\ newContract' = FALSE /\ tx' = {} /\ started' = FALSE /\ k' = 1 /\ failed' = {}
  /\ contPrev' = NoChanges /\ rootTree' = Rebuild(cur)
  /\ UNCHANGED <<next, disk, hist, faults>>

\* The catch block does not drop the database.
CreateFailsWithoutDrop ==
  /\ pc = "executed" /\ newContract /\ ctx \in dbs
  /\ Die
  /\ UNCHANGED <<disk, faults>>

-----------------------------------------------------------------------------
(* Start and death of the process *)

\* scripts/abci.js: both contexts come back from LevelDB, the root tree is
\* built from the stores as they are, nothing else survives.
Start ==
  /\ pc = "down"
  /\ pc' = "handshake"
  /\ ctx' = extCtx /\ prevCtx' = extPrev
  /\ newContract' = FALSE /\ tx' = {} /\ started' = FALSE /\ k' = 1 /\ failed' = {}
  /\ contPrev' = NoChanges /\ rootTree' = Rebuild(cur)
  /\ UNCHANGED <<next, disk, hist, faults>>

Crash ==
  /\ pc # "down"
  /\ Fault("crash")
  /\ Die
  /\ UNCHANGED disk

-----------------------------------------------------------------------------
(* The ABCI handlers up to the commit *)

\* infoHandler: the height it reports is that of the context in memory; on a
\* cold start it takes the last block's changes back from the file.
Info ==
  /\ pc = "handshake"
  /\ ctx # 0 /\ contPrev = NoChanges => file \in Changes
  /\ contPrev' = IF ctx # 0 /\ contPrev = NoChanges THEN file ELSE contPrev
  /\ next' = ctx + 1
  /\ skipped' = IF ctx > extCtx THEN skipped \cup {ctx} ELSE skipped
  /\ pc' = "idle"
  /\ UNCHANGED <<ctx, prevCtx, newContract, tx, started, k, failed, rootTree,
                 disk, torn, lost, faults>>

\* The file is missing or cannot be decoded: the handler throws.
InfoFails ==
  /\ pc = "handshake"
  /\ ctx # 0 /\ contPrev = NoChanges /\ file \notin Changes
  /\ Die
  /\ UNCHANGED <<disk, faults>>

\* beginBlockHandler until it waits for Core: the contexts move on.
BeginBlock ==
  /\ pc = "idle" /\ next <= MaxHeight
  /\ prevCtx' = ctx /\ ctx' = next /\ newContract' = FALSE
  /\ pc' = "begin"
  /\ UNCHANGED <<next, tx, started, k, failed, contPrev, rootTree, disk, hist, faults>>

\* The rest of beginBlockHandler: transactions left open are aborted.
StartTransactions ==
  /\ pc = "begin"
  /\ tx' = {} /\ started' = TRUE
  /\ pc' = "executing"
  /\ UNCHANGED <<next, ctx, prevCtx, newContract, k, failed, contPrev, rootTree,
                 disk, hist, faults>>

\* deliverTxHandler for the block's transitions, then endBlockHandler. A block
\* run again over its own changes may have any of them rejected.
ExecuteBlock ==
  /\ pc = "executing"
  /\ \E changed \in SUBSET Stores :
       /\ (\A i \in Stores : ctx \notin cur[i]) => changed = Stores
       /\ tx' = changed
       /\ newContract' = ( /\ ctx \in ContractHeights
                           /\ ContractStore \in changed
                           /\ ctx \notin cur[ContractStore] )
  /\ pc' = "executed"
  /\ UNCHANGED <<next, ctx, prevCtx, started, k, failed, contPrev, rootTree,
                 disk, hist, faults>>

\* Tenderdash restarts alone, between two calls; it opens with Info again.
ConsensusRestart ==
  /\ pc \in {"idle", "executing", "executed"}
  /\ Fault("consensusRestart")
  /\ pc' = "handshake"
  /\ UNCHANGED <<next, mem, disk, hist>>

-----------------------------------------------------------------------------
(* commitHandler *)

\* Commit is called: the databases of the block's contracts are created, the
\* pool is stored in the transactions and these are cloned.
CreateDatabases ==
  /\ pc = "executed"
  /\ dbs' = IF newContract THEN dbs \cup {ctx} ELSE dbs
  /\ pc' = "stores" /\ k' = 1 /\ failed' = {}
  /\ UNCHANGED <<next, ctx, prevCtx, newContract, tx, started, contPrev, rootTree,
                 cur, prev, prevDbs, extCtx, extPrev, file, hist, faults>>

\* A database left by an earlier run is refused by the driver: the catch
\* block aborts the open transactions and drops the contract's database.
CreateDatabasesFails ==
  /\ pc = "executed" /\ newContract /\ ctx \in dbs
  /\ dbs' = dbs \ {ctx}
  /\ Die
  /\ UNCHANGED <<cur, prev, prevDbs, extCtx, extPrev, file, faults>>

\* The block's changes to one store become visible and durable at once.
CommitStore ==
  /\ pc = "stores" /\ k <= NumStores
  /\ cur' = [cur EXCEPT ![k] = IF k \in tx THEN @ \cup {ctx} ELSE @]
  /\ k' = k + 1
  /\ UNCHANGED <<pc, next, ctx, prevCtx, newContract, tx, started, failed, contPrev,
                 rootTree, prev, dbs, prevDbs, extCtx, extPrev, file, hist, faults>>

\* A commit rejects. Promise.all lets the other stores finish; the documents
\* are not committed when their indices were not.
StoreFails ==
  /\ pc \in {"stores", "prevStores"} /\ k <= NumStores
  /\ Fault("storeFailure")
  /\ IF k = MongoStore THEN /\ failed' = failed \cup {k, k + 1}
                           /\ k' = k + 2
                      ELSE /\ failed' = failed \cup {k}
                           /\ k' = k + 1
  /\ UNCHANGED <<pc, next, ctx, prevCtx, newContract, tx, started, contPrev, rootTree,
                 disk, hist>>

StoresCommitted ==
  /\ pc = "stores" /\ k = NumStores + 1 /\ failed = {}
  /\ started' = FALSE
  /\ pc' = "context"
  /\ UNCHANGED <<next, ctx, prevCtx, newContract, tx, k, failed, contPrev, rootTree,
                 disk, hist, faults>>

\* The catch block: abort() throws as soon as one store has committed, and
\* then the contract's database is not dropped.
StoresFailed ==
  /\ pc = "stores" /\ k = NumStores + 1 /\ failed # {}
  /\ dbs' = IF failed = Stores /\ newContract THEN dbs \ {ctx} ELSE dbs
  /\ Die
  /\ UNCHANGED <<cur, prev, prevDbs, extCtx, extPrev, file, faults>>

\* The context goes to LevelDB only after every store.
StoreContext ==
  /\ pc = "context"
  /\ extCtx' = ctx
  /\ pc' = "prevContext"
  /\ UNCHANGED <<next, mem, cur, prev, dbs, prevDbs, extPrev, file, hist, faults>>

\* A context cannot be written: nothing is left to abort, and the databases of
\* contracts already committed are dropped.
StoreContextFails ==
  /\ pc \in {"context", "prevContext"}
  /\ Fault("contextFailure")
  /\ dbs' = IF newContract THEN dbs \ {ctx} ELSE dbs
  /\ Die
  /\ UNCHANGED <<cur, prev, prevDbs, extCtx, extPrev, file>>

\* The previous context is kept too, and the root tree rebuilt.
StorePreviousContext ==
  /\ pc = "prevContext"
  /\ extPrev' = IF prevCtx # 0 THEN prevCtx ELSE extPrev
  /\ rootTree' = Rebuild(cur)
  /\ pc' = IF contPrev = NoChanges THEN "truncate" ELSE "prevDatabases"
  /\ UNCHANGED <<next, ctx, prevCtx, newContract, tx, started, k, failed, contPrev,
                 cur, prev, dbs, prevDbs, extCtx, file, hist, faults>>

\* A contract among the changes of the block before.
PrevContract == contPrev.height \in ContractHeights /\ ContractStore \in contPrev.stores

CreatePreviousDatabases ==
  /\ pc = "prevDatabases"
  /\ prevDbs' = IF PrevContract THEN prevDbs \cup {contPrev.height} ELSE prevDbs
  /\ pc' = "prevStores" /\ k' = 1 /\ failed' = {}
  /\ UNCHANGED <<next, ctx, prevCtx, newContract, tx, started, contPrev,
                 rootTree, cur, prev, dbs, extCtx, extPrev, file, hist, faults>>

CreatePreviousDatabasesFails ==
  /\ pc = "prevDatabases" /\ PrevContract /\ contPrev.height \in prevDbs
  /\ Die
  /\ UNCHANGED <<disk, faults>>

\* The changes of the block before reach the previous stores one by one.
CommitPreviousStore ==
  /\ pc = "prevStores" /\ k <= NumStores
  /\ prev' = [prev EXCEPT ![k] = IF k \in contPrev.stores
                                  THEN @ \cup {contPrev.height} ELSE @]
  /\ k' = k + 1
  /\ UNCHANGED <<pc, next, ctx, prevCtx, newContract, tx, started, failed, contPrev,
                 rootTree, cur, dbs, prevDbs, extCtx, extPrev, file, hist, faults>>

PreviousStoresFailed ==
  /\ pc = "prevStores" /\ k = NumStores + 1 /\ failed # {}
  /\ Die
  /\ UNCHANGED <<disk, faults>>

PreviousStoresCommitted ==
  /\ pc = "prevStores" /\ k = NumStores + 1 /\ failed = {}
  /\ pc' = "truncate"
  /\ UNCHANGED <<next, mem, disk, hist, faults>>

\* The clone replaces the one in the container; writeFile first truncates.
RegisterAndTruncate ==
  /\ pc = "truncate"
  /\ contPrev' = [height |-> ctx, stores |-> tx]
  /\ file' = Torn
  /\ pc' = "write"
  /\ UNCHANGED <<next, ctx, prevCtx, newContract, tx, started, k, failed, rootTree,
                 cur, prev, dbs, prevDbs, extCtx, extPrev, hist, faults>>

WriteFile ==
  /\ pc = "write"
  /\ file' = contPrev
  /\ pc' = "respond"
  /\ UNCHANGED <<next, mem, cur, prev, dbs, prevDbs, extCtx, extPrev, hist, faults>>

Respond ==
  /\ pc = "respond"
  /\ next' = ctx + 1
  /\ pc' = "idle"
  /\ UNCHANGED <<mem, disk, hist, faults>>

Commit ==
  \/ CreateDatabases \/ CreateDatabasesFails
  \/ CommitStore \/ StoreFails \/ StoresCommitted \/ StoresFailed
  \/ StoreContext \/ StoreContextFails \/ StorePreviousContext
  \/ CreatePreviousDatabases \/ CreatePreviousDatabasesFails
  \/ CommitPreviousStore \/ PreviousStoresFailed \/ PreviousStoresCommitted
  \/ RegisterAndTruncate \/ WriteFile \/ Respond

Next ==
  \/ Start \/ Info \/ InfoFails
  \/ BeginBlock \/ StartTransactions \/ ExecuteBlock
  \/ Commit
  \/ Crash \/ ConsensusRestart

\* The supervisor restarts Drive, Tenderdash keeps calling, Drive's own steps
\* go on; no fault has to happen.
Progress ==
  \/ Start \/ Info \/ BeginBlock \/ StartTransactions \/ ExecuteBlock
  \/ CreateDatabases \/ CommitStore \/ StoresCommitted \/ StoresFailed
  \/ StoreContext \/ StorePreviousContext \/ CreatePreviousDatabases
  \/ CommitPreviousStore \/ PreviousStoresFailed \/ PreviousStoresCommitted
  \/ RegisterAndTruncate \/ WriteFile \/ Respond

Spec     == Init /\ [][Next]_vars
FairSpec == Spec /\ WF_vars(Progress)

-----------------------------------------------------------------------------
(* Properties *)

\* The blocks whose changes no store is promised to hold in full.
Damaged == torn \cup skipped

\* A context in LevelDB stands for a finished block: commitHandler stores it
\* after every store has committed, so unless its commit was cut by a death or
\* the block was skipped, each block up to the persisted context is in all of
\* the current stores, whatever died in between.
CommittedBlocksAreWhole ==
  \A h \in (1 .. extCtx) \ Damaged, i \in Stores : h \in cur[i]

\* Changes beyond the persisted context are those of the block whose commit is
\* running or was cut: nothing written by beginBlock or deliverTx survives.
OnlyCommitsReachStores ==
  \A i \in Stores : \A h \in cur[i] :
    \/ h <= extCtx \/ h \in torn
    \/ pc \in {"stores", "context"} /\ h = ctx

\* The previous stores stay behind: they never hold the block of the persisted
\* context or a later one, through any crash, failed write or restart.
PreviousStaysBehind ==
  \A i \in Stores : \A h \in prev[i] : h < extCtx

\* Where the changes of block h wait to be applied to the previous stores.
Carried(h) ==
  \/ file \in Changes /\ file.height = h
  \/ pc # "down" /\ contPrev.height = h
  \/ pc \in {"prevContext", "prevDatabases", "prevStores", "truncate"} /\ ctx = h

\* commitHandler hands a block's changes from the clone to the file, to the
\* container and at the next commit to the previous stores. No block falls
\* between two of them, except in the window the history records: a death
\* after the context was stored and before the file was written.
NoBlockForgotten ==
  \A h \in (1 .. extCtx) \ (Damaged \cup lost) :
    Carried(h) \/ \A i \in Stores : h \in prev[i]

\* A query is answered from the previous stores under the height of the
\* previous context; its handlers check both contexts.
QueryAnswered == pc # "down" /\ ctx # 0 /\ prevCtx # 0

\* The state a query reads never runs ahead of the height it reports, also
\* while commit moves the previous stores one by one.
QueryNeverAhead ==
  QueryAnswered => \A i \in Stores : \A h \in prev[i] : h <= prevCtx

\* What Info and Commit report as app hash is that of the blocks up to the
\* reported height, in every store, unless a commit was cut or skipped.
ReportedHash ==
  /\ pc \in {"handshake", "idle", "respond"}
  /\ torn = {} /\ skipped = {} /\ ctx = extCtx
  => \A i \in Leaves : rootTree[i] = 1 .. ctx

\* A contract in the data contracts' store has its document database, which
\* commit creates first and drops in its catch block, unless the commit of
\* its block was cut by a failure on the way to the file.
ContractHasDatabase ==
  \A h \in ContractHeights \ (torn \cup lost) : h \in cur[ContractStore] => h \in dbs

\* The file is needed from the first block on and a commit cut while writing
\* it leaves nothing to decode: Drive cannot be started again.
Bricked == pc \in {"down", "handshake"} /\ extCtx > 0 /\ file \notin Changes

\* Left alone after finitely many faults, the node commits every block
\* Tenderdash sends, or can no longer start because of its file.
EveryBlockCommitted == <>[](extCtx = MaxHeight \/ Bricked)

\* What the store of a context may do to the persisted height: it moves on by
\* one block, unless blocks were skipped.
ContextMovesByOne ==
  [][extCtx' = extCtx \/ extCtx' = extCtx + 1 \/ skipped # {}]_vars

-----------------------------------------------------------------------------
(* What the repository says, and the code does not do *)

\* infoHandler.spec "return stored info", infoHandler "latest saved core chain
\* lock": the height Info reports would be that of a saved context.
InfoReportsSavedHeight ==
  [][pc = "handshake" /\ pc' = "idle" => next' = extCtx + 1]_vars
=============================================================================
