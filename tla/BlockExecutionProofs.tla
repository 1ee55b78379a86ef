------------------------- MODULE BlockExecutionProofs -------------------------
(***************************************************************************)
(* The safety properties of BlockExecution, for every number of stores, of *)
(* blocks and of faults, and that it implements LaggingLedger. They all    *)
(* follow from one inductive invariant: it says, phase by phase of the     *)
(* block's life, how the contexts relate to each other, which stores       *)
(* already hold the block, and where the changes of the block before it    *)
(* are kept.                                                               *)
(***************************************************************************)
EXTENDS BlockExecutionRefinement, TLAPS

\* The phases in which a block is being worked on, before and after the
\* context stored in LevelDB makes it the committed one.
Open      == {"begin", "executing", "executed", "stores", "context"}
Stored    == {"prevContext", "prevDatabases", "prevStores", "truncate"}
Closing   == {"write", "respond"}
Executed  == {"executed", "stores", "context"} \cup Stored

\* A clone holds the changes to all stores, unless its block had run before
\* over part of them.
Cloned(changes) == changes # NoChanges /\ changes.height \notin torn => changes.stores = Stores

\* How the height in memory relates to the persisted one, phase by phase; the
\* blocks between the two were reported without a commit.
ContextInv ==
  /\ pc \in Open => extCtx < ctx
  /\ pc \in Stored \cup Closing => extCtx = ctx /\ ctx > 0
  /\ pc # "down" => extCtx <= ctx
  /\ pc = "idle" => next = ctx + 1
  /\ pc # "down" => \A h \in Heights : extCtx < h /\ h < ctx => h \in skipped
  /\ pc = "idle" => \A h \in Heights : extCtx < h /\ h <= ctx => h \in skipped

\* What the current stores, the open transactions and the contracts' databases
\* hold of the block, by how far its commit has come.
StoresInv ==
  /\ newContract => ctx \in ContractHeights
  /\ pc = "executed" /\ newContract => ctx \notin cur[ContractStore]
  /\ pc = "stores" /\ newContract => ctx \in dbs
  /\ pc \in {"executed", "stores"} /\ ctx \in ContractHeights /\ ctx \notin torn => newContract
  /\ pc \in Executed /\ ctx \notin torn => tx = Stores
  /\ pc = "stores" => \A i \in failed : i < k
  /\ pc = "stores" /\ ctx \notin torn =>
       \A i \in Stores : ctx \in cur[i] <=> i < k /\ i \notin failed
  /\ pc = "context" /\ ctx \notin torn => \A i \in Stores : ctx \in cur[i]
  /\ pc \notin {"down", "stores", "context", "prevContext"} => rootTree = Rebuild(cur)

\* Where the changes of the block before are: in the file, in the container's
\* clone, or partly in the previous stores already.
PreviousInv ==
  /\ file.height <= extCtx
  /\ Cloned(file) \/ file = Torn
  /\ pc # "down" => Cloned(contPrev) /\ contPrev.height <= ctx
  /\ pc \in Open \cup Stored => contPrev.height < ctx /\ contPrev.height <= prevCtx
  /\ pc \notin {"down", "write"} /\ contPrev # NoChanges => file = contPrev
  /\ pc \in {"idle"} \cup Open \cup Stored /\ contPrev = NoChanges => file \notin Changes
  /\ pc \in Closing => contPrev.height = ctx
  /\ pc = "write" => file = Torn
  /\ pc \in {"prevDatabases", "prevStores"} => contPrev.height <= extPrev
  /\ pc = "prevStores" => \A i \in Stores :
       i < k /\ i \notin failed /\ i \in contPrev.stores => contPrev.height \in prev[i]
  /\ pc = "truncate" => \A i \in contPrev.stores : contPrev.height \in prev[i]
  /\ \A i \in Stores : \A h \in prev[i] : h <= extPrev /\ (pc # "down" => h <= prevCtx)

\* The inductive invariant.
IInv ==
  /\ TypeOK /\ ContextInv /\ StoresInv /\ PreviousInv
  /\ CommittedBlocksAreWhole /\ OnlyCommitsReachStores
  /\ PreviousStaysBehind /\ NoBlockForgotten /\ ContractHasDatabase

-----------------------------------------------------------------------------
\* Which steps of Drive may change which variable: every other step leaves it
\* alone. A process that goes down does so by Die, with what that records.
LEMMA Frame ==
  ASSUME [Next]_vars
  PROVE /\ (ctx' = ctx /\ prevCtx' = prevCtx) \/ Start \/ BeginBlock
        /\ newContract' = newContract \/ Start \/ BeginBlock \/ ExecuteBlock
        /\ tx' = tx \/ Start \/ StartTransactions \/ ExecuteBlock
        /\ started' = started \/ Start \/ StartTransactions \/ StoresCommitted
        /\ (k' = k /\ failed' = failed) \/ Start \/ CreateDatabases \/ CommitStore
           \/ StoreFails \/ CreatePreviousDatabases \/ CommitPreviousStore
        /\ contPrev' = contPrev \/ Start \/ Info \/ RegisterAndTruncate
        /\ rootTree' = rootTree \/ rootTree' = Rebuild(cur)
        /\ cur' = cur \/ CommitStore
        /\ prev' = prev \/ CommitPreviousStore
        /\ dbs' \subseteq dbs \/ CreateDatabases
        /\ dbs \subseteq dbs' \/ CreateDatabasesFails \/ StoresFailed \/ StoreContextFails
        /\ prevDbs' = prevDbs \/ CreatePreviousDatabases
        /\ extCtx' = extCtx \/ StoreContext
        /\ extPrev' = extPrev \/ StorePreviousContext
        /\ file' = file \/ RegisterAndTruncate \/ WriteFile
        /\ (torn' = torn /\ lost' = lost) \/ Die
        /\ skipped' = skipped \/ Info
        /\ next' = next \/ Info \/ Respond
        /\ faults' = faults \/ (faults < MaxFaults /\ faults' = faults + 1)
        /\ torn \subseteq torn' /\ lost \subseteq lost' /\ skipped \subseteq skipped'
        /\ pc' = "down" /\ pc # "down" => Die
<1>1. CASE Start
  BY <1>1 DEF Start, mem, disk, hist, Die, Fault
<1>2. CASE Info
  BY <1>2 DEF Info, mem, disk, hist, Die, Fault
<1>3. CASE InfoFails
  BY <1>3 DEF InfoFails, mem, disk, hist, Die, Fault
<1>4. CASE BeginBlock
  BY <1>4 DEF BeginBlock, mem, disk, hist, Die, Fault
<1>5. CASE StartTransactions
  BY <1>5 DEF StartTransactions, mem, disk, hist, Die, Fault
<1>6. CASE ExecuteBlock
  BY <1>6 DEF ExecuteBlock, mem, disk, hist, Die, Fault
<1>7. CASE CreateDatabases
  BY <1>7 DEF CreateDatabases, mem, disk, hist, Die, Fault
<1>8. CASE CreateDatabasesFails
  BY <1>8 DEF CreateDatabasesFails, mem, disk, hist, Die, Fault
<1>9. CASE CommitStore
  BY <1>9 DEF CommitStore, mem, disk, hist, Die, Fault
<1>10. CASE StoreFails
  BY <1>10 DEF StoreFails, mem, disk, hist, Die, Fault
<1>11. CASE StoresCommitted
  BY <1>11 DEF StoresCommitted, mem, disk, hist, Die, Fault
<1>12. CASE StoresFailed
  BY <1>12 DEF StoresFailed, mem, disk, hist, Die, Fault
<1>13. CASE StoreContext
  BY <1>13 DEF StoreContext, mem, disk, hist, Die, Fault
<1>14. CASE StoreContextFails
  BY <1>14 DEF StoreContextFails, mem, disk, hist, Die, Fault
<1>15. CASE StorePreviousContext
  BY <1>15 DEF StorePreviousContext, mem, disk, hist, Die, Fault
<1>16. CASE CreatePreviousDatabases
  BY <1>16 DEF CreatePreviousDatabases, mem, disk, hist, Die, Fault
<1>17. CASE CreatePreviousDatabasesFails
  BY <1>17 DEF CreatePreviousDatabasesFails, mem, disk, hist, Die, Fault
<1>18. CASE CommitPreviousStore
  BY <1>18 DEF CommitPreviousStore, mem, disk, hist, Die, Fault
<1>19. CASE PreviousStoresFailed
  BY <1>19 DEF PreviousStoresFailed, mem, disk, hist, Die, Fault
<1>20. CASE PreviousStoresCommitted
  BY <1>20 DEF PreviousStoresCommitted, mem, disk, hist, Die, Fault
<1>21. CASE RegisterAndTruncate
  BY <1>21 DEF RegisterAndTruncate, mem, disk, hist, Die, Fault
<1>22. CASE WriteFile
  BY <1>22 DEF WriteFile, mem, disk, hist, Die, Fault
<1>23. CASE Respond
  BY <1>23 DEF Respond, mem, disk, hist, Die, Fault
<1>24. CASE Crash
  BY <1>24 DEF Crash, mem, disk, hist, Die, Fault
<1>25. CASE ConsensusRestart
  BY <1>25 DEF ConsensusRestart, mem, disk, hist, Die, Fault
<1>26. CASE UNCHANGED vars
  BY <1>26 DEF vars, mem, disk, hist, Die, Fault
<1> QED
  BY <1>1, <1>2, <1>3, <1>4, <1>5, <1>6, <1>7, <1>8, <1>9, <1>10, <1>11, <1>12, <1>13,
     <1>14, <1>15, <1>16, <1>17, <1>18, <1>19, <1>20, <1>21, <1>22, <1>23, <1>24,
        <1>25, <1>26 DEF Next, Commit

\* Every handler leaves Drive in one of the phases.
LEMMA PhaseStep ==
  ASSUME TypeOK, [Next]_vars
  PROVE  pc' \in Phases
<1> USE DEF Phases, Commits
<1>1. CASE Start
  BY <1>1 DEF Start, Die
<1>2. CASE Info
  BY <1>2 DEF Info, Die
<1>3. CASE InfoFails
  BY <1>3 DEF InfoFails, Die
<1>4. CASE BeginBlock
  BY <1>4 DEF BeginBlock, Die
<1>5. CASE StartTransactions
  BY <1>5 DEF StartTransactions, Die
<1>6. CASE ExecuteBlock
  BY <1>6 DEF ExecuteBlock, Die
<1>7. CASE CreateDatabases
  BY <1>7 DEF CreateDatabases, Die
<1>8. CASE CreateDatabasesFails
  BY <1>8 DEF CreateDatabasesFails, Die
<1>9. CASE CommitStore
  BY <1>9 DEF CommitStore, Die
<1>10. CASE StoreFails
  BY <1>10 DEF StoreFails, Die
<1>11. CASE StoresCommitted
  BY <1>11 DEF StoresCommitted, Die
<1>12. CASE StoresFailed
  BY <1>12 DEF StoresFailed, Die
<1>13. CASE StoreContext
  BY <1>13 DEF StoreContext, Die
<1>14. CASE StoreContextFails
  BY <1>14 DEF StoreContextFails, Die
<1>15. CASE StorePreviousContext
  BY <1>15 DEF StorePreviousContext, Die
<1>16. CASE CreatePreviousDatabases
  BY <1>16 DEF CreatePreviousDatabases, Die
<1>17. CASE CreatePreviousDatabasesFails
  BY <1>17 DEF CreatePreviousDatabasesFails, Die
<1>18. CASE CommitPreviousStore
  BY <1>18 DEF CommitPreviousStore, Die
<1>19. CASE PreviousStoresFailed
  BY <1>19 DEF PreviousStoresFailed, Die
<1>20. CASE PreviousStoresCommitted
  BY <1>20 DEF PreviousStoresCommitted, Die
<1>21. CASE RegisterAndTruncate
  BY <1>21 DEF RegisterAndTruncate, Die
<1>22. CASE WriteFile
  BY <1>22 DEF WriteFile, Die
<1>23. CASE Respond
  BY <1>23 DEF Respond, Die
<1>24. CASE Crash
  BY <1>24 DEF Crash, Die
<1>25. CASE ConsensusRestart
  BY <1>25 DEF ConsensusRestart, Die
<1>26. CASE UNCHANGED vars
  BY <1>26 DEF TypeOK, vars
<1> QED
  BY <1>1, <1>2, <1>3, <1>4, <1>5, <1>6, <1>7, <1>8, <1>9, <1>10, <1>11, <1>12, <1>13,
     <1>14, <1>15, <1>16, <1>17, <1>18, <1>19, <1>20, <1>21, <1>22, <1>23, <1>24,
        <1>25, <1>26 DEF Next, Commit

\* Types are kept, given that an open block has a height (ContextInv) and that
\* only a block that creates a contract creates databases (StoresInv).
LEMMA TypeStep ==
  ASSUME TypeOK, ContextInv, StoresInv, [Next]_vars
  PROVE TypeOK'
<1> USE ConstantsAssumption
<1>1. pc' \in Phases
  BY PhaseStep
<1>2. next' \in 1 .. MaxHeight + 1
  BY Frame DEF TypeOK, Info, Respond
<1>3. ctx' \in 0 .. MaxHeight /\ prevCtx' \in 0 .. MaxHeight
  <2>1. CASE Start
    BY <2>1 DEF TypeOK, Start
  <2>2. CASE BeginBlock
    BY <2>2 DEF TypeOK, BeginBlock
  <2> QED
    BY <2>1, <2>2, Frame DEF TypeOK
<1>4. newContract' \in BOOLEAN
  <2>1. newContract' = newContract => newContract' \in BOOLEAN
    BY DEF TypeOK
  <2>2. Start \/ BeginBlock \/ ExecuteBlock => newContract' \in BOOLEAN
    BY DEF Start, BeginBlock, ExecuteBlock
  <2> QED
    BY <2>1, <2>2, Frame
<1>5. tx' \subseteq Stores
  BY Frame DEF TypeOK, Start, StartTransactions, ExecuteBlock
<1>6. started' \in BOOLEAN
  <2>1. started' = started => started' \in BOOLEAN
    BY DEF TypeOK
  <2>2. Start \/ StartTransactions \/ StoresCommitted => started' \in BOOLEAN
    BY DEF Start, StartTransactions, StoresCommitted
  <2> QED
    BY <2>1, <2>2, Frame
<1>7. k' \in 1 .. NumStores + 1 /\ failed' \subseteq Stores
  <2>1. CASE StoreFails
    <3>1. k \in Stores /\ (k = MongoStore => k + 1 \in Stores)
      BY <2>1 DEF StoreFails, TypeOK, Stores
    <3>2. \/ failed' = failed \cup {k} /\ k' = k + 1
          \/ failed' = failed \cup {k, k + 1} /\ k' = k + 2 /\ k = MongoStore
      BY <2>1 DEF StoreFails
    <3>3. failed' \subseteq Stores
      BY <3>1, <3>2 DEF TypeOK
    <3>4. k' \in 1 .. NumStores + 1
      BY <3>1, <3>2 DEF Stores
    <3> QED
      BY <3>3, <3>4
  <2>2. CASE CommitStore \/ CommitPreviousStore
    BY <2>2 DEF TypeOK, CommitStore, CommitPreviousStore, mem
  <2>3. CASE Start \/ CreateDatabases \/ CreatePreviousDatabases
    BY <2>3 DEF Start, CreateDatabases, CreatePreviousDatabases
  <2> QED
    BY <2>1, <2>2, <2>3, Frame DEF TypeOK
<1>8. contPrev' \in Changes \cup {NoChanges}
  <2>1. CASE RegisterAndTruncate
    BY <2>1 DEF RegisterAndTruncate, TypeOK, ContextInv, Stored, Changes, Heights
  <2> QED
    BY <2>1, Frame DEF TypeOK, Start, Info
<1>9. rootTree' \in [Leaves -> SUBSET Heights]
  BY Frame DEF TypeOK, Rebuild, Leaves
<1>10. cur' \in [Stores -> SUBSET Heights]
  <2>1. CASE CommitStore
    <3>1. k \in Stores /\ ctx \in Heights
      BY <2>1 DEF CommitStore, TypeOK, ContextInv, Open, Stores, Heights
    <3> QED
      BY <2>1, <3>1 DEF CommitStore, TypeOK
  <2> QED
    BY <2>1, Frame DEF TypeOK
<1>11. prev' \in [Stores -> SUBSET Heights]
  <2>1. CASE CommitPreviousStore
    <3>1. k \in Stores /\ (k \in contPrev.stores => contPrev.height \in Heights)
      BY <2>1 DEF CommitPreviousStore, TypeOK, Stores, Changes, NoChanges
    <3> QED
      BY <2>1, <3>1 DEF CommitPreviousStore, TypeOK
  <2> QED
    BY <2>1, Frame DEF TypeOK
<1>12. dbs' \subseteq ContractHeights
  BY Frame DEF TypeOK, StoresInv, CreateDatabases
<1>13. prevDbs' \subseteq ContractHeights
  BY Frame DEF TypeOK, CreatePreviousDatabases, PrevContract
<1>14. extCtx' \in 0 .. MaxHeight /\ extPrev' \in 0 .. MaxHeight
  BY Frame DEF TypeOK, StoreContext, StorePreviousContext
<1>15. file' \in Changes \cup {NoChanges, Torn}
  BY Frame DEF TypeOK, RegisterAndTruncate, WriteFile
<1>16. torn' \subseteq Heights /\ lost' \subseteq Heights
  <2>1. TornNow => ctx \in Heights
    BY DEF TornNow, TypeOK
  <2>2. extCtx > 0 => extCtx \in Heights
    BY DEF TypeOK, Heights
  <2>3. Die => torn' \subseteq Heights /\ lost' \subseteq Heights
    BY <2>1, <2>2 DEF TypeOK, Die
  <2> QED
    BY <2>3, Frame DEF TypeOK
<1>17. skipped' \subseteq Heights
  <2>1. ctx > extCtx => ctx \in Heights
    BY DEF TypeOK, Heights
  <2>2. Info => skipped' \subseteq Heights
    BY <2>1 DEF TypeOK, Info
  <2> QED
    BY <2>2, Frame DEF TypeOK
<1>18. faults' \in 0 .. MaxFaults
  BY Frame DEF TypeOK
<1> QED
  BY <1>1, <1>2, <1>3, <1>4, <1>5, <1>6, <1>7, <1>8, <1>9, <1>10, <1>11, <1>12, <1>13,
     <1>14, <1>15, <1>16, <1>17, <1>18 DEF TypeOK

\* The contexts in memory and in LevelDB keep their order through every step.
LEMMA ContextStep ==
  ASSUME TypeOK, ContextInv, [Next]_vars
  PROVE ContextInv'
<1> USE ConstantsAssumption DEF TypeOK, ContextInv, Open, Stored, Closing, Heights
<1>1. CASE Start
  BY <1>1 DEF Start, mem, disk, hist, Die
<1>2. CASE Info
  BY <1>2 DEF Info, mem, disk, hist, Die
<1>3. CASE InfoFails
  BY <1>3 DEF InfoFails, mem, disk, hist, Die
<1>4. CASE BeginBlock
  BY <1>4 DEF BeginBlock, mem, disk, hist, Die
<1>5. CASE StartTransactions
  BY <1>5 DEF StartTransactions, mem, disk, hist, Die
<1>6. CASE ExecuteBlock
  BY <1>6 DEF ExecuteBlock, mem, disk, hist, Die
<1>7. CASE CreateDatabases
  BY <1>7 DEF CreateDatabases, mem, disk, hist, Die
<1>8. CASE CreateDatabasesFails
  BY <1>8 DEF CreateDatabasesFails, mem, disk, hist, Die
<1>9. CASE CommitStore
  BY <1>9 DEF CommitStore, mem, disk, hist, Die
<1>10. CASE StoreFails
  BY <1>10 DEF StoreFails, mem, disk, hist, Die
<1>11. CASE StoresCommitted
  BY <1>11 DEF StoresCommitted, mem, disk, hist, Die
<1>12. CASE StoresFailed
  BY <1>12 DEF StoresFailed, mem, disk, hist, Die
<1>13. CASE StoreContext
  BY <1>13 DEF StoreContext, mem, disk, hist, Die
<1>14. CASE StoreContextFails
  BY <1>14 DEF StoreContextFails, mem, disk, hist, Die
<1>15. CASE StorePreviousContext
  BY <1>15 DEF StorePreviousContext, mem, disk, hist, Die
<1>16. CASE CreatePreviousDatabases
  BY <1>16 DEF CreatePreviousDatabases, mem, disk, hist, Die
<1>17. CASE CreatePreviousDatabasesFails
  BY <1>17 DEF CreatePreviousDatabasesFails, mem, disk, hist, Die
<1>18. CASE CommitPreviousStore
  BY <1>18 DEF CommitPreviousStore, mem, disk, hist, Die
<1>19. CASE PreviousStoresFailed
  BY <1>19 DEF PreviousStoresFailed, mem, disk, hist, Die
<1>20. CASE PreviousStoresCommitted
  BY <1>20 DEF PreviousStoresCommitted, mem, disk, hist, Die
<1>21. CASE RegisterAndTruncate
  BY <1>21 DEF RegisterAndTruncate, mem, disk, hist, Die
<1>22. CASE WriteFile
  BY <1>22 DEF WriteFile, mem, disk, hist, Die
<1>23. CASE Respond
  BY <1>23 DEF Respond, mem, disk, hist, Die
<1>24. CASE Crash
  BY <1>24 DEF Crash, mem, disk, hist, Die
<1>25. CASE ConsensusRestart
  BY <1>25 DEF ConsensusRestart, mem, disk, hist, Die
<1>26. CASE UNCHANGED vars
  BY <1>26 DEF vars, mem, disk, hist, Die
<1> QED
  BY <1>1, <1>2, <1>3, <1>4, <1>5, <1>6, <1>7, <1>8, <1>9, <1>10, <1>11, <1>12, <1>13,
     <1>14, <1>15, <1>16, <1>17, <1>18, <1>19, <1>20, <1>21, <1>22, <1>23, <1>24,
        <1>25, <1>26 DEF Next, Commit

\* Until commitHandler stores the context, what the current stores hold of the
\* block is told by how far their commits have come.
LEMMA StoresStep ==
  ASSUME TypeOK, ContextInv, StoresInv, OnlyCommitsReachStores, [Next]_vars
  PROVE StoresInv'
<1> USE ConstantsAssumption DEF StoresInv, Executed, Stored
<1>1. CASE Start
  BY <1>1 DEF Start, mem, disk, hist, Die
<1>2. CASE Info
  BY <1>2 DEF Info, mem, disk, hist, Die
<1>3. CASE InfoFails
  BY <1>3 DEF InfoFails, mem, disk, hist, Die
<1>4. CASE BeginBlock
  BY <1>4 DEF BeginBlock, mem, disk, hist, Die
<1>5. CASE StartTransactions
  BY <1>5 DEF StartTransactions, mem, disk, hist, Die
<1>6. CASE ExecuteBlock
  <2>1. ctx \notin torn => \A i \in Stores : ctx \notin cur[i]
    BY <1>6 DEF ExecuteBlock, OnlyCommitsReachStores, ContextInv, Open, TypeOK
  <2>2. ctx \notin torn => tx' = Stores
    BY <1>6, <2>1 DEF ExecuteBlock
  <2>3. newContract' => ctx \in ContractHeights /\ ctx \notin cur[ContractStore]
    BY <1>6 DEF ExecuteBlock
  <2>4. ctx \in ContractHeights /\ ctx \notin torn => newContract'
    <3> SUFFICES ASSUME ctx \in ContractHeights, ctx \notin torn PROVE newContract'
      OBVIOUS
    <3>1. ContractStore \in Stores
      BY DEF Stores
    <3> QED
      BY <1>6, <2>1, <2>2, <3>1 DEF ExecuteBlock
  <2> QED
    BY <1>6, <2>2, <2>3, <2>4 DEF ExecuteBlock, disk, hist
<1>7. CASE CreateDatabases
  <2>1. ctx \notin torn => \A i \in Stores : ctx \notin cur[i]
    BY <1>7 DEF CreateDatabases, OnlyCommitsReachStores, ContextInv, Open, TypeOK
  <2>2. \A i \in Stores : ~(i < 1)
    BY DEF Stores
  <2> QED
    BY <1>7, <2>1, <2>2 DEF CreateDatabases, disk, hist
<1>8. CASE CreateDatabasesFails
  BY <1>8 DEF CreateDatabasesFails, mem, disk, hist, Die
<1>9. CASE CommitStore
  <2>1. k \in Stores /\ k' = k + 1 /\ failed \subseteq Stores
    BY <1>9 DEF CommitStore, TypeOK, Stores
  <2>2. ASSUME ctx \notin torn, NEW i \in Stores
        PROVE  ctx \in cur'[i] <=> i < k + 1 /\ i \notin failed
    <3>1. CASE i = k
      BY <1>9, <2>1, <2>2, <3>1 DEF CommitStore, TypeOK, Stores
    <3>2. CASE i # k
      BY <1>9, <2>1, <2>2, <3>2 DEF CommitStore, TypeOK, Stores
    <3> QED
      BY <3>1, <3>2
  <2>3. \A i \in failed : i < k + 1
    BY <1>9, <2>1 DEF CommitStore, Stores
  <2> QED
    BY <1>9, <2>1, <2>2, <2>3 DEF CommitStore, hist
<1>10. CASE StoreFails
  <2>1. k \in Stores /\ failed \subseteq Stores
    BY <1>10 DEF StoreFails, TypeOK, Stores
  <2>2. ASSUME pc = "stores", ctx \notin torn, NEW i \in Stores
        PROVE  ctx \in cur[i] <=> i < k' /\ i \notin failed'
    BY <1>10, <2>1, <2>2 DEF StoreFails, Stores
  <2>3. pc = "stores" => \A i \in failed' : i < k'
    <3> SUFFICES ASSUME pc = "stores", NEW i \in failed' PROVE i < k'
      OBVIOUS
    <3>1. \/ failed' = failed \cup {k} /\ k' = k + 1
          \/ failed' = failed \cup {k, k + 1} /\ k' = k + 2
      BY <1>10 DEF StoreFails
    <3>2. i \in failed => i < k /\ i \in Stores
      BY <2>1
    <3> QED
      BY <2>1, <3>1, <3>2 DEF Stores
  <2> QED
    BY <1>10, <2>2, <2>3 DEF StoreFails, disk, hist, mem
<1>11. CASE StoresCommitted
  <2>1. ctx \notin torn => \A i \in Stores : ctx \in cur[i]
    BY <1>11 DEF StoresCommitted, Stores
  <2> QED
    BY <1>11, <2>1 DEF StoresCommitted, disk, hist
<1>12. CASE StoresFailed
  BY <1>12 DEF StoresFailed, mem, disk, hist, Die
<1>13. CASE StoreContext
  BY <1>13 DEF StoreContext, mem, disk, hist, Die
<1>14. CASE StoreContextFails
  BY <1>14 DEF StoreContextFails, mem, disk, hist, Die
<1>15. CASE StorePreviousContext
  BY <1>15 DEF StorePreviousContext, mem, disk, hist, Die
<1>16. CASE CreatePreviousDatabases
  BY <1>16 DEF CreatePreviousDatabases, mem, disk, hist, Die
<1>17. CASE CreatePreviousDatabasesFails
  BY <1>17 DEF CreatePreviousDatabasesFails, mem, disk, hist, Die
<1>18. CASE CommitPreviousStore
  BY <1>18 DEF CommitPreviousStore, mem, disk, hist, Die
<1>19. CASE PreviousStoresFailed
  BY <1>19 DEF PreviousStoresFailed, mem, disk, hist, Die
<1>20. CASE PreviousStoresCommitted
  BY <1>20 DEF PreviousStoresCommitted, mem, disk, hist, Die
<1>21. CASE RegisterAndTruncate
  BY <1>21 DEF RegisterAndTruncate, mem, disk, hist, Die
<1>22. CASE WriteFile
  BY <1>22 DEF WriteFile, mem, disk, hist, Die
<1>23. CASE Respond
  BY <1>23 DEF Respond, mem, disk, hist, Die
<1>24. CASE Crash
  BY <1>24 DEF Crash, mem, disk, hist, Die
<1>25. CASE ConsensusRestart
  BY <1>25 DEF ConsensusRestart, mem, disk, hist, Die
<1>26. CASE UNCHANGED vars
  BY <1>26 DEF vars, mem, disk, hist, Die
<1> QED
  BY <1>1, <1>2, <1>3, <1>4, <1>5, <1>6, <1>7, <1>8, <1>9, <1>10, <1>11, <1>12, <1>13,
     <1>14, <1>15, <1>16, <1>17, <1>18, <1>19, <1>20, <1>21, <1>22, <1>23, <1>24,
        <1>25, <1>26 DEF Next, Commit

\* The clone in the container, the file and the previous stores keep their
\* order through every step, commits of single stores included.
LEMMA PreviousStep ==
  ASSUME TypeOK, ContextInv, PreviousInv, StoresInv, PreviousStaysBehind, [Next]_vars
  PROVE PreviousInv'
<1>a. /\ ctx \in Int /\ prevCtx \in Int /\ extCtx \in Int /\ extPrev \in Int
      /\ ctx >= 0 /\ extCtx >= 0 /\ prevCtx >= 0 /\ extPrev >= 0
  BY ConstantsAssumption DEF TypeOK
<1>b. \/ contPrev = NoChanges /\ contPrev \notin Changes /\ contPrev.height = 0
         /\ contPrev.stores = {}
      \/ contPrev \in Changes /\ contPrev # NoChanges /\ contPrev.height \in Int
         /\ contPrev.height > 0 /\ contPrev.stores \subseteq Stores
  BY ConstantsAssumption DEF TypeOK, Changes, NoChanges, Heights
<1>c. \/ file \in {NoChanges, Torn} /\ file \notin Changes /\ file.height \in Int
         /\ file.height <= 0
      \/ file \in Changes /\ file # NoChanges /\ file # Torn /\ file.height \in Int
         /\ file.height > 0
  BY ConstantsAssumption DEF TypeOK, Changes, NoChanges, Heights, Torn
<1>d. \A i \in Stores : \A h \in prev[i] : h \in Int /\ h > 0
  BY ConstantsAssumption DEF TypeOK, Heights
<1>e. /\ NoChanges.height = 0 /\ NoChanges.stores = {} /\ NoChanges \notin Changes
      /\ Torn \notin Changes
  BY ConstantsAssumption DEF NoChanges, Torn, Changes, Heights
<1> USE DEF ContextInv, PreviousInv, Cloned, Stored, Open, Closing
<1>1. CASE Start
  BY <1>a, <1>b, <1>c, <1>d, <1>e, <1>1 DEF Start, disk, hist
<1>2. CASE Info
  BY <1>a, <1>b, <1>c, <1>d, <1>2 DEF Info, mem, disk, hist
<1>3. CASE InfoFails
  BY <1>a, <1>b, <1>c, <1>d, <1>3 DEF InfoFails, Die, mem, disk
<1>4. CASE BeginBlock
  <2>1. \A i \in Stores : \A h \in prev[i] : h <= ctx
    BY <1>a, <1>d, <1>4 DEF BeginBlock, PreviousStaysBehind
  <2> QED
    BY <1>a, <1>b, <1>c, <1>d, <1>4, <2>1 DEF BeginBlock, disk, hist
<1>5. CASE StartTransactions
  BY <1>a, <1>b, <1>c, <1>d, <1>5 DEF StartTransactions, mem, disk, hist
<1>6. CASE ExecuteBlock
  BY <1>a, <1>b, <1>c, <1>d, <1>6 DEF ExecuteBlock, mem, disk, hist
<1>7. CASE CreateDatabases
  BY <1>a, <1>b, <1>c, <1>d, <1>7 DEF CreateDatabases, mem, disk, hist
<1>8. CASE CreateDatabasesFails
  BY <1>a, <1>b, <1>c, <1>d, <1>8 DEF CreateDatabasesFails, Die, mem, disk
<1>9. CASE CommitStore
  BY <1>a, <1>b, <1>c, <1>d, <1>9 DEF CommitStore, mem, disk, hist
<1>10. CASE StoreFails
  <2>1. k \in Stores
    BY <1>10 DEF StoreFails, TypeOK, Stores
  <2>2. ASSUME NEW i \in Stores, i < k', i \notin failed'
        PROVE  i < k /\ i \notin failed
    <3>1. \/ failed' = failed \cup {k} /\ k' = k + 1
          \/ failed' = failed \cup {k, k + 1} /\ k' = k + 2
      BY <1>10 DEF StoreFails
    <3> QED
      BY <2>1, <2>2, <3>1, ConstantsAssumption DEF Stores
  <2> QED
    BY <1>a, <1>b, <1>c, <1>d, <1>10, <2>2 DEF StoreFails, disk, hist
<1>11. CASE StoresCommitted
  BY <1>a, <1>b, <1>c, <1>d, <1>11 DEF StoresCommitted, mem, disk, hist
<1>12. CASE StoresFailed
  BY <1>a, <1>b, <1>c, <1>d, <1>12 DEF StoresFailed, Die, mem, disk
<1>13. CASE StoreContext
  BY <1>a, <1>b, <1>c, <1>d, <1>13 DEF StoreContext, mem, disk, hist
<1>14. CASE StoreContextFails
  BY <1>a, <1>b, <1>c, <1>d, <1>14 DEF StoreContextFails, Die, mem, disk
<1>15. CASE StorePreviousContext
  BY <1>a, <1>b, <1>c, <1>d, <1>15 DEF StorePreviousContext, mem, disk, hist
<1>16. CASE CreatePreviousDatabases
  <2>1. \A i \in Stores : ~(i < 1)
    BY DEF Stores
  <2> QED
    BY <1>a, <1>b, <1>c, <1>d, <1>16, <2>1 DEF CreatePreviousDatabases, hist
<1>17. CASE CreatePreviousDatabasesFails
  BY <1>a, <1>b, <1>c, <1>d, <1>17 DEF CreatePreviousDatabasesFails, Die, mem, disk
<1>18. CASE CommitPreviousStore
  <2>1. k \in Stores /\ prev \in [Stores -> SUBSET Heights]
    BY <1>18 DEF CommitPreviousStore, TypeOK, Stores
  <2>2. ASSUME NEW i \in Stores
        PROVE  /\ i # k => prev'[i] = prev[i]
               /\ prev'[k] = IF k \in contPrev.stores
                             THEN prev[k] \cup {contPrev.height} ELSE prev[k]
    BY <1>18, <2>1 DEF CommitPreviousStore
  <2>3. ASSUME NEW i \in Stores, i < k + 1, i # k
        PROVE  i < k
    BY <2>1, <2>3, ConstantsAssumption DEF Stores
  <2>4. contPrev.height <= extPrev /\ contPrev.height <= prevCtx
    BY <1>18 DEF CommitPreviousStore
  <2>5. \A i \in Stores : i < k + 1 /\ i \notin failed /\ i \in contPrev.stores
          => contPrev.height \in prev'[i]
    BY <1>18, <2>1, <2>2, <2>3 DEF CommitPreviousStore
  <2>6. \A i \in Stores : \A h \in prev'[i] : h <= extPrev /\ h <= prevCtx
    BY <1>18, <2>1, <2>2, <2>4 DEF CommitPreviousStore
  <2> QED
    BY <1>a, <1>b, <1>c, <1>d, <1>18, <2>5, <2>6 DEF CommitPreviousStore, hist
<1>19. CASE PreviousStoresFailed
  BY <1>a, <1>b, <1>c, <1>d, <1>19 DEF PreviousStoresFailed, Die, mem, disk
<1>20. CASE PreviousStoresCommitted
  <2>1. \A i \in Stores : i < NumStores + 1
    BY ConstantsAssumption DEF Stores
  <2> QED
    BY <1>a, <1>b, <1>c, <1>d, <1>20, <2>1 DEF PreviousStoresCommitted, mem, disk, hist
<1>21. CASE RegisterAndTruncate
  <2>1. ctx \notin torn => tx = Stores
    BY <1>21 DEF RegisterAndTruncate, StoresInv, Executed
  <2>2. contPrev'.height = ctx /\ contPrev'.stores = tx /\ contPrev' # NoChanges
    BY <1>a, <1>21, <1>e DEF RegisterAndTruncate
  <2>3. Torn.height = -1 /\ Torn # NoChanges
    BY DEF Torn, NoChanges
  <2> QED
    BY <1>a, <1>b, <1>c, <1>d, <1>21, <2>1, <2>2, <2>3 DEF RegisterAndTruncate, hist
<1>22. CASE WriteFile
  BY <1>a, <1>b, <1>c, <1>d, <1>22 DEF WriteFile, mem, disk, hist
<1>23. CASE Respond
  BY <1>a, <1>b, <1>c, <1>d, <1>23 DEF Respond, mem, disk, hist
<1>24. CASE Crash
  BY <1>a, <1>b, <1>c, <1>d, <1>24 DEF Crash, Die, mem, disk
<1>25. CASE ConsensusRestart
  BY <1>a, <1>b, <1>c, <1>d, <1>25 DEF ConsensusRestart, mem, disk, hist
<1>26. CASE UNCHANGED vars
  BY <1>26 DEF vars, mem, disk, hist
<1> QED
  BY <1>1, <1>2, <1>3, <1>4, <1>5, <1>6, <1>7, <1>8, <1>9, <1>10, <1>11, <1>12, <1>13,
     <1>14, <1>15, <1>16, <1>17, <1>18, <1>19, <1>20, <1>21, <1>22, <1>23, <1>24,
        <1>25, <1>26 DEF Next, Commit

\* Only storing the context extends the range, after every store's commit.
LEMMA WholeStep ==
  ASSUME TypeOK, ContextInv, StoresInv, CommittedBlocksAreWhole, [Next]_vars
  PROVE  CommittedBlocksAreWhole'
<1> USE ConstantsAssumption
<1>1. Damaged \subseteq Damaged'
  BY Frame DEF Damaged
<1>2. \A i \in Stores : cur[i] \subseteq cur'[i]
  BY Frame DEF CommitStore, TypeOK
<1>3. CASE extCtx' = extCtx
  BY <1>1, <1>2, <1>3 DEF CommittedBlocksAreWhole
<1>4. CASE StoreContext
  <2>1. extCtx' = ctx /\ extCtx < ctx /\ ctx \in Heights /\ cur' = cur
    BY <1>4 DEF StoreContext, TypeOK, ContextInv, Open, Heights
  <2>2. ctx \notin torn => \A i \in Stores : ctx \in cur[i]
    BY <1>4 DEF StoreContext, StoresInv
  <2>3. \A h \in Heights : extCtx < h /\ h < ctx => h \in skipped
    BY <1>4 DEF StoreContext, ContextInv
  <2> SUFFICES ASSUME NEW h \in 1 .. ctx, h \notin Damaged, NEW i \in Stores
               PROVE  h \in cur[i]
    BY <1>1, <2>1 DEF CommittedBlocksAreWhole
  <2>4. CASE h <= extCtx
    BY <2>4 DEF CommittedBlocksAreWhole, TypeOK
  <2>5. CASE h = ctx
    BY <2>2, <2>5 DEF Damaged
  <2>6. CASE extCtx < h /\ h < ctx
    BY <2>1, <2>3, <2>6 DEF Damaged, TypeOK, Heights
  <2> QED
    BY <2>1, <2>4, <2>5, <2>6 DEF TypeOK, Heights
<1> QED
  BY <1>3, <1>4, Frame

\* A block leaves the phases of its commit by its context being stored or by a
\* death, which records it as torn.
LEMMA OnlyCommitsStep ==
  ASSUME TypeOK, ContextInv, OnlyCommitsReachStores, [Next]_vars
  PROVE  OnlyCommitsReachStores'
<1> USE ConstantsAssumption
<1> SUFFICES ASSUME NEW i \in Stores, NEW h \in cur'[i], ~(h <= extCtx'), h \notin torn'
             PROVE  pc' \in {"stores", "context"} /\ h = ctx'
  BY DEF OnlyCommitsReachStores
<1>1. extCtx <= extCtx' /\ extCtx \in Int /\ extCtx' \in Int
  BY Frame DEF StoreContext, ContextInv, Open, TypeOK
<1>2. h \notin torn
  BY Frame
<1>3. h \in cur[i] => h \in Int
  BY DEF TypeOK, Heights
<1>4. CASE CommitStore
  BY <1>1, <1>2, <1>3, <1>4 DEF CommitStore, TypeOK, OnlyCommitsReachStores
<1>5. CASE cur' = cur
  <2>1. h \in cur[i] /\ pc \in {"stores", "context"} /\ h = ctx
    BY <1>1, <1>2, <1>3, <1>5 DEF OnlyCommitsReachStores
  <2>2. TornNow
    BY <2>1 DEF TornNow
  <2>3. ~Die
    BY <1>2, <2>1, <2>2 DEF Die
  <2>4. ctx' = ctx
    BY <2>1, Frame DEF Start, BeginBlock
  <2>5. ~StoreContext
    BY <2>1, TypeOK DEF StoreContext, TypeOK
  <2> QED
    BY <2>1, <2>3, <2>4, <2>5
       DEF Next, Commit, vars, Start, Info, InfoFails, BeginBlock, StartTransactions,
          ExecuteBlock, CreateDatabases, CreateDatabasesFails, CommitStore, StoreFails,
          StoresCommitted, StoresFailed, StoreContext, StoreContextFails,
          StorePreviousContext, CreatePreviousDatabases, CreatePreviousDatabasesFails,
          CommitPreviousStore, PreviousStoresFailed, PreviousStoresCommitted,
          RegisterAndTruncate, WriteFile, Respond, Crash, ConsensusRestart
<1> QED
  BY <1>4, <1>5, Frame

\* The previous stores receive the clone's block, which is before the context's.
LEMMA BehindStep ==
  ASSUME TypeOK, ContextInv, PreviousInv, PreviousStaysBehind, [Next]_vars
  PROVE  PreviousStaysBehind'
<1> USE ConstantsAssumption
<1>1. extCtx <= extCtx' /\ extCtx \in Int /\ extCtx' \in Int
  BY Frame DEF StoreContext, ContextInv, Open, TypeOK
<1>2. \A i \in Stores : \A h \in prev[i] : h \in Int
  BY DEF TypeOK, Heights
<1>3. CASE prev' = prev
  BY <1>1, <1>2, <1>3 DEF PreviousStaysBehind
<1>4. CASE CommitPreviousStore
  <2>1. contPrev.height < extCtx /\ extCtx' = extCtx
    BY <1>4 DEF CommitPreviousStore, PreviousInv, ContextInv, Stored
  <2> QED
    BY <1>4, <2>1 DEF CommitPreviousStore, PreviousStaysBehind, TypeOK
<1> QED
  BY <1>3, <1>4, Frame

\* The three failures that drop a database do so before the contract reaches
\* its store or are recorded as torn or lost.
LEMMA DatabaseStep ==
  ASSUME TypeOK, ContextInv, StoresInv, PreviousInv, ContractHasDatabase, [Next]_vars
  PROVE  ContractHasDatabase'
<1> USE ConstantsAssumption
<1> SUFFICES ASSUME NEW h \in ContractHeights, h \notin torn', h \notin lost',
                    h \in cur'[ContractStore]
             PROVE  h \in dbs'
  BY DEF ContractHasDatabase
<1>1. h \notin torn /\ h \notin lost
  BY Frame
<1>2. CASE CommitStore
  <2>1. ContractStore \in Stores /\ dbs' = dbs
    BY <1>2 DEF CommitStore, Stores
  <2>2. h \in cur[ContractStore] \/ h = ctx
    BY <1>2, <2>1 DEF CommitStore, TypeOK
  <2>3. h = ctx => newContract
    BY <1>1, <1>2 DEF CommitStore, StoresInv
  <2> QED
    BY <1>1, <1>2, <2>1, <2>2, <2>3 DEF ContractHasDatabase, CommitStore, StoresInv
<1>3. CASE cur' = cur
  <2>1. h \in dbs
    BY <1>1, <1>3 DEF ContractHasDatabase
  <2>2. CASE CreateDatabasesFails
    BY <1>3, <2>1, <2>2 DEF CreateDatabasesFails, StoresInv
  <2>3. CASE StoresFailed
    <3>1. failed = Stores => ContractStore \in failed
      BY DEF Stores
    <3> QED
      BY <1>1, <1>3, <2>1, <2>3, <3>1 DEF StoresFailed, StoresInv, Stores
  <2>4. CASE StoreContextFails
    <3> SUFFICES ASSUME h = ctx PROVE FALSE
      BY <2>1, <2>4 DEF StoreContextFails
    <3>1. CASE pc = "context"
      BY <1>3, <2>4, <3>1 DEF StoreContextFails, Die, TornNow, Stores
    <3>2. CASE pc = "prevContext"
      <4>1. extCtx = ctx /\ ctx > 0 /\ ctx \in Int
        BY <3>2 DEF ContextInv, Stored, TypeOK
      <4>2. file.height < ctx
        BY <3>2, <4>1 DEF PreviousInv, Stored, TypeOK, NoChanges, Torn, Changes, Heights
      <4>3. ctx \in lost'
        BY <2>4, <4>1, <4>2 DEF StoreContextFails, Die, TypeOK, Changes, Heights
      <4> QED
        BY <4>3
    <3> QED
      BY <2>4, <3>1, <3>2 DEF StoreContextFails
  <2>5. CASE dbs \subseteq dbs'
    BY <2>1, <2>5
  <2> QED
    BY <2>2, <2>3, <2>4, <2>5, Frame
<1> QED
  BY <1>2, <1>3, Frame

\* The changes of a block pass from the clone to the file and the container and
\* on to the previous stores; a death in between leaves them in the file or
\* records the block as lost.
LEMMA ForgottenStep ==
  ASSUME TypeOK, ContextInv, StoresInv, PreviousInv, NoBlockForgotten, [Next]_vars
  PROVE  NoBlockForgotten'
<1> USE ConstantsAssumption
<1>1. /\ ctx \in Int /\ extCtx \in Int /\ extCtx' \in Int /\ file.height \in Int
      /\ NoChanges.height = 0 /\ NoChanges \notin Changes /\ Torn \notin Changes
      /\ Torn.height = -1
      /\ contPrev # NoChanges => contPrev \in Changes
  BY TypeStep DEF TypeOK, NoChanges, Torn, Changes, Heights
<1>2. pc \in Stored \/ pc = "write" => extCtx = ctx /\ ctx > 0 /\ file.height # extCtx
  BY <1>1 DEF ContextInv, PreviousInv, Stored, Closing, TypeOK, Changes, Heights
<1> SUFFICES ASSUME NEW h \in 1 .. extCtx', h \notin Damaged', h \notin lost',
                    ~ \A i \in Stores : h \in prev'[i]
             PROVE  Carried(h)'
  BY DEF NoBlockForgotten
<1>3. h \notin Damaged /\ h \notin lost /\ h \in Int /\ h > 0
  BY <1>1, Frame DEF Damaged
<1>4. ~ \A i \in Stores : h \in prev[i]
  BY Frame DEF CommitPreviousStore, TypeOK
<1>5. h <= extCtx => Carried(h)
  BY <1>1, <1>3, <1>4 DEF NoBlockForgotten
<1>6. CASE StoreContext
  BY <1>1, <1>3, <1>5, <1>6 DEF StoreContext, Carried, ContextInv, Open, Damaged,
     Heights, mem, TypeOK
<1>7. CASE Die /\ extCtx' = extCtx /\ file' = file
  <2>1. CASE (pc \in Stored /\ ctx = h) \/ pc = "write"
    <3>1. extCtx \in lost'
      BY <1>1, <1>2, <1>7, <2>1 DEF Die
    <3>2. h # extCtx
      BY <3>1
    <3>3. pc = "write" /\ h < extCtx /\ contPrev.height = extCtx /\ file = Torn
      BY <1>1, <1>2, <1>3, <1>7, <2>1, <3>2 DEF PreviousInv, Closing
    <3> QED
      BY <1>1, <1>5, <3>3 DEF Carried
  <2>2. CASE ~((pc \in Stored /\ ctx = h) \/ pc = "write")
    BY <1>1, <1>3, <1>5, <1>7, <2>2 DEF Carried, PreviousInv, Stored
  <2> QED
    BY <2>1, <2>2
<1>8. CASE RegisterAndTruncate
  <2>1. h = ctx => Carried(h)'
    BY <1>8 DEF RegisterAndTruncate, Carried
  <2>2. h # ctx => contPrev.height = h
    BY <1>1, <1>3, <1>5, <1>8 DEF RegisterAndTruncate, Carried, PreviousInv, Stored
  <2>3. contPrev.height = h => \A i \in Stores : h \in prev[i]
    BY <1>1, <1>3, <1>8 DEF RegisterAndTruncate, PreviousInv, Cloned, Damaged
  <2> QED
    BY <1>4, <2>1, <2>2, <2>3
<1>9. CASE WriteFile
  BY <1>1, <1>3, <1>5, <1>9 DEF WriteFile, Carried, mem, PreviousInv, Closing, Stored
<1>10. CASE Start
  BY <1>1, <1>3, <1>5, <1>10 DEF Start, Carried, disk
<1>11. CASE Info
  BY <1>1, <1>3, <1>5, <1>11 DEF Info, Carried, disk, Stored
<1>12. CASE BeginBlock
  BY <1>1, <1>3, <1>5, <1>12 DEF BeginBlock, Carried, disk, Stored
<1>13. ~Die /\ pc # "down" => pc' # "down"
  BY Frame
<1>14. CASE /\ extCtx' = extCtx /\ file' = file /\ contPrev' = contPrev /\ ctx' = ctx
            /\ (pc # "down" => pc' # "down") /\ (pc \in Stored => pc' \in Stored)
  BY <1>1, <1>3, <1>5, <1>14 DEF Carried, Stored
<1>15. ~StoreContext /\ ~RegisterAndTruncate /\ ~WriteFile /\ ~Start /\ ~Info /\ ~BeginBlock /\ ~Die
       => (pc \in Stored => pc' \in Stored)
  BY DEF Stored, Next, Commit, vars, InfoFails, StartTransactions, ExecuteBlock,
     CreateDatabases, CreateDatabasesFails, CommitStore, StoreFails, StoresCommitted,
     StoresFailed, StoreContextFails, StorePreviousContext, CreatePreviousDatabases,
     CreatePreviousDatabasesFails, CommitPreviousStore, PreviousStoresFailed,
     PreviousStoresCommitted, Respond, Crash, ConsensusRestart, mem
<1>16. Die => (extCtx' = extCtx /\ file' = file) \/ pc = "down"
  BY Frame DEF Die, StoreContext, RegisterAndTruncate, WriteFile
<1> QED
  BY <1>6, <1>7, <1>8, <1>9, <1>10, <1>11, <1>12, <1>13, <1>14, <1>15, <1>16, Frame

\* A new node satisfies the inductive invariant.
LEMMA InitInv == Init => IInv
<1> SUFFICES ASSUME Init PROVE IInv
  OBVIOUS
<1> USE ConstantsAssumption DEF Init
<1>1. TypeOK
  <2>1. NoChanges \in Changes \cup {NoChanges} /\ "down" \in Phases
    BY DEF Phases
  <2>2. newContract \in BOOLEAN /\ started \in BOOLEAN
    OBVIOUS
  <2>3. rootTree \in [Leaves -> SUBSET Heights]
    OBVIOUS
  <2>4. cur \in [Stores -> SUBSET Heights] /\ prev \in [Stores -> SUBSET Heights]
    OBVIOUS
  <2> QED
    BY <2>1, <2>2, <2>3, <2>4 DEF TypeOK
<1>2. ContextInv
  BY DEF ContextInv, Open, Stored, Closing
<1>3. StoresInv
  BY DEF StoresInv, Executed, Stored
<1>4. PreviousInv
  <2>1. NoChanges.height = 0 /\ NoChanges.stores = {}
    BY DEF NoChanges
  <2> QED
    BY <2>1 DEF PreviousInv, Cloned, Open, Stored, Closing
<1>5. CommittedBlocksAreWhole /\ NoBlockForgotten
  BY DEF CommittedBlocksAreWhole, NoBlockForgotten
<1>6. OnlyCommitsReachStores /\ PreviousStaysBehind /\ ContractHasDatabase
  <2>1. ContractStore \in Stores
    BY DEF Stores
  <2> QED
    BY <2>1 DEF OnlyCommitsReachStores, PreviousStaysBehind, ContractHasDatabase
<1> QED
  BY <1>1, <1>2, <1>3, <1>4, <1>5, <1>6 DEF IInv

\* Every step of Drive preserves the inductive invariant.
LEMMA NextInv == IInv /\ [Next]_vars => IInv'
  BY TypeStep, ContextStep, StoresStep, PreviousStep, WholeStep, OnlyCommitsStep,
     BehindStep,
     ForgottenStep, DatabaseStep DEF IInv

\* The inductive invariant holds throughout.
LEMMA InductiveInv == Spec => []IInv
  BY InitInv, NextInv, PTL DEF Spec

\* Every variable keeps its type, for any number of stores, blocks and faults.
THEOREM TypeCorrect == Spec => []TypeOK
<1>1. IInv => TypeOK
  BY DEF IInv
<1> QED
  BY InductiveInv, <1>1, PTL

\* commitHandler makes blocks all or nothing: up to the persisted context each
\* block is in every store, beyond it only the block being committed is in any,
\* but for blocks whose commit was cut or that were skipped.
THEOREM Atomicity == Spec => [](CommittedBlocksAreWhole /\ OnlyCommitsReachStores)
<1>1. IInv => CommittedBlocksAreWhole /\ OnlyCommitsReachStores
  BY DEF IInv
<1> QED
  BY InductiveInv, <1>1, PTL

\* The previous stores never hold the last committed block, whatever fails.
THEOREM StaysBehind == Spec => []PreviousStaysBehind
<1>1. IInv => PreviousStaysBehind
  BY DEF IInv
<1> QED
  BY InductiveInv, <1>1, PTL

\* No committed block is dropped between the clone, the file and the previous
\* stores, outside the window before the file is written.
THEOREM NothingForgotten == Spec => []NoBlockForgotten
<1>1. IInv => NoBlockForgotten
  BY DEF IInv
<1> QED
  BY InductiveInv, <1>1, PTL

\* A contract in its store has its database, unless its block was cut.
THEOREM DatabasesExist == Spec => []ContractHasDatabase
<1>1. IInv => ContractHasDatabase
  BY DEF IInv
<1> QED
  BY InductiveInv, <1>1, PTL

\* The state queries read never runs ahead of the height they report.
THEOREM QueriesHonest == Spec => []QueryNeverAhead
<1>1. IInv => QueryNeverAhead
  BY DEF IInv, PreviousInv, QueryNeverAhead, QueryAnswered
<1> QED
  BY InductiveInv, <1>1, PTL

\* The app hash reported by Info and Commit is that of the reported height.
THEOREM HashOfReportedHeight == Spec => []ReportedHash
<1>1. IInv => ReportedHash
  <2> SUFFICES ASSUME IInv, pc \in {"handshake", "idle", "respond"},
                      torn = {}, skipped = {}, ctx = extCtx, NEW i \in Leaves
               PROVE  rootTree[i] = 1 .. ctx
    BY DEF ReportedHash
  <2>1. i \in Stores /\ rootTree[i] = cur[i]
    BY DEF IInv, StoresInv, Rebuild, Leaves
  <2>2. \A h \in 1 .. ctx : h \in cur[i]
    BY <2>1 DEF IInv, CommittedBlocksAreWhole, Damaged
  <2>3. \A h \in cur[i] : h \in 1 .. ctx
    BY <2>1, ConstantsAssumption DEF IInv, OnlyCommitsReachStores, TypeOK, Heights
  <2> QED
    BY <2>1, <2>2, <2>3
<1> QED
  BY InductiveInv, <1>1, PTL

\* The persisted context moves on by one block at a time.
THEOREM ContextAdvances == Spec => ContextMovesByOne
<1>1. IInv /\ [Next]_vars => [extCtx' = extCtx \/ extCtx' = extCtx + 1 \/ skipped # {}]_vars
  <2> SUFFICES ASSUME IInv, [Next]_vars, extCtx' # extCtx, skipped = {}
               PROVE  extCtx' = extCtx + 1
    OBVIOUS
  <2>1. extCtx' = ctx /\ extCtx < ctx /\ extCtx \in Nat /\ ctx \in Heights /\ pc = "context"
    BY Frame, ConstantsAssumption DEF StoreContext, IInv, ContextInv, Open, TypeOK,
       Heights
  <2>2. \A h \in Heights : ~(extCtx < h /\ h < ctx)
    BY <2>1 DEF IInv, ContextInv
  <2>3. extCtx + 1 \in Heights
    BY <2>1, ConstantsAssumption DEF Heights
  <2> QED
    BY <2>1, <2>2, <2>3 DEF Heights
<1> QED
  BY InductiveInv, <1>1, PTL DEF Spec, ContextMovesByOne

-----------------------------------------------------------------------------
(* The lagging ledger *)

\* The block in memory follows the persisted one, or blocks reported without a
\* commit.
LEMMA BlockInProgress ==
  ASSUME IInv, pc # "down", extCtx < ctx
  PROVE  Ledger!InProgress(ctx) /\ ctx \in 1 .. MaxHeight
<1>1. extCtx \in Nat /\ ctx \in Heights
  BY ConstantsAssumption DEF IInv, TypeOK, Heights
<1>2. ASSUME NEW g \in extCtx + 1 .. ctx - 1
      PROVE  g \in skipped
  <2>1. g \in Heights /\ extCtx < g /\ g < ctx
    BY <1>1, ConstantsAssumption DEF Heights
  <2> QED
    BY <2>1 DEF IInv, ContextInv
<1> QED
  BY <1>1, <1>2 DEF Ledger!InProgress, Heights

\* Info skips the block in memory when it was not committed.
LEMMA InfoSkips ==
  ASSUME IInv, Info
  PROVE  \/ UNCHANGED Ledger!vars
         \/ \E h \in 1 .. MaxHeight : Ledger!Skip(h)
<1>1. extCtx' = extCtx /\ torn' = torn /\ lost' = lost
  BY DEF Info, disk
<1>2. Published' = Published
  BY DEF Info, disk, Published
<1>3. CASE ctx > extCtx
  <2>1. Ledger!InProgress(ctx) /\ ctx \in 1 .. MaxHeight
    BY <1>3, BlockInProgress, ConstantsAssumption DEF Info, IInv, TypeOK
  <2>2. skipped' = skipped \cup {ctx}
    BY <1>3 DEF Info
  <2> QED
    BY <1>1, <1>2, <2>1, <2>2 DEF Ledger!Skip
<1>4. CASE ~(ctx > extCtx)
  BY <1>1, <1>2, <1>4 DEF Info, Ledger!vars
<1> QED
  BY <1>3, <1>4

\* What a death gives up is the block just committed or the one in progress.
LEMMA DeathForgets ==
  ASSUME IInv, Die
  PROVE  \E h \in 0 .. MaxHeight :
           /\ h = extCtx \/ Ledger!InProgress(h)
           /\ \E blocks \in SUBSET ({extCtx, h} \cap (1 .. MaxHeight)) :
                torn' \cup lost' = torn \cup lost \cup blocks
<1> DEFINE h    == IF TornNow THEN ctx ELSE extCtx
           cut  == IF TornNow THEN {ctx} ELSE {}
           gone == IF extCtx > 0 /\ file.height # extCtx THEN {extCtx} ELSE {}
<1>1. TornNow => Ledger!InProgress(ctx) /\ ctx \in 1 .. MaxHeight
  BY BlockInProgress DEF TornNow, IInv, ContextInv, Open
<1>2. extCtx \in 0 .. MaxHeight /\ MaxHeight \in Nat
  BY ConstantsAssumption DEF IInv, TypeOK
<1>3. h \in 0 .. MaxHeight /\ (h = extCtx \/ Ledger!InProgress(h))
  BY <1>1, <1>2
<1>4. cut \cup gone \subseteq {extCtx, h} \cap (1 .. MaxHeight)
  BY <1>1, <1>2
<1>5. torn' \cup lost' = torn \cup lost \cup (cut \cup gone)
  BY DEF Die
<1> HIDE DEF h, cut, gone
<1> QED
  BY <1>3, <1>4, <1>5

\* The previous stores complete one block at a time, after all those before it.
LEMMA CommitPublishes ==
  ASSUME IInv, CommitPreviousStore, Published' # Published
  PROVE  \E h \in 1 .. MaxHeight :
           /\ h < extCtx
           /\ \A g \in 1 .. h - 1 : g \in Published \cup skipped \cup (torn \cup lost)
           /\ Published' = Published \cup {h}
<1> USE ConstantsAssumption
<1> DEFINE h == contPrev.height
<1>1. k \in Stores /\ prev \in [Stores -> SUBSET Heights] /\ contPrev \in Changes \cup {NoChanges}
  BY DEF CommitPreviousStore, IInv, TypeOK, Stores
<1>2. k \in contPrev.stores
  BY <1>1 DEF CommitPreviousStore, Published
<1>3. h \in Heights /\ contPrev # NoChanges
  BY <1>1, <1>2 DEF NoChanges, Changes
<1>4. h < ctx /\ ctx = extCtx /\ file = contPrev
  BY <1>3 DEF CommitPreviousStore, IInv, PreviousInv, ContextInv, Stored
<1>5. Published' = Published \cup {h}
  BY <1>1, <1>2, <1>3 DEF CommitPreviousStore, Published
<1>6. ASSUME NEW g \in 1 .. h - 1, g \notin skipped \cup (torn \cup lost)
      PROVE  g \in Published
  <2>1. g \in Int /\ h \in Int /\ ctx \in Int /\ extCtx \in Int /\ g < h
    BY <1>3 DEF Heights, IInv, TypeOK
  <2>2. ~Carried(g)
    BY <1>4, <2>1 DEF Carried
  <2>3. g \in (1 .. extCtx) \ (Damaged \cup lost)
    BY <1>4, <1>6, <2>1 DEF Damaged
  <2>4. \A i \in Stores : g \in prev[i]
    BY <2>2, <2>3 DEF IInv, NoBlockForgotten
  <2> QED
    BY <1>3, <2>1, <2>4 DEF Published, Heights
<1> QED
  BY <1>3, <1>4, <1>5, <1>6 DEF Heights

\* Every step of Drive is a step of the ledger or leaves it alone.
LEMMA LedgerStep == IInv /\ [Next]_vars => [Ledger!Next]_Ledger!vars
<1> SUFFICES ASSUME IInv, [Next]_vars
             PROVE  Ledger!Next \/ UNCHANGED Ledger!vars
  OBVIOUS
<1> USE ConstantsAssumption
<1>1. CASE StoreContext
  <2>1. Ledger!InProgress(ctx) /\ ctx \in 1 .. MaxHeight
    BY <1>1, BlockInProgress DEF StoreContext, IInv, ContextInv, Open
  <2>2. extCtx' = ctx /\ torn' = torn /\ lost' = lost /\ skipped' = skipped
    BY <1>1 DEF StoreContext, hist
  <2>3. Published' = Published
    BY <1>1 DEF StoreContext, Published
  <2> QED
    BY <2>1, <2>2, <2>3 DEF Ledger!Next, Ledger!Commit
<1>2. CASE CommitPreviousStore
  <2>1. extCtx' = extCtx /\ torn' = torn /\ lost' = lost /\ skipped' = skipped
    BY <1>2 DEF CommitPreviousStore, hist
  <2>2. CASE Published' = Published
    BY <2>1, <2>2 DEF Ledger!vars
  <2>3. CASE Published' # Published
    BY <1>2, <2>1, <2>3, CommitPublishes DEF Ledger!Next, Ledger!Publish
  <2> QED
    BY <2>2, <2>3
<1>3. CASE Info
  BY <1>3, InfoSkips DEF Ledger!Next
<1>4. CASE extCtx' = extCtx /\ prev' = prev /\ skipped' = skipped
  <2>1. Published' = Published
    BY <1>4 DEF Published
  <2>2. CASE torn' = torn /\ lost' = lost
    BY <1>4, <2>1, <2>2 DEF Ledger!vars
  <2>3. CASE Die
    BY <1>4, <2>1, <2>3, DeathForgets DEF Ledger!Next, Ledger!Forget
  <2> QED
    BY <2>2, <2>3, Frame
<1> QED
  BY <1>1, <1>2, <1>3, <1>4, Frame

\* Drive's commit, spread over stores, LevelDB and a file, is a ledger that
\* commits one block at a time and publishes blocks in order; crashes and
\* failed writes make it forget only the newest ones, and a restart of
\* Tenderdash makes it skip only the one in progress.
THEOREM Refinement == Spec => ImplementsLedger
<1>1. Init => Ledger!Init
  BY ConstantsAssumption DEF Init, Ledger!Init, Published, Stores
<1> QED
  BY <1>1, LedgerStep, InductiveInv, PTL DEF Spec, ImplementsLedger, Ledger!Spec

=============================================================================
