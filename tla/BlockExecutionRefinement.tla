----------------------- MODULE BlockExecutionRefinement -----------------------
(***************************************************************************)
(* Block execution implements the lagging ledger: the persisted context is *)
(* its height, the blocks found in every previous store are published, the *)
(* blocks Info reported from memory alone are skipped, and those whose     *)
(* commit was cut or whose changes missed the file are forgotten.          *)
(***************************************************************************)
EXTENDS BlockExecution

Published == {h \in Heights : \A i \in Stores : h \in prev[i]}

Ledger == INSTANCE LaggingLedger WITH
            height <- extCtx, published <- Published, forgotten <- torn \cup lost

\* Drive's commit, spread over stores, LevelDB and a file, behaves as a ledger
\* that commits one block at a time and publishes them in order, whatever
\* crashes, failed writes and restarts of Tenderdash it meets.
ImplementsLedger == Ledger!Spec

=============================================================================
