----------------------- MODULE DocumentsStoreRefinement -----------------------
(***************************************************************************)
(* The documents' store, its overlay, the index and the session implement  *)
(* a single table: a document is there when the index finds it and the     *)
(* store has it, as fetchDocuments reads it.                               *)
(***************************************************************************)
EXTENDS DocumentsStore

\* What a query of an index finds in a store.
Fetched(index, store) == [d \in Ids |-> IF index[d] # None THEN store[d] ELSE None]

Opened == [docs |-> Fetched(session, [d \in Ids |-> Read(d)]), ghosts |-> orphans]
Committed == [docs |-> Fetched(mongo, merk), ghosts |-> lastOrphans]
Before == [docs |-> prevDocs, ghosts |-> prevOrphans]
Shown == Fetched(prevMongo, prevMerk)

Table == INSTANCE DocumentTable WITH
           open <- Opened, committed <- Committed, behind <- Before, shown <- Shown

\* Every transition is judged by exactly the documents its predecessors left,
\* an abort leaves none of a block's, and queries move from one version to
\* the next, however the replay orders its operations.
ImplementsTable == Table!Spec

=============================================================================
