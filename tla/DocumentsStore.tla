---------------------------- MODULE DocumentsStore ----------------------------
(***************************************************************************)
(* How Drive keeps documents (packages/js-drive/lib/document, lib/merkDb): *)
(* a Merk store holds them, a MongoDB database indexes them, and a block's *)
(* transaction spans both: an overlay of updates and deletes over Merk and *)
(* a MongoDB session.  A commit makes both permanent, and replays what the *)
(* overlay held for the block before into the previous store and database, *)
(* which answer queries.                                                   *)
(*                                                                         *)
(* A document is its id and the value of its unique index.  A commit that  *)
(* is cut in the middle is BlockExecution's subject, not this module's.    *)
(***************************************************************************)
EXTENDS Integers

CONSTANTS
  Ids,       \* document ids, in their order as keys
  Values,    \* values of the unique index
  None,      \* no document
  MaxHeight  \* bound: blocks of a behaviour

ASSUME DocumentsAssumption ==
  /\ Ids \subseteq Int /\ None \notin Values /\ MaxHeight \in Nat

Documents == [Ids -> Values \cup {None}]
NoDocuments == [d \in Ids |-> None]
Overlay == [updates : Documents, deletes : Documents]
NothingChanged == [updates |-> NoDocuments, deletes |-> NoDocuments]

VARIABLES
  phase,     \* "block", "replay" of the block before, or "failed"
  height,    \* blocks committed
  merk,      \* the documents' store
  overlay,   \* the block's changes over it
  mongo,     \* the index database
  session,   \* the same as the block's session sees it
  prevMerk, prevMongo, \* the previous store and index
  prevSession,         \* the previous index as the replay's session sees it
  clone,     \* the changes of the last block committed
  nextClone, \* those of the block being committed
  pending,   \* operations of the replay that have not reached MongoDB
  \* history
  docs, orphans,         \* the documents as the block's transitions left them,
                         \* and those it created and deleted in one block
  lastDocs, lastOrphans, \* the same after the last block committed,
  prevDocs, prevOrphans, \* and after the one before it
  moved                  \* a value one document has or had went to another

current  == <<merk, overlay, mongo, session>>
previous == <<prevMerk, prevMongo, prevSession>>
clones   == <<clone, nextClone, pending>>
history  == <<docs, lastDocs, prevDocs, orphans, lastOrphans, prevOrphans, moved>>
vars     == <<phase, height, current, previous, clones, history>>

Operations == [id : Ids, kind : {"update", "delete"}, value : Values]

TypeOK ==
  /\ phase \in {"block", "replay", "failed"} /\ height \in 0 .. MaxHeight
  /\ merk \in Documents /\ overlay \in Overlay
  /\ mongo \in Documents /\ session \in Documents
  /\ prevMerk \in Documents /\ prevMongo \in Documents /\ prevSession \in Documents
  /\ clone \in Overlay /\ nextClone \in Overlay /\ pending \subseteq Operations
  /\ docs \in Documents /\ lastDocs \in Documents /\ prevDocs \in Documents
  /\ orphans \subseteq Ids /\ lastOrphans \subseteq Ids /\ prevOrphans \subseteq Ids
  /\ moved \in BOOLEAN

Init ==
  /\ phase = "block" /\ height = 0
  /\ merk = NoDocuments /\ overlay = NothingChanged
  /\ mongo = NoDocuments /\ session = NoDocuments
  /\ prevMerk = NoDocuments /\ prevMongo = NoDocuments /\ prevSession = NoDocuments
  /\ clone = NothingChanged /\ nextClone = NothingChanged /\ pending = {}
  /\ docs = NoDocuments /\ lastDocs = NoDocuments /\ prevDocs = NoDocuments
  /\ orphans = {} /\ lastOrphans = {} /\ prevOrphans = {} /\ moved = FALSE

-----------------------------------------------------------------------------
(* The overlay: MerkDbInMemoryDecorator *)

\* getSync through the overlay.
Read(d) ==
  IF overlay.deletes[d] # None THEN None
  ELSE IF overlay.updates[d] # None THEN overlay.updates[d]
  ELSE merk[d]

\* The put does not forget that the key was deleted.
PutKeepsDeleted(o, d, v) == [o EXCEPT !.updates[d] = v]

Put(o, d, v) == [updates |-> [o.updates EXCEPT ![d] = v],
                 deletes |-> [o.deletes EXCEPT ![d] = None]]

\* The delete does not forget the value that was put.
DeleteKeepsUpdate(o, d) ==
  IF merk[d] # None THEN [o EXCEPT !.deletes[d] = merk[d]] ELSE o

\* A key that is not in the store below is not found: the exception is
\* swallowed and the overlay stays as it is.
Delete(o, d) ==
  IF merk[d] # None
  THEN [updates |-> [o.updates EXCEPT ![d] = None],
        deletes |-> [o.deletes EXCEPT ![d] = merk[d]]]
  ELSE o

\* persist: one batch, all the puts first and then the deletes.
Persist(store, o) ==
  [d \in Ids |-> IF o.deletes[d] # None THEN None
                 ELSE IF o.updates[d] # None THEN o.updates[d] ELSE store[d]]

-----------------------------------------------------------------------------
(* Faulty variants of what follows, for the mutation runs *)

\* Uniqueness is judged by the index as it was before the block.
TakenInCommitted(d, v) == \E e \in Ids \ {d} : mongo[e] = v

\* The clone just made is replayed at once.
FinishReplayEarly ==
  /\ phase = "replay" /\ pending = {}
  /\ phase' = "block"
  /\ prevMongo' = prevSession
  /\ prevMerk' = Persist(Persist(prevMerk, clone), nextClone)
  /\ clone' = nextClone /\ nextClone' = NothingChanged
  /\ UNCHANGED <<height, current, prevSession, pending, history>>

-----------------------------------------------------------------------------
(* Document transitions of a block *)

\* find: the ids come from the index, the documents from the store; those the
\* store does not have are filtered out.
Found(d) == session[d] # None /\ Read(d) # None

\* Another document has the value of the unique index.
Taken(d, v) == \E e \in Ids \ {d} : session[e] = v /\ Found(e)

Store(d, v) ==
  /\ session' = [session EXCEPT ![d] = v]
  /\ overlay' = Put(overlay, d, v)
  /\ docs' = [docs EXCEPT ![d] = v]
  /\ orphans' = orphans \ {d}
  /\ moved' = (moved \/ \E e \in Ids \ {d} : v \in {merk[e], mongo[e], overlay.updates[e]})
  /\ UNCHANGED <<phase, height, merk, mongo, previous, clones, lastDocs, prevDocs,
                 lastOrphans, prevOrphans>>

\* The document must not be there yet and its value not be taken.
Create(d, v) ==
  /\ phase = "block"
  /\ ~Found(d) /\ ~Taken(d, v)
  /\ Store(d, v)

\* The document must be there and the new value not belong to another one.
Replace(d, v) ==
  /\ phase = "block"
  /\ Found(d) /\ ~Taken(d, v)
  /\ Store(d, v)

Remove(d) ==
  /\ phase = "block"
  /\ Found(d)
  /\ session' = [session EXCEPT ![d] = None]
  /\ overlay' = Delete(overlay, d)
  /\ docs' = [docs EXCEPT ![d] = None]
  /\ orphans' = IF merk[d] = None THEN orphans \cup {d} ELSE orphans \ {d}
  /\ UNCHANGED <<phase, height, merk, mongo, previous, clones, lastDocs, prevDocs,
                 lastOrphans, prevOrphans, moved>>

\* A block that is begun again aborts the transaction left open.
Abort ==
  /\ phase = "block"
  /\ overlay' = NothingChanged /\ session' = mongo
  /\ docs' = lastDocs /\ orphans' = lastOrphans
  /\ UNCHANGED <<phase, height, merk, mongo, previous, clones, lastDocs, prevDocs,
                 lastOrphans, prevOrphans, moved>>

-----------------------------------------------------------------------------
(* Commit of the block and replay of the one before *)

\* populateMongoDbTransactionFromObject: every change of the clone is an
\* operation of its own, and they run concurrently in one session.
ReplayOperations(o) ==
  {[id |-> d, kind |-> "update", value |-> o.updates[d]] :
    d \in {e \in Ids : o.updates[e] # None}}
  \cup
  {[id |-> d, kind |-> "delete", value |-> o.deletes[d]] :
    d \in {e \in Ids : o.deletes[e] # None}}

CommitBlock ==
  /\ phase = "block" /\ height < MaxHeight
  /\ height' = height + 1
  /\ nextClone' = overlay
  /\ mongo' = session
  /\ merk' = Persist(merk, overlay) /\ overlay' = NothingChanged
  /\ pending' = ReplayOperations(clone) /\ prevSession' = prevMongo
  /\ lastDocs' = docs /\ prevDocs' = lastDocs
  /\ lastOrphans' = orphans /\ prevOrphans' = lastOrphans
  /\ phase' = "replay"
  /\ UNCHANGED <<session, prevMerk, prevMongo, clone, docs, orphans, moved>>

\* An update meets the unique index of the previous database.
Refused(op) ==
  op.kind = "update" /\ \E e \in Ids \ {op.id} : prevSession[e] = op.value

Replay(op) ==
  /\ phase = "replay" /\ op \in pending /\ ~Refused(op)
  /\ prevSession' = [prevSession EXCEPT
                      ![op.id] = IF op.kind = "update" THEN op.value ELSE None]
  /\ pending' = pending \ {op}
  /\ UNCHANGED <<phase, height, current, prevMerk, prevMongo, clone, nextClone, history>>

\* commitHandler throws, and Drive ends.
ReplayFails ==
  /\ phase = "replay"
  /\ \E op \in pending : Refused(op)
  /\ phase' = "failed"
  /\ UNCHANGED <<height, current, previous, clones, history>>

FinishReplay ==
  /\ phase = "replay" /\ pending = {}
  /\ phase' = "block"
  /\ prevMongo' = prevSession
  /\ prevMerk' = Persist(prevMerk, clone)
  /\ clone' = nextClone /\ nextClone' = NothingChanged
  /\ UNCHANGED <<height, current, prevSession, pending, history>>

Next ==
  \/ \E d \in Ids, v \in Values : Create(d, v) \/ Replace(d, v)
  \/ \E d \in Ids : Remove(d)
  \/ Abort
  \/ CommitBlock
  \/ \E op \in pending : Replay(op)
  \/ ReplayFails
  \/ FinishReplay

Spec == Init /\ [][Next]_vars

-----------------------------------------------------------------------------
(* Properties *)

\* The store, read through the overlay and after any number of commits and
\* aborts, holds what the transitions left, but for documents created and
\* deleted in one block, which it keeps.
StoreFollowsTransitions == \A d \in Ids \ orphans : Read(d) = docs[d]

\* The index holds what the transitions left, a unique value at most once, and
\* points to documents the store has, in every step of a block and across
\* aborted blocks.
IndexFollowsStore ==
  /\ session = docs
  /\ \A d \in Ids : session[d] # None => Read(d) = session[d]
  /\ \A d, e \in Ids : d # e /\ session[d] # None => session[d] # session[e]

\* Between blocks the previous store and index, fed from a clone of the
\* overlay and in any order, are those of exactly one block before.
PreviousIsLastBlock ==
  phase = "block" =>
    \A d \in Ids \ prevOrphans : prevMerk[d] = prevDocs[d] /\ prevMongo[d] = prevDocs[d]

\* Every key a clone deletes is in the previous store when the deletes are
\* replayed there, as Merk's delete needs.
DeletesHit == \A d \in Ids : clone.deletes[d] # None => prevMerk[d] # None

\* The replay, and with it the commit, fails only where a value has passed
\* from one document to another.
FailsOnlyOnMovedValue == phase = "failed" => moved

-----------------------------------------------------------------------------
(* What the repository says, and the code does not do *)

\* MerkDbInMemoryDecorator.spec "should not add removing key to transaction if
\* key not exists in merkDB": data.get(key) would be undefined after delete.
DeleteLeavesNoUpdate ==
  [][\A d \in Ids : docs[d] # None /\ docs'[d] = None => overlay'.updates[d] = None]_vars

=============================================================================
