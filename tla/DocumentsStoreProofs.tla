------------------------- MODULE DocumentsStoreProofs -------------------------
(***************************************************************************)
(* Proofs about DocumentsStore, for any number of documents and values and *)
(* any length of chain.  The invariant has two halves.  CurrentInv ties    *)
(* store, overlay and index to what the transitions left.  PreviousInv     *)
(* says that the previous store is exactly the store before the last       *)
(* commit, that the previous index equals the previous store, and that a   *)
(* replay in progress has applied each operation of the clone that is no   *)
(* longer pending.  From the two follows that store, overlay and index act *)
(* as one table of documents.                                              *)
(***************************************************************************)
EXTENDS DocumentsStoreRefinement, TLAPS

\* A key is not both updated and deleted, and deletes are of keys in store.
Clean(o, store) ==
  \A d \in Ids : o.deletes[d] # None => store[d] # None /\ o.updates[d] = None

\* A store holds the documents, and keeps the orphans.
Holds(store, documents, kept) ==
  \A d \in Ids : IF d \in kept THEN documents[d] = None ELSE store[d] = documents[d]

CurrentInv ==
  /\ Clean(overlay, merk)
  /\ \A d \in Ids : IF d \in orphans THEN docs[d] = None ELSE Read(d) = docs[d]
  /\ Holds(merk, lastDocs, lastOrphans)
  /\ session = docs /\ mongo = lastDocs
  /\ \A d, e \in Ids : d # e /\ docs[d] # None => docs[d] # docs[e]
  /\ \A d, e \in Ids : d # e /\ lastDocs[d] # None => lastDocs[d] # lastDocs[e]
  /\ phase = "replay" =>
       overlay = NothingChanged /\ docs = lastDocs /\ orphans = lastOrphans

\* The previous store once the clone is replayed.
Replayed == Persist(prevMerk, clone)

PreviousInv ==
  /\ Clean(clone, prevMerk)
  /\ prevMongo = prevMerk
  /\ phase = "block" =>
       Replayed = merk /\ Holds(prevMerk, prevDocs, prevOrphans)
  /\ phase = "replay" =>
       /\ Persist(Replayed, nextClone) = merk
       /\ Clean(nextClone, Replayed)
       /\ Holds(Replayed, prevDocs, prevOrphans)
       /\ pending \subseteq ReplayOperations(clone)
       /\ \A d \in Ids : prevSession[d] = IF \E op \in pending : op.id = d
                                          THEN prevMerk[d] ELSE Replayed[d]

\* No value that is put belongs to another document of the store or the overlay.
Unmoved(o, store) ==
  \A d, e \in Ids : d # e /\ o.updates[d] # None => o.updates[d] \notin {store[e], o.updates[e]}

MovedInv ==
  ~moved =>
    /\ phase # "failed"
    /\ Unmoved(overlay, merk)
    /\ Unmoved(clone, prevMerk)
    /\ phase = "replay" => Unmoved(nextClone, Replayed)

IInv == TypeOK /\ CurrentInv /\ PreviousInv /\ MovedInv

-----------------------------------------------------------------------------
(* Lemmas about the overlay *)

USE DocumentsAssumption

LEMMA SameDocuments ==
  ASSUME NEW f \in Documents, NEW g \in Documents, \A d \in Ids : f[d] = g[d]
  PROVE  f = g
<1>1. f = [d \in Ids |-> f[d]] /\ g = [d \in Ids |-> g[d]]
  BY DEF Documents
<1>2. [d \in Ids |-> f[d]] = [d \in Ids |-> g[d]]
  OBVIOUS
<1> QED BY <1>1, <1>2

LEMMA PersistType ==
  ASSUME NEW store \in Documents, NEW o \in Overlay
  PROVE  Persist(store, o) \in Documents
BY DEF Persist, Documents, Overlay

LEMMA OverlayType ==
  /\ NoDocuments \in Documents
  /\ NothingChanged \in Overlay
  /\ \A o \in Overlay : o.updates \in Documents /\ o.deletes \in Documents
BY DEF Documents, Overlay, NothingChanged, NoDocuments

\* An empty overlay changes nothing.
LEMMA PersistNothing ==
  ASSUME NEW store \in Documents
  PROVE  Persist(store, NothingChanged) = store
BY DEF Persist, NothingChanged, NoDocuments, Documents

LEMMA CleanNothing ==
  ASSUME NEW store \in Documents
  PROVE  Clean(NothingChanged, store)
BY DEF Clean, NothingChanged, NoDocuments

\* persist makes permanent what was read through the overlay.
LEMMA PersistReads ==
  ASSUME NEW d \in Ids
  PROVE  Persist(merk, overlay)[d] = Read(d)
BY DEF Persist, Read

LEMMA PutType ==
  ASSUME NEW o \in Overlay, NEW d \in Ids, NEW v \in Values
  PROVE  Put(o, d, v) \in Overlay
BY DEF Put, Overlay, Documents

LEMMA DeleteType ==
  ASSUME NEW o \in Overlay, NEW d \in Ids, merk \in Documents
  PROVE  Delete(o, d) \in Overlay
BY DEF Delete, Overlay, Documents

LEMMA OperationsType ==
  ASSUME NEW o \in Overlay
  PROVE  ReplayOperations(o) \subseteq Operations
BY DEF ReplayOperations, Operations, Overlay, Documents

\* A clean overlay has one operation at most for a key.
LEMMA OneOperation ==
  ASSUME NEW o \in Overlay, NEW store, Clean(o, store),
         NEW op1 \in ReplayOperations(o), NEW op2 \in ReplayOperations(o),
         op1.id = op2.id
  PROVE  op1 = op2
BY DEF ReplayOperations, Clean, Overlay, Documents

\* An operation of a clean overlay leaves what persist leaves.
LEMMA OperationEffect ==
  ASSUME NEW o \in Overlay, NEW store \in Documents, Clean(o, store),
         NEW op \in ReplayOperations(o)
  PROVE  /\ op.id \in Ids
         /\ (IF op.kind = "update" THEN op.value ELSE None) = Persist(store, o)[op.id]
BY DEF ReplayOperations, Clean, Overlay, Documents, Persist

\* A key without an operation is left alone by persist.
LEMMA NoOperation ==
  ASSUME NEW o \in Overlay, NEW store \in Documents, NEW d \in Ids,
         ~ \E op \in ReplayOperations(o) : op.id = d
  PROVE  Persist(store, o)[d] = store[d]
<1>1. o.updates[d] = None
  <2> DEFINE op == [id |-> d, kind |-> "update", value |-> o.updates[d]]
  <2>1. o.updates[d] # None => op \in ReplayOperations(o)
    BY DEF ReplayOperations
  <2>2. op.id = d
    OBVIOUS
  <2> QED BY <2>1, <2>2
<1>2. o.deletes[d] = None
  <2> DEFINE op == [id |-> d, kind |-> "delete", value |-> o.deletes[d]]
  <2>1. o.deletes[d] # None => op \in ReplayOperations(o)
    BY DEF ReplayOperations
  <2>2. op.id = d
    OBVIOUS
  <2> QED BY <2>1, <2>2
<1> QED BY <1>1, <1>2 DEF Persist

-----------------------------------------------------------------------------
(* Type correctness *)

LEMMA TypeStep == ASSUME TypeOK, [Next]_vars PROVE TypeOK'
<1> USE DEF TypeOK, current, previous, clones, history
<1>1. ASSUME NEW d \in Ids, NEW v \in Values, Store(d, v) PROVE TypeOK'
  <2>1. overlay' \in Overlay
    BY <1>1, PutType DEF Store
  <2>2. session' \in Documents /\ docs' \in Documents
    BY <1>1 DEF Store, Documents
  <2>3. moved' \in BOOLEAN
    BY <1>1 DEF Store
  <2> QED BY <1>1, <2>1, <2>2, <2>3 DEF Store
<1>2. ASSUME NEW d \in Ids, NEW v \in Values, Create(d, v) PROVE TypeOK'
  BY <1>1, <1>2 DEF Create
<1>3. ASSUME NEW d \in Ids, NEW v \in Values, Replace(d, v) PROVE TypeOK'
  BY <1>1, <1>3 DEF Replace
<1>4. ASSUME NEW d \in Ids, Remove(d) PROVE TypeOK'
  <2>1. overlay' \in Overlay
    BY <1>4, DeleteType DEF Remove
  <2>2. session' \in Documents /\ docs' \in Documents
    BY <1>4 DEF Remove, Documents
  <2> QED BY <1>4, <2>1, <2>2 DEF Remove
<1>5. CASE Abort
  BY <1>5, OverlayType DEF Abort
<1>6. CASE CommitBlock
  <2>1. merk' \in Documents
    BY <1>6, PersistType DEF CommitBlock
  <2>2. pending' \subseteq Operations
    BY <1>6, OperationsType DEF CommitBlock
  <2>3. height' \in 0 .. MaxHeight
    BY <1>6 DEF CommitBlock
  <2> QED BY <1>6, <2>1, <2>2, <2>3, OverlayType DEF CommitBlock
<1>7. ASSUME NEW op \in pending, Replay(op) PROVE TypeOK'
  <2>1. prevSession' \in Documents
    BY <1>7 DEF Replay, Documents, Operations
  <2> QED BY <1>7, <2>1 DEF Replay
<1>8. CASE ReplayFails
  BY <1>8 DEF ReplayFails
<1>9. CASE FinishReplay
  <2>1. prevMerk' \in Documents
    BY <1>9, PersistType DEF FinishReplay
  <2> QED BY <1>9, <2>1, OverlayType DEF FinishReplay
<1>10. CASE UNCHANGED vars
  BY <1>10 DEF vars
<1> QED
  BY <1>2, <1>3, <1>4, <1>5, <1>6, <1>7, <1>8, <1>9, <1>10 DEF Next

-----------------------------------------------------------------------------
(* The store and the index follow the transitions *)

\* No document of the index has a value that is not taken.
LEMMA NotTaken ==
  ASSUME TypeOK, CurrentInv, NEW d \in Ids, NEW v \in Values, ~Taken(d, v)
  PROVE  \A e \in Ids \ {d} : docs[e] # v
<1> SUFFICES ASSUME NEW e \in Ids \ {d}, docs[e] = v PROVE FALSE
  OBVIOUS
<1>1. docs[e] # None
  BY DocumentsAssumption
<1>2. Read(e) = docs[e] /\ session[e] = docs[e]
  BY <1>1 DEF CurrentInv
<1> QED BY <1>1, <1>2 DEF Taken, Found

\* Storing a document whose value is not taken.
LEMMA StoreKeeps ==
  ASSUME TypeOK, CurrentInv, NEW d \in Ids, NEW v \in Values, phase = "block",
         ~Taken(d, v), Store(d, v)
  PROVE  CurrentInv'
<1> USE DEF TypeOK
<1>1. merk' = merk /\ mongo' = mongo /\ lastDocs' = lastDocs /\ lastOrphans' = lastOrphans
      /\ phase' = phase /\ overlay' = Put(overlay, d, v)
      /\ docs' = [docs EXCEPT ![d] = v] /\ session' = [session EXCEPT ![d] = v]
      /\ orphans' = orphans \ {d}
  BY DEF Store
<1>2. Clean(overlay', merk')
  BY <1>1 DEF Clean, Put, CurrentInv, Overlay, Documents
<1>3. ASSUME NEW e \in Ids
      PROVE  IF e \in orphans' THEN docs'[e] = None ELSE Read(e)' = docs'[e]
  <2>1. CASE e = d
    <3>1. Read(e)' = v
      BY <1>1, <2>1, DocumentsAssumption DEF Read, Put, Overlay, Documents
    <3> QED BY <1>1, <2>1, <3>1 DEF Documents
  <2>2. CASE e # d
    <3>1. Read(e)' = Read(e)
      BY <1>1, <2>2 DEF Read, Put, Overlay, Documents
    <3> QED BY <1>1, <2>2, <3>1 DEF Documents, CurrentInv
  <2> QED BY <2>1, <2>2
<1>4. Holds(merk, lastDocs, lastOrphans)'
  BY <1>1 DEF CurrentInv, Holds
<1>5. session' = docs' /\ mongo' = lastDocs'
  BY <1>1 DEF CurrentInv
<1>6. \A e, f \in Ids : e # f /\ docs'[e] # None => docs'[e] # docs'[f]
  BY <1>1, NotTaken DEF CurrentInv, Documents
<1>7. \A e, f \in Ids : e # f /\ lastDocs'[e] # None => lastDocs'[e] # lastDocs'[f]
  BY <1>1 DEF CurrentInv
<1> QED BY <1>1, <1>2, <1>3, <1>4, <1>5, <1>6, <1>7 DEF CurrentInv

\* Removing a document: what the overlay does not have in the store stays.
LEMMA RemoveKeeps ==
  ASSUME TypeOK, CurrentInv, NEW d \in Ids, Remove(d)
  PROVE  CurrentInv'
<1> USE DEF TypeOK
<1>1. merk' = merk /\ mongo' = mongo /\ lastDocs' = lastDocs /\ lastOrphans' = lastOrphans
      /\ phase' = phase /\ phase = "block" /\ overlay' = Delete(overlay, d)
      /\ docs' = [docs EXCEPT ![d] = None] /\ session' = [session EXCEPT ![d] = None]
      /\ orphans' = IF merk[d] = None THEN orphans \cup {d} ELSE orphans \ {d}
  BY DEF Remove
<1>2. Clean(overlay', merk')
  BY <1>1 DEF Clean, Delete, CurrentInv, Overlay, Documents
<1>3. ASSUME NEW e \in Ids
      PROVE  IF e \in orphans' THEN docs'[e] = None ELSE Read(e)' = docs'[e]
  <2>1. CASE e = d /\ merk[d] # None
    <3>1. Read(e)' = None
      BY <1>1, <2>1 DEF Read, Delete, Overlay, Documents
    <3> QED BY <1>1, <2>1, <3>1 DEF Documents
  <2>2. CASE e = d /\ merk[d] = None
    BY <1>1, <2>2 DEF Documents
  <2>3. CASE e # d
    <3>1. Read(e)' = Read(e)
      BY <1>1, <2>3 DEF Read, Delete, Overlay, Documents
    <3> QED BY <1>1, <2>3, <3>1 DEF Documents, CurrentInv
  <2> QED BY <2>1, <2>2, <2>3
<1>4. Holds(merk, lastDocs, lastOrphans)'
  BY <1>1 DEF CurrentInv, Holds
<1>5. session' = docs' /\ mongo' = lastDocs'
  BY <1>1 DEF CurrentInv
<1>6. \A e, f \in Ids : e # f /\ docs'[e] # None => docs'[e] # docs'[f]
  BY <1>1 DEF CurrentInv, Documents
<1>7. \A e, f \in Ids : e # f /\ lastDocs'[e] # None => lastDocs'[e] # lastDocs'[f]
  BY <1>1 DEF CurrentInv
<1> QED BY <1>1, <1>2, <1>3, <1>4, <1>5, <1>6, <1>7 DEF CurrentInv

LEMMA CurrentStep == ASSUME TypeOK, CurrentInv, [Next]_vars PROVE CurrentInv'
<1> USE DEF TypeOK, current, previous, clones, history
<1>1. ASSUME NEW d \in Ids, NEW v \in Values, Create(d, v) PROVE CurrentInv'
  BY <1>1, StoreKeeps DEF Create
<1>2. ASSUME NEW d \in Ids, NEW v \in Values, Replace(d, v) PROVE CurrentInv'
  BY <1>2, StoreKeeps DEF Replace
<1>3. ASSUME NEW d \in Ids, Remove(d) PROVE CurrentInv'
  BY <1>3, RemoveKeeps
<1>4. CASE Abort
  <2>1. Clean(overlay', merk')
    BY <1>4, CleanNothing DEF Abort
  <2>2. \A e \in Ids : Read(e)' = merk[e]
    BY <1>4 DEF Abort, Read, NothingChanged, NoDocuments
  <2> QED BY <1>4, <2>1, <2>2 DEF Abort, CurrentInv, Holds
<1>5. CASE CommitBlock
  <2>1. Clean(overlay', merk')
    BY <1>5, CleanNothing, PersistType DEF CommitBlock
  <2>2. \A e \in Ids : merk'[e] = Read(e)
    BY <1>5, PersistReads DEF CommitBlock
  <2>3. \A e \in Ids : Read(e)' = Read(e)
    BY <1>5, <2>2 DEF CommitBlock, Read, NothingChanged, NoDocuments
  <2> QED BY <1>5, <2>1, <2>2, <2>3 DEF CommitBlock, CurrentInv, Holds
<1>6. ASSUME NEW op \in pending, Replay(op) PROVE CurrentInv'
  BY <1>6 DEF Replay, CurrentInv, Read
<1>7. CASE ReplayFails
  BY <1>7 DEF ReplayFails, CurrentInv, Read
<1>8. CASE FinishReplay
  BY <1>8 DEF FinishReplay, CurrentInv, Read
<1>9. CASE UNCHANGED vars
  BY <1>9 DEF vars, CurrentInv, Read
<1> QED
  BY <1>1, <1>2, <1>3, <1>4, <1>5, <1>6, <1>7, <1>8, <1>9 DEF Next

-----------------------------------------------------------------------------
(* The previous store and index follow one commit behind *)

LEMMA PreviousStep == ASSUME TypeOK, CurrentInv, PreviousInv, [Next]_vars PROVE PreviousInv'
<1> USE DEF TypeOK, current, previous, clones, history
<1>1. ASSUME NEW d \in Ids, NEW v \in Values, Create(d, v) \/ Replace(d, v) PROVE PreviousInv'
  BY <1>1 DEF Create, Replace, Store, PreviousInv, Replayed
<1>2. ASSUME NEW d \in Ids, Remove(d) PROVE PreviousInv'
  BY <1>2 DEF Remove, PreviousInv, Replayed
<1>3. CASE Abort
  BY <1>3 DEF Abort, PreviousInv, Replayed
<1>4. CASE CommitBlock
  <2>1. Replayed = merk /\ Replayed' = merk /\ merk' = Persist(Replayed', nextClone')
        /\ phase = "block" /\ phase' = "replay" /\ nextClone' = overlay
        /\ pending' = ReplayOperations(clone') /\ prevSession' = prevMerk'
        /\ clone' = clone /\ prevMerk' = prevMerk /\ prevMongo' = prevMongo
        /\ prevDocs' = lastDocs /\ prevOrphans' = lastOrphans
    BY <1>4 DEF CommitBlock, PreviousInv, Replayed
  <2>2. Clean(nextClone', Replayed') /\ Holds(Replayed', prevDocs', prevOrphans')
    BY <2>1 DEF CurrentInv
  <2>3. ASSUME NEW d \in Ids
        PROVE  prevSession'[d] = IF \E op \in pending' : op.id = d
                                 THEN prevMerk'[d] ELSE Replayed'[d]
    <3>1. (~ \E op \in ReplayOperations(clone) : op.id = d) => Replayed[d] = prevMerk[d]
      BY NoOperation DEF Replayed
    <3> QED BY <2>1, <3>1
  <2> QED BY <2>1, <2>2, <2>3 DEF PreviousInv
<1>5. ASSUME NEW op \in pending, Replay(op) PROVE PreviousInv'
  <2> DEFINE left == IF op.kind = "update" THEN op.value ELSE None
  <2>1. pending' = pending \ {op} /\ prevSession' = [prevSession EXCEPT ![op.id] = left]
        /\ phase = "replay" /\ phase' = "replay" /\ Replayed' = Replayed
        /\ clone' = clone /\ prevMerk' = prevMerk /\ prevMongo' = prevMongo
        /\ nextClone' = nextClone /\ merk' = merk
        /\ prevDocs' = prevDocs /\ prevOrphans' = prevOrphans
    BY <1>5 DEF Replay, Replayed
  <2>2. op \in ReplayOperations(clone) /\ pending \subseteq ReplayOperations(clone)
        /\ Clean(clone, prevMerk)
    BY <2>1 DEF PreviousInv
  <2>3. op.id \in Ids /\ left = Replayed[op.id]
    BY <2>2, OperationEffect DEF Replayed
  <2>4. ~ \E other \in pending' : other.id = op.id
    BY <2>1, <2>2, OneOperation
  <2>5. ASSUME NEW d \in Ids
        PROVE  prevSession'[d] = IF \E other \in pending' : other.id = d
                                 THEN prevMerk'[d] ELSE Replayed'[d]
    <3>1. CASE d = op.id
      BY <2>1, <2>3, <2>4, <3>1 DEF Documents
    <3>2. CASE d # op.id
      <4>1. prevSession'[d] = prevSession[d]
        BY <2>1, <3>2 DEF Documents
      <4>2. (\E other \in pending' : other.id = d) <=> \E other \in pending : other.id = d
        BY <2>1, <3>2
      <4> QED BY <2>1, <4>1, <4>2 DEF PreviousInv
    <3> QED BY <3>1, <3>2
  <2> QED BY <2>1, <2>2, <2>5 DEF PreviousInv
<1>6. CASE ReplayFails
  BY <1>6 DEF ReplayFails, PreviousInv, Replayed
<1>7. CASE FinishReplay
  <2>1. prevMerk' = Replayed /\ prevMongo' = prevSession /\ clone' = nextClone
        /\ phase = "replay" /\ phase' = "block" /\ merk' = merk /\ pending = {}
        /\ prevDocs' = prevDocs /\ prevOrphans' = prevOrphans
    BY <1>7 DEF FinishReplay, Replayed
  <2>2. prevSession = Replayed
    <3>1. \A d \in Ids : prevSession[d] = Replayed[d]
      BY <2>1 DEF PreviousInv
    <3>2. Replayed \in Documents
      BY PersistType DEF Replayed
    <3> QED BY <3>1, <3>2, SameDocuments
  <2>3. Replayed' = merk'
    BY <2>1 DEF PreviousInv, Replayed
  <2> QED BY <2>1, <2>2, <2>3 DEF PreviousInv
<1>8. CASE UNCHANGED vars
  BY <1>8 DEF vars, PreviousInv, Replayed
<1> QED
  BY <1>1, <1>2, <1>3, <1>4, <1>5, <1>6, <1>7, <1>8 DEF Next

LEMMA UnmovedNothing ==
  ASSUME NEW store \in Documents
  PROVE  Unmoved(NothingChanged, store)
BY DEF Unmoved, NothingChanged, NoDocuments

\* What a session holds in the middle of a replay does not refuse an update
\* whose value did not move.
LEMMA NotRefused ==
  ASSUME TypeOK, PreviousInv, phase = "replay", Unmoved(clone, prevMerk),
         NEW op \in pending
  PROVE  ~Refused(op)
<1> SUFFICES ASSUME op.kind = "update", NEW e \in Ids \ {op.id}, prevSession[e] = op.value
             PROVE  FALSE
  BY DEF Refused
<1>1. op.id \in Ids /\ op.value = clone.updates[op.id] /\ op.value # None
  BY DEF PreviousInv, ReplayOperations
<1>2. op.value \notin {prevMerk[e], clone.updates[e]}
  BY <1>1 DEF Unmoved
<1>3. Replayed[e] \in {None, clone.updates[e], prevMerk[e]}
  BY DEF Replayed, Persist
<1>4. prevSession[e] \in {prevMerk[e], Replayed[e]}
  BY DEF PreviousInv
<1> QED BY <1>1, <1>2, <1>3, <1>4

LEMMA MovedStep ==
  ASSUME TypeOK, CurrentInv, PreviousInv, MovedInv, [Next]_vars
  PROVE  MovedInv'
<1> USE DEF TypeOK, current, previous, clones, history
<1>1. ASSUME NEW d \in Ids, NEW v \in Values, Create(d, v) \/ Replace(d, v) PROVE MovedInv'
  <2>1. Store(d, v) /\ phase = "block"
    BY <1>1 DEF Create, Replace
  <2> SUFFICES ASSUME ~moved' PROVE MovedInv'
    BY DEF MovedInv
  <2>2. ~moved /\ \A e \in Ids \ {d} : v \notin {merk[e], overlay.updates[e]}
    BY <2>1 DEF Store
  <2>3. Unmoved(Put(overlay, d, v), merk)
    BY <2>2 DEF MovedInv, Unmoved, Put, Overlay, Documents
  <2> QED BY <2>1, <2>2, <2>3 DEF MovedInv, Store, Replayed
<1>2. ASSUME NEW d \in Ids, Remove(d) PROVE MovedInv'
  <2>1. ~moved => Unmoved(Delete(overlay, d), merk)
    BY DEF MovedInv, Unmoved, Delete, Overlay, Documents
  <2> QED BY <1>2, <2>1 DEF Remove, MovedInv, Replayed
<1>3. CASE Abort
  BY <1>3, UnmovedNothing DEF Abort, MovedInv, Replayed
<1>4. CASE CommitBlock
  <2>1. Replayed' = merk
    BY <1>4 DEF CommitBlock, PreviousInv, Replayed
  <2>2. Unmoved(overlay', merk')
    BY <1>4, UnmovedNothing, PersistType DEF CommitBlock
  <2> QED BY <1>4, <2>1, <2>2 DEF CommitBlock, MovedInv
<1>5. ASSUME NEW op \in pending, Replay(op) PROVE MovedInv'
  BY <1>5 DEF Replay, MovedInv, Replayed
<1>6. CASE ReplayFails
  <2>1. moved
    BY <1>6, NotRefused DEF ReplayFails, MovedInv
  <2> QED BY <1>6, <2>1 DEF ReplayFails, MovedInv
<1>7. CASE FinishReplay
  BY <1>7 DEF FinishReplay, MovedInv, Replayed
<1>8. CASE UNCHANGED vars
  BY <1>8 DEF vars, MovedInv, Replayed
<1> QED
  BY <1>1, <1>2, <1>3, <1>4, <1>5, <1>6, <1>7, <1>8 DEF Next

-----------------------------------------------------------------------------
(* The theorems *)

LEMMA InitInv == Init => IInv
<1> SUFFICES ASSUME Init PROVE IInv
  OBVIOUS
<1>1. TypeOK
  <2>1. phase \in {"block", "replay", "failed"} /\ height \in 0 .. MaxHeight
    BY DEF Init
  <2>2. /\ pending \subseteq Operations /\ moved \in BOOLEAN
        /\ orphans \subseteq Ids /\ lastOrphans \subseteq Ids /\ prevOrphans \subseteq Ids
    BY DEF Init
  <2> QED BY <2>1, <2>2, OverlayType DEF Init, TypeOK
<1>2. NoDocuments \in Documents
  BY OverlayType
<1>3. CurrentInv
  BY <1>2, CleanNothing DEF Init, CurrentInv, Holds, Read, NothingChanged, NoDocuments
<1>4. Replayed = merk
  BY <1>2, PersistNothing DEF Init, Replayed
<1>5. PreviousInv
  BY <1>2, <1>4, CleanNothing DEF Init, PreviousInv, Holds, NoDocuments
<1>6. MovedInv
  BY <1>2, UnmovedNothing DEF Init, MovedInv
<1> QED BY <1>1, <1>3, <1>5, <1>6 DEF IInv

LEMMA InductiveInv == Spec => []IInv
<1>1. IInv /\ [Next]_vars => IInv'
  BY TypeStep, CurrentStep, PreviousStep, MovedStep DEF IInv
<1> QED BY InitInv, <1>1, PTL DEF Spec

\* Every variable keeps its type: no document or operation without a value is
\* replayed.
THEOREM TypeCorrect == Spec => []TypeOK
<1>1. IInv => TypeOK
  BY DEF IInv
<1> QED BY <1>1, InductiveInv, PTL

\* The documents' store follows the transitions, through puts, swallowed
\* deletes, commits and aborts.
THEOREM StoreFollows == Spec => []StoreFollowsTransitions
<1>1. IInv => StoreFollowsTransitions
  BY DEF IInv, CurrentInv, StoreFollowsTransitions
<1> QED BY <1>1, InductiveInv, PTL

\* The index agrees with the store, and unique values stay unique.
THEOREM IndexFollows == Spec => []IndexFollowsStore
<1> SUFFICES ASSUME IInv PROVE IndexFollowsStore
  BY InductiveInv, PTL
<1>1. session = docs
  BY DEF IInv, CurrentInv
<1>2. \A d \in Ids : session[d] # None => Read(d) = session[d]
  BY DEF IInv, CurrentInv
<1>3. \A d, e \in Ids : d # e /\ session[d] # None => session[d] # session[e]
  BY <1>1 DEF IInv, CurrentInv
<1> QED BY <1>1, <1>2, <1>3 DEF IndexFollowsStore

\* In whatever order a clone's operations reach MongoDB, the previous store
\* and index hold the block before the last one.
THEOREM PreviousFollows == Spec => []PreviousIsLastBlock
<1>1. IInv => PreviousIsLastBlock
  BY DEF IInv, PreviousInv, Holds, PreviousIsLastBlock
<1> QED BY <1>1, InductiveInv, PTL

\* A replay deletes only documents the previous store holds.
THEOREM DeletesFound == Spec => []DeletesHit
<1>1. IInv => DeletesHit
  BY DEF IInv, PreviousInv, Clean, DeletesHit
<1> QED BY <1>1, InductiveInv, PTL

\* Only a value that moved to another document makes a replay, and the commit
\* of the next block, fail.
THEOREM FailureHasCause == Spec => []FailsOnlyOnMovedValue
<1>1. IInv => FailsOnlyOnMovedValue
  BY DEF IInv, MovedInv, FailsOnlyOnMovedValue
<1> QED BY <1>1, InductiveInv, PTL

-----------------------------------------------------------------------------
(* The table *)

\* What is fetched is what the transitions left, orphans included: the index
\* does not point to them.
FetchedInv ==
  /\ Opened = [docs |-> docs, ghosts |-> orphans]
  /\ Committed = [docs |-> lastDocs, ghosts |-> lastOrphans]
  /\ Shown = prevMerk

LEMMA Tables == IInv => FetchedInv
<1> SUFFICES ASSUME IInv PROVE FetchedInv
  OBVIOUS
<1>1. docs \in Documents /\ lastDocs \in Documents /\ prevMerk \in Documents
  BY DEF IInv, TypeOK
<1>2. Fetched(session, [d \in Ids |-> Read(d)]) = docs
  <2>1. session = docs /\ \A d \in Ids : docs[d] # None => Read(d) = docs[d]
    BY DEF IInv, CurrentInv
  <2>2. \A d \in Ids : (IF docs[d] # None THEN Read(d) ELSE None) = docs[d]
    BY <2>1
  <2> QED BY <1>1, <2>1, <2>2 DEF Fetched, Documents
<1>3. Fetched(mongo, merk) = lastDocs
  <2>1. mongo = lastDocs /\ \A d \in Ids : lastDocs[d] # None => merk[d] = lastDocs[d]
    BY DEF IInv, CurrentInv, Holds
  <2>2. \A d \in Ids : (IF lastDocs[d] # None THEN merk[d] ELSE None) = lastDocs[d]
    BY <2>1
  <2> QED BY <1>1, <2>1, <2>2 DEF Fetched, Documents
<1>4. Shown = prevMerk
  <2>1. prevMongo = prevMerk
    BY DEF IInv, PreviousInv
  <2> QED BY <1>1, <2>1 DEF Shown, Fetched, Documents
<1> QED BY <1>2, <1>3, <1>4 DEF FetchedInv, Opened, Committed

\* Between blocks queries are shown the version before the last.
LEMMA ShownUpToDate ==
  ASSUME IInv, FetchedInv, phase = "block"
  PROVE  Table!UpToDate
<1>1. Shown = prevMerk /\ Before = [docs |-> prevDocs, ghosts |-> prevOrphans]
  BY DEF FetchedInv, Before
<1>2. \A d \in Ids \ prevOrphans : prevMerk[d] = prevDocs[d]
  BY DEF IInv, PreviousInv, Holds
<1> QED BY <1>1, <1>2 DEF Table!UpToDate

LEMMA StoreWrites ==
  ASSUME IInv, FetchedInv, FetchedInv', NEW d \in Ids, NEW v \in Values, ~Taken(d, v),
         Store(d, v)
  PROVE  Table!Write(d, v)
<1>1. /\ Opened = [docs |-> docs, ghosts |-> orphans]
      /\ Opened' = [docs |-> [docs EXCEPT ![d] = v], ghosts |-> orphans \ {d}]
  BY DEF Store, FetchedInv
<1>2. UNCHANGED <<Committed, Before, Shown>>
  BY DEF Store, FetchedInv, Before, previous
<1>3. \A e \in Ids \ {d} : docs[e] # v
  BY NotTaken DEF IInv
<1> QED BY <1>1, <1>2, <1>3 DEF Table!Write, Table!Free

LEMMA RemoveRemoves ==
  ASSUME IInv, FetchedInv, FetchedInv', NEW d \in Ids, Remove(d)
  PROVE  Table!Remove(d)
<1>1. /\ Opened = [docs |-> docs, ghosts |-> orphans]
      /\ Committed = [docs |-> lastDocs, ghosts |-> lastOrphans]
      /\ Opened' = [docs |-> [docs EXCEPT ![d] = None], ghosts |-> orphans']
  BY DEF Remove, FetchedInv
<1>2. UNCHANGED <<Committed, Before, Shown>>
  BY DEF Remove, FetchedInv, Before, previous
<1>3. docs[d] # None
  BY DEF Remove, Found, IInv, CurrentInv
<1>4. orphans' \in {orphans \ {d}, orphans \cup {d}}
  BY DEF Remove
<1>5. ASSUME d \in orphans' PROVE lastDocs[d] = None
  <2>1. merk[d] = None
    BY <1>5 DEF Remove
  <2> QED BY <2>1 DEF IInv, CurrentInv, Holds
<1> QED BY <1>1, <1>2, <1>3, <1>4, <1>5 DEF Table!Remove

LEMMA CommitCommits ==
  ASSUME IInv, FetchedInv, FetchedInv', CommitBlock
  PROVE  Table!Commit
<1>1. Table!UpToDate
  BY ShownUpToDate DEF CommitBlock
<1>2. Opened' = Opened /\ Shown' = Shown /\ Committed' = Opened
  BY DEF CommitBlock, FetchedInv
<1>3. Before' = Committed
  BY DEF CommitBlock, FetchedInv, Before
<1> QED BY <1>1, <1>2, <1>3 DEF Table!Commit

LEMMA ReplayPublishes ==
  ASSUME IInv, IInv', FetchedInv, FetchedInv', FinishReplay
  PROVE  Table!Publish
<1>1. UNCHANGED <<Opened, Committed, Before>>
  BY DEF FinishReplay, current, history, FetchedInv, Before
<1>2. Shown' = prevMerk' /\ prevMerk' \in Documents
  BY DEF FetchedInv, IInv, TypeOK
<1>3. \A d \in Ids \ prevOrphans : prevMerk'[d] = prevDocs[d]
  BY DEF FinishReplay, IInv, PreviousInv, Replayed, Holds
<1>4. prevDocs' = prevDocs /\ prevOrphans' = prevOrphans
  BY DEF FinishReplay, history
<1>5. Before' = [docs |-> prevDocs, ghosts |-> prevOrphans]
  BY <1>4 DEF Before
<1> QED BY <1>1, <1>2, <1>3, <1>5 DEF Table!Publish, Table!UpToDate, Table!Documents, Documents

\* Every step of the store is a step of the table or leaves it alone.
LEMMA TableStep ==
  ASSUME IInv, IInv', FetchedInv, FetchedInv', [Next]_vars
  PROVE  [Table!Next]_Table!vars
<1>1. ASSUME NEW d \in Ids, NEW v \in Values, Create(d, v) PROVE Table!Next
  <2>1. Table!Write(d, v)
    BY <1>1, StoreWrites DEF Create
  <2>2. Opened.docs[d] = None
    <3>1. Opened.docs[d] = docs[d] /\ session = docs
      BY DEF FetchedInv, IInv, CurrentInv
    <3>2. docs[d] # None => Read(d) = docs[d]
      BY DEF IInv, CurrentInv
    <3> QED BY <1>1, <3>1, <3>2 DEF Create, Found
  <2>3. Table!Create(d, v)
    BY <2>1, <2>2 DEF Table!Create
  <2> QED BY <2>3 DEF Table!Next
<1>2. ASSUME NEW d \in Ids, NEW v \in Values, Replace(d, v) PROVE Table!Next
  <2>1. Table!Write(d, v)
    BY <1>2, StoreWrites DEF Replace
  <2>2. Opened.docs[d] # None
    BY <1>2 DEF Replace, Found, FetchedInv, IInv, CurrentInv
  <2>3. Table!Replace(d, v)
    BY <2>1, <2>2 DEF Table!Replace
  <2> QED BY <2>3 DEF Table!Next
<1>3. ASSUME NEW d \in Ids, Remove(d) PROVE Table!Next
  BY <1>3, RemoveRemoves DEF Table!Next
<1>4. CASE Abort
  <2>1. Opened' = Committed /\ UNCHANGED <<Committed, Before, Shown>>
    BY <1>4 DEF Abort, FetchedInv, Before, previous
  <2> QED BY <2>1 DEF Table!Next, Table!Abort
<1>5. CASE CommitBlock
  BY <1>5, CommitCommits DEF Table!Next
<1>6. CASE FinishReplay
  BY <1>6, ReplayPublishes DEF Table!Next
<1>7. ASSUME UNCHANGED <<docs, orphans, lastDocs, lastOrphans, prevDocs, prevOrphans, prevMerk>>
      PROVE  UNCHANGED Table!vars
  <2>1. UNCHANGED <<Opened, Committed, Before, Shown>>
    BY <1>7 DEF FetchedInv, Before
  <2> QED BY <2>1 DEF Table!vars
<1>8. CASE \E op \in pending : Replay(op)
  BY <1>7, <1>8 DEF Replay, history
<1>9. CASE ReplayFails
  BY <1>7, <1>9 DEF ReplayFails, history, previous
<1>10. CASE UNCHANGED vars
  BY <1>7, <1>10 DEF vars, history, previous
<1> QED BY <1>1, <1>2, <1>3, <1>4, <1>5, <1>6, <1>8, <1>9, <1>10 DEF Next

LEMMA TableInit == Init => Table!Init
<1> SUFFICES ASSUME Init PROVE Table!Init
  OBVIOUS
<1>1. FetchedInv
  BY InitInv, Tables
<1>2. docs = NoDocuments /\ lastDocs = NoDocuments /\ prevDocs = NoDocuments
      /\ prevMerk = NoDocuments
      /\ orphans = {} /\ lastOrphans = {} /\ prevOrphans = {}
  BY DEF Init
<1> QED BY <1>1, <1>2 DEF FetchedInv, Before, NoDocuments, Table!Init, Table!Nothing

\* Store, overlay, index, session and replay behave as one table of documents
\* with unique values: a transition is judged by what the ones before it left,
\* and queries go from one version to the next, exactly one block behind.
THEOREM Refinement == Spec => ImplementsTable
<1>1. IInv /\ IInv' /\ FetchedInv /\ FetchedInv' /\ [Next]_vars => [Table!Next]_Table!vars
  BY TableStep
<1> QED BY InductiveInv, Tables, TableInit, <1>1, PTL DEF Spec, ImplementsTable, Table!Spec

=============================================================================
