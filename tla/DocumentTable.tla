---------------------------- MODULE DocumentTable ----------------------------
(***************************************************************************)
(* What Drive's documents are to a user, with stores, overlays, indices    *)
(* and sessions taken away: one table with a unique value.  Transitions    *)
(* change the open version, commits make it the committed one, and queries *)
(* are shown the version before that.  The only documents a query may find *)
(* wrongly are ghosts, removed in the block that created them.             *)
(***************************************************************************)
CONSTANTS Ids, Values, None

VARIABLES
  open,       \* the version transitions see and change
  committed,  \* the version of the last block
  behind,     \* that of the block before
  shown       \* what queries find

vars == <<open, committed, behind, shown>>

Documents == [Ids -> Values \cup {None}]
Nothing == [docs |-> [d \in Ids |-> None], ghosts |-> {}]

Init ==
  /\ open = Nothing /\ committed = Nothing /\ behind = Nothing
  /\ shown = Nothing.docs

\* No other document has the value.
Free(d, v) == \A e \in Ids \ {d} : open.docs[e] # v

Write(d, v) ==
  /\ Free(d, v)
  /\ open' = [docs |-> [open.docs EXCEPT ![d] = v], ghosts |-> open.ghosts \ {d}]
  /\ UNCHANGED <<committed, behind, shown>>

Create(d, v) == open.docs[d] = None /\ Write(d, v)
Replace(d, v) == open.docs[d] # None /\ Write(d, v)

Remove(d) ==
  /\ open.docs[d] # None
  /\ \E ghosts \in {open.ghosts \ {d}, open.ghosts \cup {d}} :
       /\ d \in ghosts => committed.docs[d] = None
       /\ open' = [docs |-> [open.docs EXCEPT ![d] = None], ghosts |-> ghosts]
  /\ UNCHANGED <<committed, behind, shown>>

Abort == open' = committed /\ UNCHANGED <<committed, behind, shown>>

\* Queries are shown what they are due.
UpToDate == \A d \in Ids \ behind.ghosts : shown[d] = behind.docs[d]

\* A block is committed when the version before the last one is shown.
Commit ==
  /\ UpToDate
  /\ committed' = open /\ behind' = committed
  /\ UNCHANGED <<open, shown>>

Publish == shown' \in Documents /\ UpToDate' /\ UNCHANGED <<open, committed, behind>>

Next ==
  \/ \E d \in Ids, v \in Values : Create(d, v) \/ Replace(d, v)
  \/ \E d \in Ids : Remove(d)
  \/ Abort \/ Commit \/ Publish

Spec == Init /\ [][Next]_vars

=============================================================================
