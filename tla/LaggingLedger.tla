---------------------------- MODULE LaggingLedger ----------------------------
(***************************************************************************)
(* What Drive's block execution promises, with stores, files, contexts and *)
(* transactions taken away: a durable height that moves one block at a     *)
(* time, and a published state that follows behind it, block after block.  *)
(* The only blocks the height passes without committing them were reported *)
(* as committed, and the only others the published state may miss for good *)
(* are those a failure has declared forgotten: the newest of them.         *)
(***************************************************************************)
EXTENDS Integers

CONSTANT MaxHeight   \* bound: blocks of a behaviour

VARIABLES
  height,      \* the last committed block
  published,   \* the blocks in the state that queries and proofs read
  skipped,     \* the blocks reported without having been committed
  forgotten    \* the blocks given up by a failure

vars == <<height, published, skipped, forgotten>>

Init == height = 0 /\ published = {} /\ skipped = {} /\ forgotten = {}

\* The block in progress: it follows the last one committed or skipped.
InProgress(h) == height < h /\ \A g \in height + 1 .. h - 1 : g \in skipped

Commit(h) ==
  /\ InProgress(h)
  /\ height' = h
  /\ UNCHANGED <<published, skipped, forgotten>>

Skip(h) ==
  /\ InProgress(h)
  /\ skipped' = skipped \cup {h}
  /\ UNCHANGED <<height, published, forgotten>>

\* A block is published behind the height and after all the blocks before it.
Publish(h) ==
  /\ h < height
  /\ \A g \in 1 .. h - 1 : g \in published \cup skipped \cup forgotten
  /\ published' = published \cup {h}
  /\ UNCHANGED <<height, skipped, forgotten>>

\* A failure can give up the block just committed and the one in progress.
Forget(h) ==
  /\ h = height \/ InProgress(h)
  /\ \E blocks \in SUBSET ({height, h} \cap (1 .. MaxHeight)) :
       forgotten' = forgotten \cup blocks
  /\ UNCHANGED <<height, published, skipped>>

Next ==
  \/ \E h \in 1 .. MaxHeight : Commit(h) \/ Skip(h) \/ Publish(h)
  \/ \E h \in 0 .. MaxHeight : Forget(h)

Spec == Init /\ [][Next]_vars

=============================================================================
