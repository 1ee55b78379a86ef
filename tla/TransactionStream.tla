-------------------------- MODULE TransactionStream --------------------------
(***************************************************************************)
(* One call of subscribeToTransactionsWithProofs (packages/dapi): the      *)
(* handler sends the matching transactions of past blocks, then those of   *)
(* the mempool, while ZMQ messages of new transactions, blocks and instant *)
(* locks fill a TransactionHashesCache, which a loop empties afterwards.   *)
(*                                                                         *)
(* Core is external: its RPC shows the chain and the mempool at once, its  *)
(* ZMQ messages come later.  It publishes a transaction when it accepts it *)
(* and, depending on the node, again before the block that has it.  Only   *)
(* transactions that match the call's filter are modelled, so a block is   *)
(* the set of its matching ones; blocks stay on the chain.                 *)
(***************************************************************************)
EXTENDS Integers, Sequences, FiniteSets

CONSTANTS
  Txs,        \* the transactions that match the filter
  Lockable,   \* those that get an instant lock
  CacheSize,  \* cacheSize, 10 in the code
  Keep,       \* BLOCKS_TO_STAY_IN_INSTANT_LOCK_CACHE
  Counts,     \* bound: the counts asked for
  MaxBlocks,  \* bound: the last block
  MaxFlight   \* bound: messages on their way

ASSUME StreamAssumption ==
  /\ IsFiniteSet(Txs) /\ Lockable \subseteq Txs
  /\ CacheSize \in Nat \ {0} /\ Keep \in Nat /\ MaxBlocks \in Nat \ {0}
  /\ Counts \subseteq 0 .. MaxBlocks /\ MaxFlight \in Nat

Heights == 1 .. MaxBlocks
IsOldest(h, S) == h \in S /\ \A b \in S : h <= b
Absent == -1

Event == [kind : {"tx", "lock"}, tx : Txs] \cup [kind : {"block"}, height : Heights]

\* TransactionHashesCache.  A block is named by its height, in which they come, its
\* merkle block goes with it; "fresh" and "unsent" are the transactions and merkle
\* blocks not retrieved yet, "flags" the transactions a merkle block is about.
Cache == [transactions : SUBSET Txs, fresh : SUBSET Txs,
          blocks : SUBSET Heights, unsent : SUBSET Heights,
          flags : [Heights -> SUBSET Txs],
          waiting : [Txs -> Nat \cup {Absent}], processed : Nat, locks : SUBSET Txs]

EmptyCache == [transactions |-> {}, fresh |-> {},
               blocks |-> {}, unsent |-> {},
               flags |-> [h \in Heights |-> {}],
               waiting |-> [t \in Txs |-> Absent], processed |-> 0, locks |-> {}]

VARIABLES
  chain, height,  \* Core's blocks up to height
  accepted,       \* transactions Core has accepted, mined or not
  locked,         \* transactions whose lock Core has published
  quiet,          \* mined without being published once more
  zmq,            \* messages on their way to DAPI
  pc,             \* what the handler is at
  from, last,     \* the blocks its history consists of
  next,           \* the one it has come to
  count,          \* the request's count: 0 asks for new transactions
  memPool,        \* the transactions of the mempool it read
  listed,         \* the call's emitter is in the collection of filters
  attached,       \* the listener for a cancelled call is
  cancelled,      \* the client has gone
  cache,          \* transactionsAndBlocksCache
  sent,           \* what the client was sent
  old,            \* ghost: the mempool when the call came
  seen, heard,    \* ghosts: transactions and awaited locks that reached the cache,
                  \* without the locks given up since
  dropped         \* ghost: blocks shifted out with something unsent

core == <<chain, height, accepted, locked, quiet>>
call == <<pc, from, last, next, count, memPool, attached, cancelled, old>>
ghosts == <<seen, heard, dropped>>
vars == <<core, zmq, call, listed, cache, sent, ghosts>>

Steps == {"idle", "range", "history", "proof", "memPool", "live", "ended", "failed", "over"}

Sent == [txs : SUBSET Txs, proofs : [Heights -> SUBSET Txs], locks : [Txs -> Nat]]

TypeOK ==
  /\ chain \in [Heights -> SUBSET Txs] /\ height \in 0 .. MaxBlocks
  /\ accepted \subseteq Txs /\ locked \subseteq Txs /\ quiet \subseteq Txs
  /\ zmq \in Seq(Event)
  /\ pc \in Steps /\ from \in 0 .. MaxBlocks /\ last \in 0 .. MaxBlocks
  /\ next \in 0 .. MaxBlocks + 1
  /\ count \in Counts \cup {0} /\ memPool \subseteq Txs
  /\ listed \in BOOLEAN /\ attached \in BOOLEAN /\ cancelled \in BOOLEAN
  /\ cache \in Cache /\ sent \in Sent
  /\ old \subseteq Txs /\ seen \subseteq Txs /\ heard \subseteq Txs /\ dropped \subseteq Heights

Init ==
  /\ chain = [h \in Heights |-> {}] /\ height = 0
  /\ accepted = {} /\ locked = {} /\ quiet = {} /\ zmq = << >>
  /\ pc = "idle" /\ from = 0 /\ last = 0 /\ next = 0 /\ count = 0 /\ memPool = {}
  /\ listed = FALSE /\ attached = FALSE /\ cancelled = FALSE
  /\ cache = EmptyCache
  /\ sent = [txs |-> {}, proofs |-> [h \in Heights |-> {}], locks |-> [t \in Txs |-> 0]]
  /\ old = {} /\ seen = {} /\ heard = {} /\ dropped = {}

Mined == UNION {chain[h] : h \in Heights}
InMemPool == accepted \ Mined

-----------------------------------------------------------------------------
(* The cache *)

\* addTransaction, for each of S
AddTransactions(c, S) ==
  [transactions |-> c.transactions \cup S, fresh |-> c.fresh \cup (S \ c.transactions),
   blocks |-> c.blocks, unsent |-> c.unsent, flags |-> c.flags,
   waiting |-> [t \in Txs |-> IF t \in S /\ c.waiting[t] = Absent THEN c.processed
                              ELSE c.waiting[t]],
   processed |-> c.processed, locks |-> c.locks]

\* Faulty: the merkle block stays.
RemoveDataKeepsProof(c, h) ==
  [c EXCEPT !.transactions = @ \ chain[h], !.fresh = @ \ chain[h], !.blocks = @ \ {h}]

RemoveDataByBlock(c, h) ==
  [transactions |-> c.transactions \ chain[h], fresh |-> c.fresh \ chain[h],
   blocks |-> c.blocks \ {h}, unsent |-> c.unsent \ {h}, flags |-> c.flags,
   waiting |-> c.waiting, processed |-> c.processed, locks |-> c.locks]

\* Faulty: a block that was sent clears the cache.
RemoveDataOfAll(c, h) == [c EXCEPT !.transactions = {}, !.fresh = {}]

RemoveDataByBlockHash(c, h) == IF h \in c.blocks THEN RemoveDataByBlock(c, h) ELSE c

\* A block counts for the locks that are waited for, which are given up later.
AgeLocks(c) ==
  [t \in Txs |-> IF c.waiting[t] < c.processed + 1 - Keep THEN Absent ELSE c.waiting[t]]

\* The block and its merkle block are kept if the cache has one of its transactions.
PutBlock(c, h) ==
  LET included == chain[h] \cap c.transactions
      kept == IF included = {} THEN {} ELSE {h}
  IN  [transactions |-> c.transactions, fresh |-> c.fresh,
       blocks |-> c.blocks \cup kept, unsent |-> c.unsent \cup kept,
       flags |-> [g \in Heights |-> IF g \in kept THEN included ELSE c.flags[g]],
       waiting |-> AgeLocks(c), processed |-> c.processed + 1, locks |-> c.locks]

\* The block that has to go, if there is one too many.
Shifted(c) == {h \in c.blocks : Cardinality(c.blocks) > CacheSize /\ IsOldest(h, c.blocks)}

\* A block more than there is room for shifts the first one out.
MakeRoom(c) ==
  IF Shifted(c) = {} THEN c ELSE RemoveDataByBlock(c, CHOOSE b \in Shifted(c) : TRUE)

\* addInstantLock
CollectLock(c, t) ==
  [transactions |-> c.transactions, fresh |-> c.fresh, blocks |-> c.blocks,
   unsent |-> c.unsent, flags |-> c.flags, waiting |-> c.waiting,
   processed |-> c.processed, locks |-> c.locks \cup {t}]

\* removeTransactionHashFromInstantSendLockWaitingList
RemoveLock(c, t) ==
  [transactions |-> c.transactions, fresh |-> c.fresh, blocks |-> c.blocks,
   unsent |-> c.unsent, flags |-> c.flags, waiting |-> [c.waiting EXCEPT ![t] = Absent],
   processed |-> c.processed, locks |-> c.locks]

\* Faulty: the locks stay for the next round.
RetrievedKeepsLocks(c) == [c EXCEPT !.fresh = {}, !.unsent = {}]

\* One round of the loop: what was not retrieved is sent.
Retrieved(c) ==
  [transactions |-> c.transactions, fresh |-> {}, blocks |-> c.blocks, unsent |-> {},
   flags |-> c.flags, waiting |-> c.waiting, processed |-> c.processed, locks |-> {}]

SendUnretrieved(c) ==
  [txs |-> sent.txs \cup c.fresh,
   proofs |-> [h \in Heights |->
                 IF h \in c.unsent THEN sent.proofs[h] \cup c.flags[h] ELSE sent.proofs[h]],
   locks |-> [t \in Txs |->
                IF t \in c.locks /\ c.waiting[t] # Absent THEN sent.locks[t] + 1
                ELSE sent.locks[t]]]

-----------------------------------------------------------------------------
(* Core *)

\* The order of a block's transactions; any will do.
InOrder(S) == CHOOSE o \in [1 .. Cardinality(S) -> S] : \A t \in S : \E i \in DOMAIN o : o[i] = t

Publish(events) == zmq' = zmq \o events /\ Len(zmq') <= MaxFlight

Accept(t) ==
  /\ t \notin accepted
  /\ accepted' = accepted \cup {t}
  /\ Publish(<<[kind |-> "tx", tx |-> t]>>)
  /\ UNCHANGED <<chain, height, locked, quiet, call, listed, cache, sent, ghosts>>

\* A block takes transactions from the mempool; "again" publishes them before it.
Mine(S, again) ==
  /\ height < MaxBlocks
  /\ height' = height + 1
  /\ chain' = [chain EXCEPT ![height + 1] = S]
  /\ quiet' = IF again THEN quiet ELSE quiet \cup S
  /\ LET block == <<[kind |-> "block", height |-> height + 1]>>
     IN  IF again
         THEN Publish([i \in 1 .. Cardinality(S) |-> [kind |-> "tx", tx |-> InOrder(S)[i]]] \o block)
         ELSE Publish(block)
  /\ UNCHANGED <<accepted, locked, call, listed, cache, sent, ghosts>>

LockInstantly(t) ==
  /\ t \in (accepted \cap Lockable) \ locked
  /\ locked' = locked \cup {t}
  /\ Publish(<<[kind |-> "lock", tx |-> t]>>)
  /\ UNCHANGED <<chain, height, accepted, quiet, call, listed, cache, sent, ghosts>>

-----------------------------------------------------------------------------
(* The listeners of the emitter *)

\* 'match'
Match(t) ==
  /\ cache' = AddTransactions(cache, {t})
  /\ seen' = seen \cup {t}
  /\ UNCHANGED <<sent, heard, dropped>>

\* 'block': the transactions are tested only while the cache has no block.
ReceiveBlock(h) ==
  LET tested == IF cache.blocks = {} THEN chain[h] ELSE {}
  IN  /\ \E known \in {AddTransactions(cache, tested)} : \E put \in {PutBlock(known, h)} :
           /\ cache' = MakeRoom(put)
           /\ dropped' = dropped \cup
                {b \in Shifted(put) : b \in put.unsent \/ chain[b] \cap put.fresh # {}}
           /\ heard' = {t \in heard : sent.locks[t] > 0 \/ put.waiting[t] # Absent}
      /\ seen' = seen \cup tested
      /\ UNCHANGED sent

\* 'instantLock': collected first, and sent at once when the loop runs.
ReceiveLock(t) ==
  /\ heard' = IF cache.waiting[t] # Absent THEN heard \cup {t} ELSE heard
  /\ IF ~attached
     THEN cache' = CollectLock(cache, t) /\ sent' = sent
     ELSE IF cache.waiting[t] # Absent
          THEN /\ cache' = RemoveLock(cache, t)
               /\ sent' = [txs |-> sent.txs, proofs |-> sent.proofs,
                           locks |-> [sent.locks EXCEPT ![t] = @ + 1]]
          ELSE UNCHANGED <<cache, sent>>
  /\ UNCHANGED <<seen, dropped>>

\* A message reaches the emitters in the collection.
Deliver ==
  /\ zmq # << >> /\ zmq' = Tail(zmq)
  /\ LET e == Head(zmq)
     IN  \/ ~listed /\ UNCHANGED <<cache, sent, ghosts>>
         \/ listed /\ e.kind = "tx" /\ Match(e.tx)
         \/ listed /\ e.kind = "block" /\ ReceiveBlock(e.height)
         \/ listed /\ e.kind = "lock" /\ ReceiveLock(e.tx)
  /\ UNCHANGED <<core, call, listed>>

\* Another call tests the mempool it has read against every filter.
OtherCallTests(t) ==
  /\ listed /\ t \in accepted
  /\ Match(t)
  /\ UNCHANGED <<core, zmq, call, listed>>

-----------------------------------------------------------------------------
(* The handler *)

\* Faulty: the condition is inverted.
SubscribeInverted(f, n) ==
  /\ pc = "idle"
  /\ pc' = "range" /\ from' = f /\ next' = f /\ count' = n
  /\ listed' = (n > 0) /\ old' = InMemPool
  /\ UNCHANGED <<core, zmq, last, memPool, attached, cancelled, cache, sent, ghosts>>

\* New transactions are subscribed to before anything is awaited.
Subscribe(f, n) ==
  /\ pc = "idle"
  /\ pc' = "range" /\ from' = f /\ next' = f /\ count' = n
  /\ listed' = (n = 0) /\ old' = InMemPool
  /\ UNCHANGED <<core, zmq, last, memPool, attached, cancelled, cache, sent, ghosts>>

\* The handler's variables go with it.
Return == from' = 0 /\ last' = 0 /\ next' = 0 /\ count' = 0 /\ memPool' = {} /\ old' = {}

\* getBestBlockHeight
ReadRange ==
  /\ pc = "range" /\ from <= height
  /\ pc' = "history"
  /\ last' = IF count = 0 \/ from + count > height + 1 THEN height ELSE from + count - 1
  /\ UNCHANGED <<core, zmq, from, next, count, memPool, listed, attached, cancelled, cache, sent,
                 old, ghosts>>

\* Core does not have the first block: NotFoundGrpcError
BlockMissing ==
  /\ pc = "range" /\ from > height
  /\ pc' = "failed" /\ Return
  /\ UNCHANGED <<core, zmq, listed, attached, cancelled, cache, sent, ghosts>>

\* The blocks of the history with matching transactions, that are still to be sent.
Ahead == {h \in next .. last : chain[h] # {}}

SendTransactions ==
  /\ pc = "history" /\ pc' = "proof"
  /\ \E h \in Heights :
       /\ IsOldest(h, Ahead)
       /\ next' = h
       /\ sent' = [txs |-> sent.txs \cup chain[h], proofs |-> sent.proofs, locks |-> sent.locks]
  /\ UNCHANGED <<core, zmq, from, last, count, memPool, listed, attached, cancelled, cache, old,
                 ghosts>>

\* Its merkle block, then HISTORICAL_BLOCK_SENT
SendProof ==
  /\ pc = "proof"
  /\ pc' = "history" /\ next' = next + 1
  /\ sent' = [txs |-> sent.txs, proofs |-> [sent.proofs EXCEPT ![next] = chain[next]],
              locks |-> sent.locks]
  /\ cache' = IF count = 0 THEN RemoveDataByBlockHash(cache, next) ELSE cache
  /\ UNCHANGED <<core, zmq, from, last, count, memPool, listed, attached, cancelled, old, ghosts>>

\* getMemPoolTransactions
ReadMemPool ==
  /\ pc = "history" /\ Ahead = {} /\ count = 0
  /\ pc' = "memPool" /\ memPool' = InMemPool
  /\ UNCHANGED <<core, zmq, from, last, next, count, listed, attached, cancelled, cache, sent, old,
                 ghosts>>

\* The mempool is tested, MEMPOOL_DATA_SENT starts the loop, and the listener for
\* a cancelled call is attached: nothing is awaited in between.
TestMemPool ==
  /\ pc = "memPool"
  /\ pc' = "live" /\ attached' = TRUE
  /\ seen' = seen \cup memPool /\ memPool' = {} /\ next' = 0
  /\ LET tested == AddTransactions(cache, memPool)
     IN  sent' = SendUnretrieved(tested) /\ cache' = Retrieved(tested)
  /\ UNCHANGED <<core, zmq, from, last, count, listed, cancelled, old, heard, dropped>>

\* Only history was asked for: the call ends.
EndCall ==
  /\ pc = "history" /\ Ahead = {} /\ count > 0
  /\ pc' = "ended" /\ attached' = TRUE /\ Return
  /\ UNCHANGED <<core, zmq, listed, cancelled, cache, sent, ghosts>>

\* Faulty: the loop ends with the first round that finds no transaction.
RoundStops ==
  /\ pc = "live"
  /\ sent' = SendUnretrieved(cache) /\ cache' = Retrieved(cache)
  /\ pc' = IF cache.fresh = {} THEN "ended" ELSE "live"
  /\ UNCHANGED <<core, zmq, from, last, next, count, memPool, attached, cancelled, old, listed,
                 ghosts>>

\* A round of the loop; it runs until the client's listener has fired.
Round ==
  /\ pc = "live"
  /\ sent' = SendUnretrieved(cache) /\ cache' = Retrieved(cache)
  /\ UNCHANGED <<core, zmq, call, listed, ghosts>>

\* The client leaves: 'cancelled' comes once.
Cancel ==
  /\ pc # "idle" /\ ~cancelled
  /\ cancelled' = TRUE
  /\ IF attached THEN pc' = "over" /\ listed' = FALSE ELSE UNCHANGED <<pc, listed>>
  /\ UNCHANGED <<core, zmq, from, last, next, count, memPool, attached, cache, sent, old, ghosts>>

\* A call to Core or a write is rejected: the call is destroyed.
Fail ==
  /\ pc \in {"range", "history", "proof", "memPool"}
  /\ pc' = "failed" /\ Return
  /\ UNCHANGED <<core, zmq, listed, attached, cancelled, cache, sent, ghosts>>

-----------------------------------------------------------------------------
\* Bound: Core rests when the call is over; what is on its way still arrives.
CoreSteps ==
  /\ pc \notin {"ended", "failed", "over"}
  /\ \/ \E t \in Txs : Accept(t) \/ LockInstantly(t)
     \/ \E S \in SUBSET InMemPool, again \in BOOLEAN : Mine(S, again)

Handler ==
  \/ ReadRange \/ BlockMissing \/ SendTransactions \/ SendProof
  \/ ReadMemPool \/ TestMemPool \/ EndCall

Next ==
  \/ CoreSteps \/ Deliver \/ Handler \/ Round \/ Cancel \/ Fail
  \/ \E f \in Heights, n \in Counts : Subscribe(f, n)
  \/ \E t \in Txs : OtherCallTests(t)

\* Messages arrive and awaited calls return; the loop's timer fires.  Neither Core
\* nor the client has to do anything.
FairSpec ==
  /\ Init /\ [][Next]_vars
  /\ WF_vars(Deliver) /\ WF_vars(Handler) /\ WF_vars(Round)

Spec == Init /\ [][Next]_vars

-----------------------------------------------------------------------------
\* A proof reaches the client after the transactions it is about, whether history
\* or the loop sends it.
ProofAfterTransactions == \A h \in Heights : sent.proofs[h] \subseteq sent.txs

\* Gone with a block that was shifted out
Gone(t) == \E h \in dropped : t \in chain[h]

\* What reached the cache is sent, or waits to be sent, or went with a block that
\* was shifted out by too many others (TransactionHashesCache.addBlock).
NothingSeenIsLost ==
  \A t \in seen : t \in sent.txs \/ t \in cache.fresh \/ Gone(t)

\* The loop has sent all there is.
CaughtUp == pc = "live" /\ zmq = << >> /\ cache.fresh = {} /\ cache.unsent = {}

\* A client that has caught up knows the mempool, and the blocks from the requested
\* one on with their proofs: no gap between history, mempool and messages.  The
\* gap there may be: a transaction of the mempool when the call came, mined after
\* the end of the history was read, that Core does not publish again.
NoGapWhenCaughtUp ==
  CaughtUp =>
    /\ InMemPool \subseteq sent.txs
    /\ \A h \in from .. height : \A t \in chain[h] :
         \/ t \in sent.txs /\ t \in sent.proofs[h]
         \/ h \in dropped
         \/ t \in quiet /\ t \in old /\ h > last

\* A lock that comes while its transaction is waited for is sent exactly once.
LockSentOnce ==
  \A t \in Txs :
    /\ sent.locks[t] <= 1
    /\ t \in heard => sent.locks[t] = 1 \/ t \in cache.locks

\* Once the listener for a cancelled call has fired, nothing is sent or stored.
SilentAfterCancel == [][pc = "over" => UNCHANGED <<sent, cache>>]_vars

\* Whatever waits in the cache of a call is sent in the end, unless the call is
\* over: history and mempool come to their ends, and the loop goes on.
PendingGetsSent ==
  (cache.fresh # {} \/ cache.unsent # {} \/ cache.locks # {})
    ~> (\/ cache.fresh = {} /\ cache.unsent = {} /\ cache.locks = {}
        \/ pc \in {"failed", "over"})
=============================================================================
