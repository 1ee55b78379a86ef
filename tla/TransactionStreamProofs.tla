----------------------- MODULE TransactionStreamProofs -----------------------
(***************************************************************************)
(* Proofs about TransactionStream for every set of transactions, chain,    *)
(* cache size and filter count.  What the cache has without an entry to    *)
(* retrieve has been sent; a merkle block in it is about transactions that *)
(* were sent or will be sent with it; and an instant lock is on its way,   *)
(* in the cache or with the client, at one of the three only.              *)
(* Then, by a second invariant, a client that has caught up is missing no  *)
(* transaction of the mempool or of the chain, but those of a block that a *)
(* full cache dropped and those that Core had no reason to announce.       *)
(***************************************************************************)
EXTENDS TransactionStream, TLAPS, SequenceTheorems, FiniteSetTheorems

\* Blocks stay where they are and share no transaction.
ChainInv ==
  /\ \A h \in Heights : height < h => chain[h] = {}
  /\ \A g, h \in Heights : g # h => chain[g] \cap chain[h] = {}

\* The handler and its history.
HandlerInv ==
  /\ pc \in {"range", "history", "proof"} => from \in Heights /\ 1 <= next
  /\ pc \in {"history", "proof"} => last <= height
  /\ pc = "proof" => next \in Heights /\ next <= height /\ chain[next] \subseteq sent.txs
  /\ pc = "over" => ~listed

\* What the cache has and has not sent.
CacheInv ==
  /\ \A t \in cache.transactions : t \in cache.fresh \/ t \in sent.txs
  /\ \A h \in cache.unsent : /\ cache.flags[h] \subseteq chain[h]
                             /\ \A t \in cache.flags[h] : t \in cache.fresh \/ t \in sent.txs

IsLock(e, t) == e.kind = "lock" /\ e.tx = t

\* Where an instant lock is: on its way once, ...
FlightInv ==
  \A t \in Txs : \A i \in DOMAIN zmq : IsLock(zmq[i], t) =>
    /\ t \in locked /\ t \notin cache.locks /\ sent.locks[t] = 0
    /\ \A k \in DOMAIN zmq : IsLock(zmq[k], t) => i = k

\* ... collected, or sent.
ClientLocks ==
  /\ \A t \in cache.locks : t \in locked /\ sent.locks[t] = 0
  /\ \A t \in Txs : sent.locks[t] <= 1 /\ (sent.locks[t] # 0 => t \in locked)
  /\ \A t \in heard : sent.locks[t] = 1 \/ (t \in cache.locks /\ cache.waiting[t] # Absent)

\* The parts about what the client gets.
DataInv ==
  /\ cache \in Cache /\ sent \in Sent
  /\ seen \subseteq Txs /\ heard \subseteq Txs /\ dropped \subseteq Heights
  /\ CacheInv /\ ProofAfterTransactions /\ NothingSeenIsLost /\ ClientLocks

IInv == TypeOK /\ ChainInv /\ HandlerInv /\ FlightInv /\ DataInv

USE StreamAssumption DEF Heights, Absent

LEMMA SentFields ==
  ASSUME NEW x \in Sent
  PROVE  /\ x.txs \subseteq Txs /\ x.proofs \in [Heights -> SUBSET Txs]
         /\ x.locks \in [Txs -> Nat]
  BY DEF Sent

-----------------------------------------------------------------------------
(* Lemmas about the cache *)

LEMMA CacheFields ==
  ASSUME NEW c \in Cache
  PROVE  /\ c.transactions \subseteq Txs /\ c.fresh \subseteq Txs
         /\ c.blocks \subseteq Heights /\ c.unsent \subseteq Heights
         /\ c.flags \in [Heights -> SUBSET Txs]
         /\ c.waiting \in [Txs -> Nat \cup {Absent}] /\ c.processed \in Nat
         /\ c.locks \subseteq Txs
  BY DEF Cache

\* addTransaction
LEMMA Added ==
  ASSUME NEW c \in Cache, NEW S \in SUBSET Txs
  PROVE  LET a == AddTransactions(c, S) IN
         /\ a \in Cache
         /\ a.transactions = c.transactions \cup S
         /\ a.fresh = c.fresh \cup (S \ c.transactions)
         /\ a.blocks = c.blocks /\ a.unsent = c.unsent /\ a.flags = c.flags
         /\ a.locks = c.locks
         /\ \A t \in Txs : c.waiting[t] # Absent => a.waiting[t] # Absent
<1> DEFINE w == [t \in Txs |-> IF t \in S /\ c.waiting[t] = Absent THEN c.processed
                               ELSE c.waiting[t]]
<1>1. AddTransactions(c, S) =
        [transactions |-> c.transactions \cup S, fresh |-> c.fresh \cup (S \ c.transactions),
         blocks |-> c.blocks, unsent |-> c.unsent,
         flags |-> c.flags, waiting |-> w, processed |-> c.processed, locks |-> c.locks]
  BY DEF AddTransactions
<1>2. w \in [Txs -> Nat \cup {Absent}] /\ \A t \in Txs : c.waiting[t] # Absent => w[t] # Absent
  BY CacheFields
<1> HIDE DEF w
<1>3. AddTransactions(c, S) \in Cache
  BY <1>1, <1>2, CacheFields DEF Cache
<1> QED BY <1>1, <1>2, <1>3

\* removeDataByBlock
LEMMA Removed ==
  ASSUME NEW c \in Cache, NEW h \in Heights
  PROVE  LET a == RemoveDataByBlock(c, h) IN
         /\ a \in Cache
         /\ a.transactions = c.transactions \ chain[h] /\ a.fresh = c.fresh \ chain[h]
         /\ a.blocks = c.blocks \ {h} /\ a.unsent = c.unsent \ {h} /\ a.flags = c.flags
         /\ a.locks = c.locks /\ a.waiting = c.waiting
<1>1. RemoveDataByBlock(c, h) \in Cache
  BY CacheFields DEF RemoveDataByBlock, Cache
<1> QED BY <1>1 DEF RemoveDataByBlock

\* addBlock, before it makes room
LEMMA BlockPut ==
  ASSUME NEW c \in Cache, NEW h \in Heights
  PROVE  LET a == PutBlock(c, h) IN
         /\ a \in Cache
         /\ a.transactions = c.transactions /\ a.fresh = c.fresh
         /\ a.waiting = AgeLocks(c) /\ a.locks = c.locks
         /\ a.blocks \subseteq c.blocks \cup {h} /\ c.unsent \subseteq a.unsent
         /\ \A g \in Heights : g # h => a.flags[g] = c.flags[g]
         /\ chain[h] \cap c.transactions # {} =>
              h \in a.unsent /\ a.flags[h] = chain[h] \cap c.transactions
         /\ \A g \in a.unsent :
              \/ g \in c.unsent /\ a.flags[g] = c.flags[g]
              \/ g = h /\ a.flags[g] = chain[h] \cap c.transactions
<1> DEFINE included == chain[h] \cap c.transactions
           kept == IF included = {} THEN {} ELSE {h}
           f == [g \in Heights |-> IF g \in kept THEN included ELSE c.flags[g]]
<1>1. PutBlock(c, h) =
        [transactions |-> c.transactions, fresh |-> c.fresh,
         blocks |-> c.blocks \cup kept, unsent |-> c.unsent \cup kept, flags |-> f,
         waiting |-> AgeLocks(c), processed |-> c.processed + 1, locks |-> c.locks]
  BY DEF PutBlock
<1>2. included \in SUBSET Txs /\ kept \in SUBSET {h} /\ (included # {} => h \in kept)
  BY CacheFields
<1>3. AgeLocks(c) \in [Txs -> Nat \cup {Absent}] /\ c.processed + 1 \in Nat
  BY CacheFields DEF AgeLocks
<1> HIDE DEF included, kept
<1>4. f \in [Heights -> SUBSET Txs]
  BY <1>2, CacheFields
<1>5. \A g \in c.unsent \cup kept :
        (g \in c.unsent /\ f[g] = c.flags[g]) \/ (g = h /\ f[g] = included)
  BY <1>2, CacheFields
<1>7. /\ \A g \in Heights : g # h => f[g] = c.flags[g]
      /\ included # {} => h \in kept /\ f[h] = included
  BY <1>2
<1> HIDE DEF f
<1>6. PutBlock(c, h) \in Cache
  <2>1. c.blocks \cup kept \subseteq Heights /\ c.unsent \cup kept \subseteq Heights
    BY <1>2, CacheFields
  <2>2. \A B, U : B \subseteq Heights /\ U \subseteq Heights =>
          [transactions |-> c.transactions, fresh |-> c.fresh, blocks |-> B, unsent |-> U,
           flags |-> f, waiting |-> AgeLocks(c), processed |-> c.processed + 1,
           locks |-> c.locks] \in Cache
    BY <1>3, <1>4, CacheFields DEF Cache
  <2> QED BY <1>1, <2>1, <2>2
<1> QED BY <1>1, <1>2, <1>5, <1>6, <1>7 DEF included

\* addBlock, when it makes room
LEMMA RoomMade ==
  ASSUME NEW c \in Cache
  PROVE  LET a == MakeRoom(c) IN
         /\ a \in Cache /\ a.waiting = c.waiting /\ a.locks = c.locks /\ a.flags = c.flags
         /\ a.blocks \subseteq c.blocks
         /\ \/ /\ a.transactions = c.transactions /\ a.fresh = c.fresh /\ a.unsent = c.unsent
            \/ \E b \in Shifted(c) :
                 /\ b \in Heights
                 /\ a.transactions = c.transactions \ chain[b]
                 /\ a.fresh = c.fresh \ chain[b] /\ a.unsent = c.unsent \ {b}
<1> DEFINE b == CHOOSE g \in Shifted(c) : TRUE
<1>1. CASE Shifted(c) = {}
  BY <1>1 DEF MakeRoom
<1>2. CASE Shifted(c) # {}
  <2>1. MakeRoom(c) = RemoveDataByBlock(c, b)
    BY <1>2 DEF MakeRoom
  <2>2. b \in Shifted(c)
    BY <1>2
  <2> HIDE DEF b
  <2>3. b \in Heights
    BY <2>2, CacheFields DEF Shifted
  <2> QED BY <2>1, <2>2, <2>3, Removed
<1> QED BY <1>1, <1>2

\* A round of the loop
LEMMA RoundRetrieves ==
  ASSUME NEW c \in Cache
  PROVE  LET a == Retrieved(c) IN
         /\ a \in Cache
         /\ a.transactions = c.transactions /\ a.fresh = {} /\ a.unsent = {} /\ a.locks = {}
         /\ a.blocks = c.blocks
         /\ a.waiting = c.waiting /\ a.flags = c.flags
<1>1. Retrieved(c) \in Cache
  BY CacheFields DEF Retrieved, Cache
<1> QED BY <1>1 DEF Retrieved
-----------------------------------------------------------------------------
(* Initial states *)

LEMMA InitIInv == Init => IInv
<1> SUFFICES ASSUME Init PROVE IInv
  OBVIOUS
<1>1. cache \in Cache /\ sent \in Sent
  BY DEF Init, EmptyCache, Cache, Sent
<1>2. TypeOK
  <2>1. listed \in BOOLEAN /\ attached \in BOOLEAN /\ cancelled \in BOOLEAN
    BY Zenon DEF Init
  <2>2. zmq \in Seq(Event)
    BY DEF Init
  <2> QED BY <1>1, <2>1, <2>2 DEF Init, TypeOK, Steps
<1>3. ChainInv /\ HandlerInv /\ FlightInv
  BY DEF Init, ChainInv, HandlerInv, FlightInv
<1>4. CacheInv /\ ProofAfterTransactions /\ NothingSeenIsLost /\ ClientLocks
  BY DEF Init, EmptyCache, CacheInv, ProofAfterTransactions, NothingSeenIsLost, ClientLocks
<1>5. seen \subseteq Txs /\ heard \subseteq Txs /\ dropped \subseteq Heights
  BY DEF Init
<1> QED BY <1>1, <1>2, <1>3, <1>4, <1>5 DEF IInv, DataInv

-----------------------------------------------------------------------------
(* Core *)

\* Messages without a lock
LEMMA Published ==
  ASSUME IInv, NEW es \in Seq(Event), \A k \in DOMAIN es : es[k].kind # "lock",
         zmq' = zmq \o es, UNCHANGED <<locked, cache, sent>>
  PROVE  zmq' \in Seq(Event) /\ FlightInv'
<1>1. zmq \in Seq(Event)
  BY DEF IInv, TypeOK
<1>2. /\ zmq' \in Seq(Event)
      /\ \A i \in DOMAIN zmq' : \/ i \in DOMAIN zmq /\ zmq'[i] = zmq[i]
                                \/ \E k \in DOMAIN es : zmq'[i] = es[k]
  <2>1. zmq' \in Seq(Event) /\ Len(zmq') = Len(zmq) + Len(es)
    BY <1>1, ConcatProperties
  <2>2. \A i \in 1 .. Len(zmq) + Len(es) :
          zmq'[i] = IF i <= Len(zmq) THEN zmq[i] ELSE es[i - Len(zmq)]
    BY <1>1, ConcatProperties
  <2>3. /\ DOMAIN zmq = 1 .. Len(zmq) /\ DOMAIN es = 1 .. Len(es)
        /\ DOMAIN zmq' = 1 .. Len(zmq')
        /\ Len(zmq) \in Nat /\ Len(es) \in Nat
    BY <1>1, <2>1, LenProperties
  <2>4. ASSUME NEW i \in DOMAIN zmq'
        PROVE  \/ i \in DOMAIN zmq /\ zmq'[i] = zmq[i]
               \/ \E k \in DOMAIN es : zmq'[i] = es[k]
    <3>1. CASE i <= Len(zmq)
      BY <2>1, <2>2, <2>3, <3>1
    <3>2. CASE ~(i <= Len(zmq))
      <4>1. i - Len(zmq) \in DOMAIN es /\ zmq'[i] = es[i - Len(zmq)]
        BY <2>1, <2>2, <2>3, <3>2
      <4> QED BY <4>1
    <3> QED BY <3>1, <3>2
  <2> QED BY <2>1, <2>4
<1>3. \A t \in Txs : \A i \in DOMAIN zmq' : IsLock(zmq'[i], t) =>
        i \in DOMAIN zmq /\ IsLock(zmq[i], t)
  BY <1>2 DEF IsLock
<1>4. FlightInv'
  BY <1>3 DEF IInv, FlightInv
<1> QED BY <1>2, <1>4

LEMMA AcceptIInv == ASSUME IInv, NEW t \in Txs, Accept(t) PROVE IInv'
<1>1. /\ accepted' = accepted \cup {t}
      /\ zmq' = zmq \o <<[kind |-> "tx", tx |-> t]>>
      /\ UNCHANGED <<chain, height, locked, quiet, call, listed, cache, sent, ghosts>>
  BY DEF Accept, Publish
<1>2. /\ <<[kind |-> "tx", tx |-> t]>> \in Seq(Event)
      /\ \A k \in DOMAIN <<[kind |-> "tx", tx |-> t]>> :
           <<[kind |-> "tx", tx |-> t]>>[k].kind # "lock"
  <2>1. [kind |-> "tx", tx |-> t] \in Event
    BY DEF Event
  <2> QED BY <2>1
<1>3. zmq' \in Seq(Event) /\ FlightInv'
  BY <1>1, <1>2, Published
<1>4. TypeOK'
  BY <1>1, <1>3 DEF IInv, TypeOK, call, ghosts
<1>5. ChainInv' /\ HandlerInv'
  BY <1>1 DEF IInv, ChainInv, HandlerInv, call
<1>6. DataInv'
  BY <1>1 DEF IInv, DataInv, CacheInv, ProofAfterTransactions, NothingSeenIsLost, Gone,
       ClientLocks, ghosts
<1> QED BY <1>3, <1>4, <1>5, <1>6 DEF IInv

LEMMA LockInstantlyIInv == ASSUME IInv, NEW t \in Txs, LockInstantly(t) PROVE IInv'
<1> DEFINE e == [kind |-> "lock", tx |-> t]
<1>1. /\ t \notin locked /\ locked' = locked \cup {t}
      /\ zmq' = zmq \o <<e>>
      /\ UNCHANGED <<chain, height, accepted, quiet, call, listed, cache, sent, ghosts>>
  BY DEF LockInstantly, Publish
<1>2. e \in Event /\ \A u \in Txs : IsLock(e, u) => u = t
  BY DEF Event, IsLock
<1>3. zmq \in Seq(Event)
  BY DEF IInv, TypeOK
<1> HIDE DEF e
<1>4. /\ zmq' \in Seq(Event)
      /\ \A i \in DOMAIN zmq' : \/ i \in DOMAIN zmq /\ zmq'[i] = zmq[i]
                                \/ i = Len(zmq) + 1 /\ zmq'[i] = e
  <2>1. zmq' = Append(zmq, e)
    BY <1>1, <1>2, <1>3
  <2> QED BY <1>2, <1>3, <2>1
<1>5. ClientLocks'
  BY <1>1 DEF IInv, DataInv, ClientLocks, ghosts
<1>6. sent.locks[t] = 0 /\ t \notin cache.locks
  BY <1>1 DEF IInv, DataInv, ClientLocks
<1>7. FlightInv'
  <2> SUFFICES ASSUME NEW u \in Txs, NEW i \in DOMAIN zmq', IsLock(zmq'[i], u)
               PROVE  /\ u \in locked' /\ u \notin cache'.locks /\ sent'.locks[u] = 0
                      /\ \A k \in DOMAIN zmq' : IsLock(zmq'[k], u) => i = k
    BY DEF FlightInv
  <2>1. CASE u = t
    <3>1. \A k \in DOMAIN zmq : ~IsLock(zmq[k], t)
      BY <1>1 DEF IInv, FlightInv
    <3>2. \A k \in DOMAIN zmq' : IsLock(zmq'[k], u) => k = Len(zmq) + 1
      BY <1>4, <2>1, <3>1
    <3> QED BY <1>1, <1>6, <2>1, <3>2
  <2>2. CASE u # t
    <3>1. \A k \in DOMAIN zmq' : IsLock(zmq'[k], u) => k \in DOMAIN zmq /\ IsLock(zmq[k], u)
      BY <1>2, <1>4, <2>2
    <3> QED BY <1>1, <3>1 DEF IInv, FlightInv
  <2> QED BY <2>1, <2>2
<1>8. TypeOK'
  BY <1>1, <1>4 DEF IInv, TypeOK, call, ghosts
<1>9. ChainInv' /\ HandlerInv'
  BY <1>1 DEF IInv, ChainInv, HandlerInv, call
<1>10. DataInv'
  BY <1>1, <1>5 DEF IInv, DataInv, CacheInv, ProofAfterTransactions, NothingSeenIsLost, Gone,
       ghosts
<1> QED BY <1>7, <1>8, <1>9, <1>10 DEF IInv

\* The messages before a block are about its transactions.
LEMMA BlockInOrder ==
  ASSUME NEW S \in SUBSET Txs
  PROVE  /\ Cardinality(S) \in Nat
         /\ \A i \in 1 .. Cardinality(S) : InOrder(S)[i] \in S
         /\ \A t \in S : \E i \in 1 .. Cardinality(S) : InOrder(S)[i] = t
<1>1. IsFiniteSet(S)
  BY FS_Subset
<1>2. Cardinality(S) \in Nat /\ ExistsBijection(1 .. Cardinality(S), S)
  BY <1>1, FS_CardinalityType
<1>3. \E o \in [1 .. Cardinality(S) -> S] : \A t \in S : \E i \in DOMAIN o : o[i] = t
  BY <1>2 DEF ExistsBijection, Bijection, Surjection, Injection
<1>4. /\ InOrder(S) \in [1 .. Cardinality(S) -> S]
      /\ \A t \in S : \E i \in DOMAIN InOrder(S) : InOrder(S)[i] = t
  BY <1>3 DEF InOrder
<1> QED BY <1>2, <1>4

LEMMA MineIInv ==
  ASSUME IInv, NEW S \in SUBSET InMemPool, NEW again \in BOOLEAN, Mine(S, again)
  PROVE  IInv'
<1> DEFINE block == <<[kind |-> "block", height |-> height + 1]>>
           txs == [i \in 1 .. Cardinality(S) |-> [kind |-> "tx", tx |-> InOrder(S)[i]]]
<1>1. /\ height < MaxBlocks /\ height' = height + 1
      /\ chain' = [chain EXCEPT ![height + 1] = S]
      /\ quiet' = IF again THEN quiet ELSE quiet \cup S
      /\ UNCHANGED <<accepted, locked, call, listed, cache, sent, ghosts>>
  BY DEF Mine
<1>2. S \subseteq Txs /\ height + 1 \in Heights /\ height \in 0 .. MaxBlocks
      /\ chain \in [Heights -> SUBSET Txs]
      /\ \A g \in Heights : S \cap chain[g] = {}
  BY <1>1 DEF IInv, TypeOK, InMemPool, Mined
<1>3. block \in Seq(Event) /\ \A k \in DOMAIN block : block[k].kind # "lock"
  <2>1. [kind |-> "block", height |-> height + 1] \in Event
    BY <1>2 DEF Event
  <2> QED BY <2>1
<1>4. txs \in Seq(Event) /\ \A k \in DOMAIN txs : txs[k].kind # "lock"
  <2>1. \A i \in 1 .. Cardinality(S) : [kind |-> "tx", tx |-> InOrder(S)[i]] \in Event
    BY <1>2, BlockInOrder DEF Event
  <2>2. Cardinality(S) \in Nat
    BY <1>2, BlockInOrder
  <2>3. txs \in [1 .. Cardinality(S) -> Event]
    BY <2>1
  <2>4. txs \in Seq(Event)
    <3> HIDE DEF txs
    <3> QED BY <2>2, <2>3, SeqDef
  <2> QED BY <2>4
<1>5. \E es \in Seq(Event) :
        zmq' = zmq \o es /\ \A k \in DOMAIN es : es[k].kind # "lock"
  <2>1. CASE again
    <3>1. zmq' = zmq \o (txs \o block)
      BY <2>1 DEF Mine, Publish
    <3> HIDE DEF txs, block
    <3>2. txs \o block \in Seq(Event) /\ Len(txs \o block) = Len(txs) + Len(block)
          /\ \A i \in 1 .. Len(txs) + Len(block) :
               (txs \o block)[i] = IF i <= Len(txs) THEN txs[i] ELSE block[i - Len(txs)]
      BY <1>3, <1>4, ConcatProperties
    <3>3. /\ DOMAIN txs = 1 .. Len(txs) /\ DOMAIN block = 1 .. Len(block)
          /\ DOMAIN (txs \o block) = 1 .. Len(txs \o block)
          /\ Len(txs) \in Nat /\ Len(block) \in Nat
      BY <1>3, <1>4, <3>2, LenProperties
    <3>4. ASSUME NEW i \in DOMAIN (txs \o block)
          PROVE  (txs \o block)[i].kind # "lock"
      <4>1. CASE i <= Len(txs)
        BY <1>4, <3>2, <3>3, <4>1
      <4>2. CASE ~(i <= Len(txs))
        <5>1. i - Len(txs) \in DOMAIN block /\ (txs \o block)[i] = block[i - Len(txs)]
          BY <3>2, <3>3, <4>2
        <5> QED BY <1>3, <5>1
      <4> QED BY <4>1, <4>2
    <3> QED BY <3>1, <3>2, <3>4
  <2>2. CASE ~again
    <3>1. zmq' = zmq \o block
      BY <2>2 DEF Mine, Publish
    <3> HIDE DEF txs, block
    <3> QED BY <1>3, <3>1
  <2> QED BY <2>1, <2>2
<1> HIDE DEF txs, block
<1>6. zmq' \in Seq(Event) /\ FlightInv'
  BY <1>1, <1>5, Published
<1>7. /\ chain' \in [Heights -> SUBSET Txs] /\ height' \in 0 .. MaxBlocks
      /\ chain'[height + 1] = S
      /\ \A g \in Heights : g # height + 1 => chain'[g] = chain[g]
      /\ \A g \in Heights : chain[g] \subseteq chain'[g]
  <2>1. chain[height + 1] = {}
    BY <1>2 DEF IInv, ChainInv
  <2> QED BY <1>1, <1>2, <2>1
<1>8. TypeOK'
  <2>1. quiet' \subseteq Txs
    BY <1>1, <1>2 DEF IInv, TypeOK
  <2> QED BY <1>1, <1>6, <1>7, <2>1 DEF IInv, TypeOK, call, ghosts
<1>9. ChainInv'
  <2>1. \A h \in Heights : height' < h => chain'[h] = {}
    BY <1>1, <1>2, <1>7 DEF IInv, ChainInv
  <2>2. ASSUME NEW g \in Heights, NEW h \in Heights, g # h
        PROVE  chain'[g] \cap chain'[h] = {}
    <3>1. CASE g = height + 1
      BY <1>2, <1>7, <2>2, <3>1
    <3>2. CASE h = height + 1
      BY <1>2, <1>7, <2>2, <3>2
    <3>3. CASE g # height + 1 /\ h # height + 1
      BY <1>7, <2>2, <3>3 DEF IInv, ChainInv
    <3> QED BY <3>1, <3>2, <3>3
  <2> QED BY <2>1, <2>2 DEF ChainInv
<1>10. HandlerInv'
  <2>1. UNCHANGED <<pc, from, last, next, listed, sent>>
    BY <1>1 DEF call
  <2>2. pc = "proof" => next # height + 1
    BY <1>2 DEF IInv, HandlerInv, TypeOK
  <2>3. pc \in {"history", "proof"} => last <= height'
    BY <1>1, <1>2 DEF IInv, HandlerInv, TypeOK
  <2>4. pc = "proof" => next <= height'
    BY <1>1, <1>2 DEF IInv, HandlerInv, TypeOK
  <2> QED BY <1>7, <2>1, <2>2, <2>3, <2>4 DEF IInv, HandlerInv
<1>11. DataInv'
  <2>1. UNCHANGED <<cache, sent, seen, heard, dropped, locked>>
    BY <1>1 DEF ghosts
  <2>2. CacheInv'
    <3>1. cache.unsent \subseteq Heights
      BY CacheFields DEF IInv, DataInv
    <3> QED BY <1>7, <2>1, <3>1 DEF IInv, DataInv, CacheInv
  <2>3. NothingSeenIsLost'
    <3>1. \A t \in seen : Gone(t) => Gone(t)'
      BY <1>7, <2>1 DEF Gone, IInv, DataInv
    <3> QED BY <2>1, <3>1 DEF IInv, DataInv, NothingSeenIsLost
  <2>4. ProofAfterTransactions' /\ ClientLocks'
    BY <2>1 DEF IInv, DataInv, ProofAfterTransactions, ClientLocks
  <2> QED BY <2>1, <2>2, <2>3, <2>4 DEF IInv, DataInv
<1> QED BY <1>6, <1>8, <1>9, <1>10, <1>11 DEF IInv
-----------------------------------------------------------------------------
(* The listeners *)

\* The first message and the ones behind it
LEMMA MessageTaken ==
  ASSUME IInv, zmq # << >>
  PROVE  /\ Head(zmq) \in Event /\ Tail(zmq) \in Seq(Event)
         /\ 1 \in DOMAIN zmq /\ Head(zmq) = zmq[1]
         /\ \A i \in DOMAIN Tail(zmq) : /\ i + 1 \in DOMAIN zmq /\ Tail(zmq)[i] = zmq[i + 1]
                                        /\ i \in Nat \ {0}
  BY DEF IInv, TypeOK

LEMMA TailFlight ==
  ASSUME IInv, zmq # << >>, zmq' = Tail(zmq), UNCHANGED <<locked, sent>>,
         cache'.locks = cache.locks
  PROVE  FlightInv'
<1> SUFFICES ASSUME NEW t \in Txs, NEW i \in DOMAIN zmq', IsLock(zmq'[i], t)
             PROVE  /\ t \in locked' /\ t \notin cache'.locks /\ sent'.locks[t] = 0
                    /\ \A k \in DOMAIN zmq' : IsLock(zmq'[k], t) => i = k
  BY DEF FlightInv
<1>1. i + 1 \in DOMAIN zmq /\ zmq'[i] = zmq[i + 1] /\ i \in Nat
  BY MessageTaken
<1>2. ASSUME NEW k \in DOMAIN zmq', IsLock(zmq'[k], t) PROVE i = k
  <2>1. k + 1 \in DOMAIN zmq /\ zmq'[k] = zmq[k + 1] /\ k \in Nat
    BY MessageTaken
  <2>2. i + 1 = k + 1
    BY <1>1, <1>2, <2>1 DEF IInv, FlightInv
  <2> QED BY <1>1, <2>1, <2>2
<1> QED BY <1>1, <1>2 DEF IInv, FlightInv

LEMMA MatchData ==
  ASSUME IInv, NEW t \in Txs, Match(t), UNCHANGED core
  PROVE  DataInv' /\ cache'.locks = cache.locks /\ sent' = sent
<1>1. /\ cache' = AddTransactions(cache, {t}) /\ seen' = seen \cup {t}
      /\ UNCHANGED <<sent, heard, dropped, chain, locked>>
  BY DEF Match, core
<1>2. cache \in Cache /\ {t} \in SUBSET Txs
  BY DEF IInv, DataInv
<1>3. /\ cache' \in Cache
      /\ cache'.transactions = cache.transactions \cup {t}
      /\ cache'.fresh = cache.fresh \cup ({t} \ cache.transactions)
      /\ cache'.unsent = cache.unsent /\ cache'.flags = cache.flags
      /\ cache'.locks = cache.locks
      /\ \A u \in Txs : cache.waiting[u] # Absent => cache'.waiting[u] # Absent
  BY <1>1, <1>2, Added
<1>4. CacheInv'
  BY <1>1, <1>3 DEF IInv, DataInv, CacheInv
<1>5. NothingSeenIsLost'
  BY <1>1, <1>3 DEF IInv, DataInv, CacheInv, NothingSeenIsLost, Gone
<1>6. ClientLocks'
  BY <1>1, <1>3 DEF IInv, DataInv, ClientLocks
<1>7. ProofAfterTransactions'
  BY <1>1 DEF IInv, DataInv, ProofAfterTransactions
<1>8. sent \in Sent /\ seen' \subseteq Txs /\ heard \subseteq Txs /\ dropped \subseteq Heights
  BY <1>1 DEF IInv, DataInv
<1> QED BY <1>1, <1>3, <1>4, <1>5, <1>6, <1>7, <1>8 DEF DataInv

LEMMA ReceiveBlockData ==
  ASSUME IInv, NEW h \in Heights, ReceiveBlock(h), UNCHANGED core
  PROVE  DataInv' /\ cache'.locks = cache.locks /\ sent' = sent
<1> DEFINE tested == IF cache.blocks = {} THEN chain[h] ELSE {}
           known == AddTransactions(cache, tested)
           put == PutBlock(known, h)
<1>1. /\ cache' = MakeRoom(put)
      /\ dropped' = dropped \cup
           {b \in Shifted(put) : b \in put.unsent \/ chain[b] \cap put.fresh # {}}
      /\ heard' = {t \in heard : sent.locks[t] > 0 \/ put.waiting[t] # Absent}
      /\ seen' = seen \cup tested
      /\ UNCHANGED <<sent, chain, locked>>
  BY DEF ReceiveBlock, core
<1>2. chain \in [Heights -> SUBSET Txs] /\ cache \in Cache /\ sent \in Sent
      /\ \A g, k \in Heights : g # k => chain[g] \cap chain[k] = {}
  BY DEF IInv, TypeOK, ChainInv
<1>3. tested \in SUBSET Txs
  BY <1>2
<1>4. /\ known \in Cache
      /\ known.transactions = cache.transactions \cup tested
      /\ known.fresh = cache.fresh \cup (tested \ cache.transactions)
      /\ known.unsent = cache.unsent /\ known.flags = cache.flags
      /\ known.locks = cache.locks
  <2> HIDE DEF tested
  <2> QED BY <1>2, <1>3, Added
<1> HIDE DEF tested, known
<1>5. /\ put \in Cache
      /\ put.transactions = known.transactions /\ put.fresh = known.fresh
      /\ put.locks = known.locks
      /\ \A g \in put.unsent :
           \/ g \in known.unsent /\ put.flags[g] = known.flags[g]
           \/ g = h /\ put.flags[g] = chain[h] \cap known.transactions
  BY <1>4, BlockPut
<1> HIDE DEF put
\* before room is made
<1>6. \A t \in put.transactions : t \in put.fresh \/ t \in sent.txs
  BY <1>4, <1>5 DEF IInv, DataInv, CacheInv
<1>7. \A g \in put.unsent : /\ g \in Heights /\ put.flags[g] \subseteq chain[g]
                            /\ \A t \in put.flags[g] : t \in put.fresh \/ t \in sent.txs
  <2> TAKE g \in put.unsent
  <2>0. g \in Heights
    BY <1>5, CacheFields
  <2>1. CASE g \in known.unsent /\ put.flags[g] = known.flags[g]
    BY <1>4, <1>5, <2>0, <2>1 DEF IInv, DataInv, CacheInv
  <2>2. CASE g = h /\ put.flags[g] = chain[h] \cap known.transactions
    BY <1>5, <1>6, <2>0, <2>2
  <2> QED BY <1>5, <2>1, <2>2
<1>8. \A t \in seen' : t \in sent.txs \/ t \in put.fresh \/ Gone(t)
  BY <1>1, <1>4, <1>5, <1>6 DEF IInv, DataInv, NothingSeenIsLost
\* when room was made
<1>9. /\ cache' \in Cache /\ cache'.waiting = put.waiting /\ cache'.locks = put.locks
      /\ cache'.flags = put.flags
      /\ \/ /\ cache'.transactions = put.transactions /\ cache'.fresh = put.fresh
            /\ cache'.unsent = put.unsent
         \/ \E b \in Shifted(put) :
              /\ b \in Heights
              /\ cache'.transactions = put.transactions \ chain[b]
              /\ cache'.fresh = put.fresh \ chain[b] /\ cache'.unsent = put.unsent \ {b}
  BY <1>1, <1>5, RoomMade
<1>10. CacheInv' /\ NothingSeenIsLost'
  <2>1. dropped \subseteq dropped'
    BY <1>1
  <2>2. \A t \in Txs : Gone(t) => Gone(t)'
    BY <1>1, <2>1 DEF Gone
  <2>3. seen' \subseteq Txs
    BY <1>1, <1>3 DEF IInv, DataInv
  <2>4. CASE /\ cache'.transactions = put.transactions /\ cache'.fresh = put.fresh
             /\ cache'.unsent = put.unsent
    <3>1. CacheInv'
      BY <1>1, <1>6, <1>7, <1>9, <2>4 DEF CacheInv
    <3>2. NothingSeenIsLost'
      BY <1>1, <1>8, <2>2, <2>3, <2>4 DEF NothingSeenIsLost
    <3> QED BY <3>1, <3>2
  <2>5. ASSUME NEW b \in Shifted(put), b \in Heights,
               cache'.transactions = put.transactions \ chain[b],
               cache'.fresh = put.fresh \ chain[b], cache'.unsent = put.unsent \ {b}
        PROVE  CacheInv' /\ NothingSeenIsLost'
    <3>1. \A t \in cache'.transactions : t \in cache'.fresh \/ t \in sent'.txs
      BY <1>1, <1>6, <2>5
    <3>2. ASSUME NEW g \in cache'.unsent
          PROVE  /\ cache'.flags[g] \subseteq chain'[g]
                 /\ \A t \in cache'.flags[g] : t \in cache'.fresh \/ t \in sent'.txs
      <4>1. g \in put.unsent /\ g # b /\ g \in Heights
        BY <1>7, <2>5
      <4>2. chain[g] \cap chain[b] = {}
        BY <1>2, <2>5, <4>1
      <4> QED BY <1>1, <1>7, <1>9, <2>5, <4>1, <4>2
    <3>3. CacheInv'
      BY <3>1, <3>2 DEF CacheInv
    <3>4. ASSUME NEW t \in seen', t \in put.fresh, t \in chain[b] PROVE Gone(t)'
      <4>1. b \in dropped'
        BY <1>1, <3>4
      <4> QED BY <1>1, <3>4, <4>1 DEF Gone
    <3>5. NothingSeenIsLost'
      BY <1>1, <1>8, <2>2, <2>3, <2>5, <3>4 DEF NothingSeenIsLost
    <3> QED BY <3>3, <3>5
  <2> QED BY <1>9, <2>4, <2>5
<1>11. ClientLocks'
  <2>1. \A t \in heard' : t \in heard /\ (sent.locks[t] > 0 \/ put.waiting[t] # Absent)
    BY <1>1
  <2>2. heard \subseteq Txs /\ sent.locks \in [Txs -> Nat]
    BY <1>2, SentFields DEF IInv, DataInv
  <2>3. \A t \in heard' : sent.locks[t] = 1 \/ (t \in cache.locks /\ put.waiting[t] # Absent)
    BY <2>1, <2>2 DEF IInv, DataInv, ClientLocks
  <2> QED BY <1>1, <1>4, <1>5, <1>9, <2>3 DEF IInv, DataInv, ClientLocks
<1>12. ProofAfterTransactions'
  BY <1>1 DEF IInv, DataInv, ProofAfterTransactions
<1>13. seen' \subseteq Txs /\ heard' \subseteq Txs /\ dropped' \subseteq Heights
  <2>1. Shifted(put) \subseteq Heights
    BY <1>5, CacheFields DEF Shifted
  <2> QED BY <1>1, <1>3, <2>1 DEF IInv, DataInv
<1> QED BY <1>1, <1>2, <1>4, <1>5, <1>9, <1>10, <1>11, <1>12, <1>13 DEF DataInv

\* A lock that is the first message is nowhere else.
LEMMA ReceiveLockData ==
  ASSUME IInv, NEW t \in Txs, ReceiveLock(t), UNCHANGED core,
         zmq # << >>, IsLock(Head(zmq), t), zmq' = Tail(zmq)
  PROVE  DataInv' /\ FlightInv' /\ sent'.txs = sent.txs
<1>1. /\ heard' = IF cache.waiting[t] # Absent THEN heard \cup {t} ELSE heard
      /\ \/ ~attached /\ cache' = CollectLock(cache, t) /\ sent' = sent
         \/ /\ cache.waiting[t] # Absent
            /\ cache' = RemoveLock(cache, t)
            /\ sent' = [txs |-> sent.txs, proofs |-> sent.proofs,
                        locks |-> [sent.locks EXCEPT ![t] = @ + 1]]
         \/ cache.waiting[t] = Absent /\ UNCHANGED <<cache, sent>>
      /\ UNCHANGED <<seen, dropped, chain, locked>>
  BY DEF ReceiveLock, core
<1>2. /\ t \in locked /\ t \notin cache.locks /\ sent.locks[t] = 0
      /\ \A i \in DOMAIN zmq' : ~IsLock(zmq'[i], t)
  <2>1. 1 \in DOMAIN zmq /\ IsLock(zmq[1], t)
    BY MessageTaken
  <2>2. ASSUME NEW i \in DOMAIN zmq', IsLock(zmq'[i], t) PROVE FALSE
    <3>1. i + 1 \in DOMAIN zmq /\ IsLock(zmq[i + 1], t) /\ i \in Nat \ {0}
      BY <2>2, MessageTaken
    <3>2. 1 = i + 1
      BY <2>1, <3>1 DEF IInv, FlightInv
    <3> QED BY <3>1, <3>2
  <2> QED BY <2>1, <2>2 DEF IInv, FlightInv
<1>3. cache \in Cache /\ sent \in Sent
  BY DEF IInv, DataInv
<1>4. /\ cache' \in Cache /\ sent' \in Sent
      /\ cache'.transactions = cache.transactions /\ cache'.fresh = cache.fresh
      /\ cache'.unsent = cache.unsent /\ cache'.flags = cache.flags
      /\ sent'.txs = sent.txs /\ sent'.proofs = sent.proofs
      /\ \A u \in Txs : u # t => /\ u \in cache'.locks <=> u \in cache.locks
                                 /\ cache'.waiting[u] = cache.waiting[u]
                                 /\ sent'.locks[u] = sent.locks[u]
      /\ \/ t \in cache'.locks /\ sent'.locks[t] = 0 /\ cache'.waiting[t] = cache.waiting[t]
         \/ t \notin cache'.locks /\ sent'.locks[t] = 1
         \/ /\ t \notin cache'.locks /\ sent'.locks[t] = 0
            /\ cache.waiting[t] = Absent /\ UNCHANGED <<cache, sent>>
  <2>1. CASE ~attached /\ cache' = CollectLock(cache, t) /\ sent' = sent
    <3>1. CollectLock(cache, t) \in Cache
      BY <1>3, CacheFields DEF CollectLock, Cache
    <3> QED BY <1>2, <1>3, <2>1, <3>1 DEF CollectLock
  <2>2. CASE /\ cache.waiting[t] # Absent
             /\ cache' = RemoveLock(cache, t)
             /\ sent' = [txs |-> sent.txs, proofs |-> sent.proofs,
                         locks |-> [sent.locks EXCEPT ![t] = @ + 1]]
    <3>1. [cache.waiting EXCEPT ![t] = Absent] \in [Txs -> Nat \cup {Absent}]
      BY <1>3, CacheFields
    <3>2. RemoveLock(cache, t) \in Cache
      BY <1>3, <3>1, CacheFields DEF RemoveLock, Cache
    <3>3. /\ [sent.locks EXCEPT ![t] = @ + 1] \in [Txs -> Nat]
          /\ [sent.locks EXCEPT ![t] = @ + 1][t] = 1
          /\ \A u \in Txs : u # t => [sent.locks EXCEPT ![t] = @ + 1][u] = sent.locks[u]
      BY <1>2, <1>3, SentFields
    <3>4. sent' \in Sent
      BY <1>3, <2>2, <3>3, SentFields DEF Sent
    <3>5. /\ cache'.transactions = cache.transactions /\ cache'.fresh = cache.fresh
          /\ cache'.unsent = cache.unsent /\ cache'.flags = cache.flags
          /\ cache'.locks = cache.locks
          /\ \A u \in Txs : u # t => cache'.waiting[u] = cache.waiting[u]
      BY <1>3, <2>2, CacheFields DEF RemoveLock
    <3>6. /\ sent'.txs = sent.txs /\ sent'.proofs = sent.proofs
          /\ sent'.locks[t] = 1
          /\ \A u \in Txs : u # t => sent'.locks[u] = sent.locks[u]
      BY <2>2, <3>3
    <3> QED BY <1>2, <2>2, <3>2, <3>4, <3>5, <3>6
  <2>3. CASE cache.waiting[t] = Absent /\ UNCHANGED <<cache, sent>>
    BY <1>2, <1>3, <2>3
  <2> QED BY <1>1, <2>1, <2>2, <2>3
<1>5. FlightInv'
  <2> SUFFICES ASSUME NEW u \in Txs, NEW i \in DOMAIN zmq', IsLock(zmq'[i], u)
               PROVE  /\ u \in locked' /\ u \notin cache'.locks /\ sent'.locks[u] = 0
                      /\ \A k \in DOMAIN zmq' : IsLock(zmq'[k], u) => i = k
    BY DEF FlightInv
  <2>1. u # t
    BY <1>2
  <2>2. i + 1 \in DOMAIN zmq /\ IsLock(zmq[i + 1], u) /\ i \in Nat
    BY MessageTaken
  <2>3. ASSUME NEW k \in DOMAIN zmq', IsLock(zmq'[k], u) PROVE i = k
    <3>1. k + 1 \in DOMAIN zmq /\ IsLock(zmq[k + 1], u) /\ k \in Nat
      BY <2>3, MessageTaken
    <3>2. i + 1 = k + 1
      BY <2>2, <3>1 DEF IInv, FlightInv
    <3> QED BY <2>2, <3>1, <3>2
  <2>4. u \in locked /\ u \notin cache.locks /\ sent.locks[u] = 0
    BY <2>2 DEF IInv, FlightInv
  <2> QED BY <1>1, <1>4, <2>1, <2>3, <2>4
<1>6. ClientLocks'
  <2>1. cache'.locks \subseteq Txs /\ heard' \subseteq Txs
    BY <1>1, <1>4, CacheFields DEF IInv, DataInv
  <2>2. \A u \in cache'.locks : u \in locked' /\ sent'.locks[u] = 0
    BY <1>1, <1>2, <1>4, <2>1 DEF IInv, DataInv, ClientLocks
  <2>3. \A u \in Txs : sent'.locks[u] <= 1 /\ (sent'.locks[u] # 0 => u \in locked')
    BY <1>1, <1>2, <1>4 DEF IInv, DataInv, ClientLocks
  <2>4. ASSUME NEW u \in heard'
        PROVE  sent'.locks[u] = 1 \/ (u \in cache'.locks /\ cache'.waiting[u] # Absent)
    <3>1. CASE u # t
      BY <1>1, <1>4, <2>1, <3>1 DEF IInv, DataInv, ClientLocks
    <3>2. CASE u = t
      <4>1. t \notin heard
        BY <1>2 DEF IInv, DataInv, ClientLocks
      <4>2. cache.waiting[t] # Absent
        BY <1>1, <3>2, <4>1
      <4> QED BY <1>4, <3>2, <4>2
    <3> QED BY <3>1, <3>2
  <2> QED BY <2>2, <2>3, <2>4 DEF ClientLocks
<1>7. CacheInv' /\ ProofAfterTransactions'
  BY <1>1, <1>4 DEF IInv, DataInv, CacheInv, ProofAfterTransactions
<1>8. NothingSeenIsLost'
  BY <1>1, <1>4 DEF IInv, DataInv, NothingSeenIsLost, Gone
<1>9. seen' \subseteq Txs /\ heard' \subseteq Txs /\ dropped' \subseteq Heights
  BY <1>1 DEF IInv, DataInv
<1> QED BY <1>4, <1>5, <1>6, <1>7, <1>8, <1>9 DEF DataInv

\* The rest of the state is not the listeners'.
LEMMA ListenersKeep ==
  ASSUME IInv, UNCHANGED <<core, call, listed>>, zmq' \in Seq(Event),
         DataInv', FlightInv', sent'.txs = sent.txs
  PROVE  IInv'
<1>1. TypeOK'
  <2>1. cache' \in Cache /\ sent' \in Sent /\ seen' \subseteq Txs /\ heard' \subseteq Txs
        /\ dropped' \subseteq Heights
    BY DEF DataInv
  <2> QED BY <2>1 DEF IInv, TypeOK, core, call
<1>2. ChainInv' /\ HandlerInv'
  BY DEF IInv, ChainInv, HandlerInv, core, call
<1> QED BY <1>1, <1>2 DEF IInv

LEMMA DeliverIInv == ASSUME IInv, Deliver PROVE IInv'
<1> DEFINE e == Head(zmq)
<1>1. zmq # << >> /\ zmq' = Tail(zmq) /\ UNCHANGED <<core, call, listed>>
  BY DEF Deliver
<1>2. e \in Event /\ zmq' \in Seq(Event)
  BY <1>1, MessageTaken
<1>3. \/ UNCHANGED <<cache, sent, ghosts>>
      \/ e.kind = "tx" /\ Match(e.tx)
      \/ e.kind = "block" /\ ReceiveBlock(e.height)
      \/ e.kind = "lock" /\ ReceiveLock(e.tx)
  BY DEF Deliver
<1>4. /\ e.kind = "tx" => e.tx \in Txs
      /\ e.kind = "block" => e.height \in Heights
      /\ e.kind = "lock" => e.tx \in Txs
  BY <1>2 DEF Event
<1>5. UNCHANGED <<locked, chain>>
  BY <1>1 DEF core
<1> HIDE DEF e
<1>6. CASE UNCHANGED <<cache, sent, ghosts>>
  <2>1. DataInv'
    BY <1>5, <1>6 DEF IInv, DataInv, CacheInv, ProofAfterTransactions, NothingSeenIsLost, Gone,
         ClientLocks, ghosts
  <2>2. FlightInv'
    BY <1>1, <1>5, <1>6, TailFlight
  <2> QED BY <1>1, <1>2, <1>6, <2>1, <2>2, ListenersKeep
<1>7. CASE e.kind = "tx" /\ Match(e.tx)
  <2>1. DataInv' /\ cache'.locks = cache.locks /\ sent' = sent
    BY <1>1, <1>4, <1>7, MatchData
  <2>2. FlightInv'
    BY <1>1, <1>5, <2>1, TailFlight
  <2> QED BY <1>1, <1>2, <2>1, <2>2, ListenersKeep
<1>8. CASE e.kind = "block" /\ ReceiveBlock(e.height)
  <2>1. DataInv' /\ cache'.locks = cache.locks /\ sent' = sent
    BY <1>1, <1>4, <1>8, ReceiveBlockData
  <2>2. FlightInv'
    BY <1>1, <1>5, <2>1, TailFlight
  <2> QED BY <1>1, <1>2, <2>1, <2>2, ListenersKeep
<1>9. CASE e.kind = "lock" /\ ReceiveLock(e.tx)
  <2>1. IsLock(Head(zmq), e.tx)
    BY <1>9 DEF IsLock, e
  <2>2. DataInv' /\ FlightInv' /\ sent'.txs = sent.txs
    BY <1>1, <1>4, <1>9, <2>1, ReceiveLockData
  <2> QED BY <1>1, <1>2, <2>2, ListenersKeep
<1> QED BY <1>3, <1>6, <1>7, <1>8, <1>9

LEMMA OtherCallTestsIInv == ASSUME IInv, NEW t \in Txs, OtherCallTests(t) PROVE IInv'
<1>1. Match(t) /\ UNCHANGED <<core, zmq, call, listed>>
  BY DEF OtherCallTests
<1>2. DataInv' /\ cache'.locks = cache.locks /\ sent' = sent
  BY <1>1, MatchData
<1>3. zmq' \in Seq(Event)
  BY <1>1 DEF IInv, TypeOK
<1>4. FlightInv'
  BY <1>1, <1>2 DEF IInv, FlightInv, core
<1> QED BY <1>1, <1>2, <1>3, <1>4, ListenersKeep
-----------------------------------------------------------------------------
(* The handler *)

\* Steps that send and store nothing.
LEMMA NothingSent ==
  ASSUME IInv, UNCHANGED <<core, zmq, cache, sent, ghosts>>,
         pc' \in Steps, from' \in 0 .. MaxBlocks, last' \in 0 .. MaxBlocks,
         next' \in 0 .. MaxBlocks + 1, count' \in Counts \cup {0}, memPool' \subseteq Txs,
         listed' \in BOOLEAN, attached' \in BOOLEAN, cancelled' \in BOOLEAN, old' \subseteq Txs,
         HandlerInv'
  PROVE  IInv'
<1>1. TypeOK'
  BY DEF IInv, TypeOK, core, ghosts
<1>2. ChainInv' /\ FlightInv'
  BY DEF IInv, ChainInv, FlightInv, core
<1>3. DataInv'
  BY DEF IInv, DataInv, CacheInv, ProofAfterTransactions, NothingSeenIsLost, Gone, ClientLocks,
       core, ghosts
<1> QED BY <1>1, <1>2, <1>3 DEF IInv

LEMMA HandlerTypes ==
  ASSUME IInv
  PROVE  /\ pc \in Steps /\ from \in 0 .. MaxBlocks /\ last \in 0 .. MaxBlocks
         /\ next \in 0 .. MaxBlocks + 1 /\ count \in Counts \cup {0} /\ memPool \subseteq Txs
         /\ listed \in BOOLEAN /\ attached \in BOOLEAN /\ cancelled \in BOOLEAN
         /\ old \subseteq Txs /\ InMemPool \subseteq Txs /\ height \in 0 .. MaxBlocks
         /\ cache \in Cache /\ sent \in Sent /\ zmq \in Seq(Event)
         /\ chain \in [Heights -> SUBSET Txs]
  BY DEF IInv, TypeOK, InMemPool

LEMMA SubscribeIInv ==
  ASSUME IInv, NEW f \in Heights, NEW n \in Counts, Subscribe(f, n)
  PROVE  IInv'
<1>1. /\ pc' = "range" /\ from' = f /\ next' = f /\ count' = n
      /\ listed' = (n = 0) /\ old' = InMemPool
      /\ UNCHANGED <<core, zmq, last, memPool, attached, cancelled, cache, sent, ghosts>>
  BY DEF Subscribe
<1>2. listed' \in BOOLEAN
  BY <1>1
<1>3. HandlerInv'
  BY <1>1 DEF HandlerInv
<1>4. pc' \in Steps /\ from' \in 0 .. MaxBlocks /\ next' \in 0 .. MaxBlocks + 1
      /\ count' \in Counts \cup {0} /\ old' \subseteq Txs /\ last' \in 0 .. MaxBlocks
      /\ memPool' \subseteq Txs
  BY <1>1, HandlerTypes DEF Steps
<1>5. attached' \in BOOLEAN /\ cancelled' \in BOOLEAN
  BY <1>1, HandlerTypes
<1> QED BY <1>1, <1>2, <1>3, <1>4, <1>5, NothingSent

LEMMA ReadRangeIInv == ASSUME IInv, ReadRange PROVE IInv'
<1>1. /\ pc = "range" /\ from <= height /\ pc' = "history"
      /\ last' = IF count = 0 \/ from + count > height + 1 THEN height ELSE from + count - 1
      /\ UNCHANGED <<core, zmq, from, next, count, memPool, listed, attached, cancelled, cache,
                     sent, old, ghosts>>
  BY DEF ReadRange
<1>2. count \in 0 .. MaxBlocks
  <2>1. count \in Counts \cup {0}
    BY HandlerTypes
  <2>2. Counts \subseteq 0 .. MaxBlocks /\ MaxBlocks \in Nat \ {0}
    BY StreamAssumption
  <2> QED BY <2>1, <2>2
<1>3. last' \in 0 .. MaxBlocks /\ last' <= height
  <2>1. from \in Heights /\ height \in 0 .. MaxBlocks
    BY <1>1, HandlerTypes DEF IInv, HandlerInv
  <2>2. CASE count = 0 \/ from + count > height + 1
    BY <1>1, <2>1, <2>2
  <2>3. CASE ~(count = 0 \/ from + count > height + 1)
    BY <1>1, <1>2, <2>1, <2>3
  <2> QED BY <2>2, <2>3
<1>4. HandlerInv'
  BY <1>1, <1>3 DEF IInv, HandlerInv, core
<1>5. pc' \in Steps
  BY <1>1 DEF Steps
<1>6. /\ from' \in 0 .. MaxBlocks /\ next' \in 0 .. MaxBlocks + 1
      /\ count' \in Counts \cup {0} /\ memPool' \subseteq Txs /\ old' \subseteq Txs
      /\ listed' \in BOOLEAN /\ attached' \in BOOLEAN /\ cancelled' \in BOOLEAN
  BY <1>1, HandlerTypes
<1>7. UNCHANGED <<core, zmq, cache, sent, ghosts>>
  BY <1>1
<1> QED BY <1>3, <1>4, <1>5, <1>6, <1>7, NothingSent

\* The call has ended or failed.
LEMMA ReturnIInv ==
  ASSUME IInv, Return, pc' \in {"failed", "ended"},
         UNCHANGED <<core, zmq, listed, cancelled, cache, sent, ghosts>>,
         attached' \in BOOLEAN
  PROVE  IInv'
<1>1. HandlerInv'
  BY DEF HandlerInv
<1>2. /\ pc' \in Steps /\ from' \in 0 .. MaxBlocks /\ last' \in 0 .. MaxBlocks
      /\ next' \in 0 .. MaxBlocks + 1 /\ count' \in Counts \cup {0} /\ memPool' \subseteq Txs
      /\ old' \subseteq Txs
  BY DEF Return, Steps
<1>3. listed' \in BOOLEAN /\ cancelled' \in BOOLEAN
  BY HandlerTypes
<1> QED BY <1>1, <1>2, <1>3, NothingSent

LEMMA BlockMissingIInv == ASSUME IInv, BlockMissing PROVE IInv'
<1>1. attached' \in BOOLEAN
  BY HandlerTypes DEF BlockMissing
<1> QED BY <1>1, ReturnIInv DEF BlockMissing

LEMMA FailIInv == ASSUME IInv, Fail PROVE IInv'
<1>1. attached' \in BOOLEAN
  BY HandlerTypes DEF Fail
<1> QED BY <1>1, ReturnIInv DEF Fail

LEMMA EndCallIInv == ASSUME IInv, EndCall PROVE IInv'
<1>1. attached' = TRUE
  BY DEF EndCall
<1>2. attached' \in BOOLEAN
  BY <1>1
<1> QED BY <1>2, ReturnIInv DEF EndCall

LEMMA ReadMemPoolIInv == ASSUME IInv, ReadMemPool PROVE IInv'
<1>1. /\ pc' = "memPool" /\ memPool' = InMemPool
      /\ UNCHANGED <<core, zmq, from, last, next, count, listed, attached, cancelled, cache, sent,
                     old, ghosts>>
  BY DEF ReadMemPool
<1>2. HandlerInv'
  BY <1>1 DEF HandlerInv
<1>3. pc' \in Steps
  BY <1>1 DEF Steps
<1>4. /\ from' \in 0 .. MaxBlocks /\ last' \in 0 .. MaxBlocks /\ next' \in 0 .. MaxBlocks + 1
      /\ count' \in Counts \cup {0} /\ memPool' \subseteq Txs /\ old' \subseteq Txs
      /\ listed' \in BOOLEAN /\ attached' \in BOOLEAN /\ cancelled' \in BOOLEAN
  BY <1>1, HandlerTypes
<1>5. UNCHANGED <<core, zmq, cache, sent, ghosts>>
  BY <1>1
<1> QED BY <1>2, <1>3, <1>4, <1>5, NothingSent

\* Whatever is heard after it has fired, the listener took the call off the collection.
LEMMA CancelIInv == ASSUME IInv, Cancel PROVE IInv'
<1>1. /\ cancelled' = TRUE
      /\ \/ pc' = "over" /\ listed' = FALSE
         \/ UNCHANGED <<pc, listed>>
      /\ UNCHANGED <<core, zmq, from, last, next, count, memPool, attached, cache, sent, old,
                     ghosts>>
  BY DEF Cancel
<1>2. cancelled' \in BOOLEAN
  BY <1>1
<1>3. CASE pc' = "over" /\ listed' = FALSE
  <2>1. HandlerInv'
    BY <1>3 DEF HandlerInv
  <2>2. listed' \in BOOLEAN /\ pc' \in Steps
    BY <1>3 DEF Steps
  <2>3. /\ from' \in 0 .. MaxBlocks /\ last' \in 0 .. MaxBlocks /\ next' \in 0 .. MaxBlocks + 1
        /\ count' \in Counts \cup {0} /\ memPool' \subseteq Txs /\ old' \subseteq Txs
        /\ attached' \in BOOLEAN
    BY <1>1, HandlerTypes
  <2> QED BY <1>1, <1>2, <2>1, <2>2, <2>3, NothingSent
<1>4. CASE UNCHANGED <<pc, listed>>
  <2>1. HandlerInv'
    BY <1>1, <1>4 DEF IInv, HandlerInv, core
  <2>2. /\ from' \in 0 .. MaxBlocks /\ last' \in 0 .. MaxBlocks /\ next' \in 0 .. MaxBlocks + 1
        /\ count' \in Counts \cup {0} /\ memPool' \subseteq Txs /\ old' \subseteq Txs
        /\ attached' \in BOOLEAN /\ listed' \in BOOLEAN /\ pc' \in Steps
    BY <1>1, <1>4, HandlerTypes
  <2> QED BY <1>1, <1>2, <2>1, <2>2, NothingSent
<1> QED BY <1>1, <1>3, <1>4

\* History: transactions, then their proof.
LEMMA SendTransactionsIInv == ASSUME IInv, SendTransactions PROVE IInv'
<1>1. PICK h \in Heights :
        /\ IsOldest(h, Ahead)
        /\ next' = h
        /\ sent' = [txs |-> sent.txs \cup chain[h], proofs |-> sent.proofs, locks |-> sent.locks]
  BY DEF SendTransactions
<1>2. /\ pc = "history" /\ pc' = "proof"
      /\ UNCHANGED <<core, zmq, from, last, count, memPool, listed, attached, cancelled, cache, old,
                     ghosts>>
  BY DEF SendTransactions
<1>3. h \in next .. last /\ last <= height
  BY <1>1, <1>2 DEF IsOldest, Ahead, IInv, HandlerInv
<1>4. /\ sent' \in Sent /\ sent'.txs = sent.txs \cup chain[h]
      /\ sent'.proofs = sent.proofs /\ sent'.locks = sent.locks
  <2>1. chain[h] \subseteq Txs
    BY HandlerTypes
  <2> QED BY <1>1, <2>1, HandlerTypes, SentFields DEF Sent
<1>5. TypeOK'
  <2>1. pc' \in Steps
    BY <1>2 DEF Steps
  <2> QED BY <1>1, <1>2, <1>4, <2>1 DEF IInv, TypeOK, core, ghosts
<1>6. ChainInv' /\ FlightInv'
  BY <1>2, <1>4 DEF IInv, ChainInv, FlightInv, core
<1>7. HandlerInv'
  <2>1. next' <= height
    BY <1>1, <1>3, HandlerTypes
  <2> QED BY <1>1, <1>2, <1>3, <1>4, <2>1 DEF IInv, HandlerInv, core
<1>8. DataInv'
  <2>1. CacheInv' /\ ProofAfterTransactions'
    BY <1>2, <1>4 DEF IInv, DataInv, CacheInv, ProofAfterTransactions, core
  <2>2. NothingSeenIsLost' /\ ClientLocks'
    BY <1>2, <1>4 DEF IInv, DataInv, NothingSeenIsLost, Gone, ClientLocks, core, ghosts
  <2> QED BY <1>2, <1>4, <2>1, <2>2 DEF IInv, DataInv, ghosts
<1> QED BY <1>5, <1>6, <1>7, <1>8 DEF IInv

LEMMA SendProofIInv == ASSUME IInv, SendProof PROVE IInv'
<1>1. /\ pc = "proof" /\ pc' = "history" /\ next' = next + 1
      /\ sent' = [txs |-> sent.txs, proofs |-> [sent.proofs EXCEPT ![next] = chain[next]],
                  locks |-> sent.locks]
      /\ cache' = IF count = 0 THEN RemoveDataByBlockHash(cache, next) ELSE cache
      /\ UNCHANGED <<core, zmq, from, last, count, memPool, listed, attached, cancelled, old,
                     ghosts>>
  BY DEF SendProof
<1>2. next \in Heights /\ chain[next] \subseteq sent.txs /\ chain[next] \subseteq Txs
  BY <1>1, HandlerTypes DEF IInv, HandlerInv
<1>3. /\ sent' \in Sent /\ sent'.txs = sent.txs /\ sent'.locks = sent.locks
      /\ \A h \in Heights : sent'.proofs[h] = sent.proofs[h] \/ sent'.proofs[h] \subseteq sent.txs
  <2>1. /\ [sent.proofs EXCEPT ![next] = chain[next]] \in [Heights -> SUBSET Txs]
        /\ \A h \in Heights :
             \/ [sent.proofs EXCEPT ![next] = chain[next]][h] = sent.proofs[h]
             \/ [sent.proofs EXCEPT ![next] = chain[next]][h] = chain[next]
    BY <1>2, HandlerTypes, SentFields
  <2>2. sent' \in Sent
    BY <1>1, <2>1, HandlerTypes, SentFields DEF Sent
  <2> QED BY <1>1, <1>2, <2>1, <2>2
<1>4. /\ cache' \in Cache /\ cache'.locks = cache.locks /\ cache'.waiting = cache.waiting
      /\ cache'.flags = cache.flags /\ cache'.unsent \subseteq cache.unsent
      /\ \/ cache'.transactions = cache.transactions /\ cache'.fresh = cache.fresh
         \/ /\ cache'.transactions = cache.transactions \ chain[next]
            /\ cache'.fresh = cache.fresh \ chain[next]
  <2>1. CASE cache' = cache
    BY <2>1, HandlerTypes
  <2>2. CASE cache' = RemoveDataByBlock(cache, next)
    BY <1>2, <2>2, HandlerTypes, Removed
  <2> QED BY <1>1, <2>1, <2>2 DEF RemoveDataByBlockHash
<1>5. TypeOK'
  <2>1. pc' \in Steps /\ next' \in 0 .. MaxBlocks + 1
    BY <1>1, <1>2 DEF Steps
  <2> QED BY <1>1, <1>3, <1>4, <2>1 DEF IInv, TypeOK, core, ghosts
<1>6. ChainInv' /\ FlightInv'
  BY <1>1, <1>3, <1>4 DEF IInv, ChainInv, FlightInv, core
<1>7. HandlerInv'
  BY <1>1, <1>2 DEF IInv, HandlerInv, core
<1>8. CacheInv'
  <2>1. UNCHANGED chain
    BY <1>1 DEF core
  <2> QED BY <1>2, <1>3, <1>4, <2>1 DEF IInv, DataInv, CacheInv
<1>9. ProofAfterTransactions'
  BY <1>3 DEF IInv, DataInv, ProofAfterTransactions
<1>10. NothingSeenIsLost'
  <2>1. UNCHANGED <<chain, dropped, seen>>
    BY <1>1 DEF core, ghosts
  <2> QED BY <1>2, <1>3, <1>4, <2>1 DEF IInv, DataInv, NothingSeenIsLost, Gone
<1>11. ClientLocks'
  BY <1>1, <1>3, <1>4 DEF IInv, DataInv, ClientLocks, core, ghosts
<1>12. seen' \subseteq Txs /\ heard' \subseteq Txs /\ dropped' \subseteq Heights
  BY <1>1 DEF IInv, DataInv, ghosts
<1> QED BY <1>3, <1>4, <1>5, <1>6, <1>7, <1>8, <1>9, <1>10, <1>11, <1>12 DEF IInv, DataInv

\* A round of the loop for a cache whose locks are those there were: everything in
\* it is sent, the locks that are waited for once.
LEMMA Rounded ==
  ASSUME IInv, NEW c \in Cache,
         \A t \in c.transactions : t \in c.fresh \/ t \in sent.txs,
         \A h \in c.unsent : \A t \in c.flags[h] : t \in c.fresh \/ t \in sent.txs,
         c.locks = cache.locks,
         \A t \in Txs : cache.waiting[t] # Absent => c.waiting[t] # Absent,
         sent' = SendUnretrieved(c), cache' = Retrieved(c),
         UNCHANGED <<core, zmq, heard>>
  PROVE  /\ sent' \in Sent /\ cache' \in Cache
         /\ sent'.txs = sent.txs \cup c.fresh
         /\ CacheInv' /\ ProofAfterTransactions' /\ ClientLocks' /\ FlightInv'
<1> DEFINE p == [h \in Heights |-> IF h \in c.unsent THEN sent.proofs[h] \cup c.flags[h]
                                   ELSE sent.proofs[h]]
           l == [t \in Txs |-> IF t \in c.locks /\ c.waiting[t] # Absent THEN sent.locks[t] + 1
                               ELSE sent.locks[t]]
<1>1. sent' = [txs |-> sent.txs \cup c.fresh, proofs |-> p, locks |-> l]
  BY DEF SendUnretrieved
<1>2. /\ cache' \in Cache
      /\ cache'.transactions = c.transactions /\ cache'.fresh = {} /\ cache'.unsent = {}
      /\ cache'.locks = {} /\ cache'.waiting = c.waiting
  BY RoundRetrieves
<1>3. sent \in Sent
  BY DEF IInv, DataInv
<1>4. p \in [Heights -> SUBSET Txs] /\ l \in [Txs -> Nat]
  BY <1>3, CacheFields, SentFields
<1>5. \A h \in Heights : p[h] \subseteq sent.txs \cup c.fresh
  BY DEF IInv, DataInv, ProofAfterTransactions
<1>6. /\ \A t \in Txs : t \notin cache.locks => l[t] = sent.locks[t]
      /\ \A t \in Txs : t \in cache.locks /\ c.waiting[t] # Absent => l[t] = sent.locks[t] + 1
      /\ \A t \in Txs : l[t] = sent.locks[t] \/ (t \in cache.locks /\ l[t] = sent.locks[t] + 1)
  OBVIOUS
<1> HIDE DEF p, l
<1>7. sent' \in Sent /\ sent'.txs = sent.txs \cup c.fresh /\ sent'.proofs = p /\ sent'.locks = l
  BY <1>1, <1>3, <1>4, CacheFields, SentFields DEF Sent
<1>8. CacheInv'
  BY <1>2, <1>7 DEF CacheInv
<1>9. ProofAfterTransactions'
  BY <1>5, <1>7 DEF ProofAfterTransactions
<1>10. ClientLocks'
  <2>0. UNCHANGED locked
    BY DEF core
  <2>1. \A t \in Txs : l[t] <= 1 /\ (l[t] # 0 => t \in locked)
    <3> TAKE t \in Txs
    <3>1. sent.locks[t] \in Nat
      BY <1>3, SentFields
    <3>2. CASE t \in cache.locks
      <4>1. sent.locks[t] = 0 /\ t \in locked
        BY <3>2 DEF IInv, DataInv, ClientLocks
      <4> QED BY <1>6, <4>1
    <3>3. CASE t \notin cache.locks
      BY <1>6, <3>3 DEF IInv, DataInv, ClientLocks
    <3> QED BY <3>2, <3>3
  <2>2. ASSUME NEW t \in heard PROVE l[t] = 1
    <3>1. t \in Txs
      BY DEF IInv, DataInv
    <3>2. CASE t \in cache.locks /\ cache.waiting[t] # Absent
      <4>1. sent.locks[t] = 0
        BY <3>2 DEF IInv, DataInv, ClientLocks
      <4> QED BY <1>6, <3>1, <3>2, <4>1
    <3>3. CASE sent.locks[t] = 1
      <4>1. t \notin cache.locks
        BY <3>3 DEF IInv, DataInv, ClientLocks
      <4> QED BY <1>6, <3>1, <3>3, <4>1
    <3> QED BY <3>2, <3>3 DEF IInv, DataInv, ClientLocks
  <2> QED BY <1>2, <1>7, <2>0, <2>1, <2>2 DEF ClientLocks
<1>11. FlightInv'
  <2>1. UNCHANGED <<zmq, locked>>
    BY DEF core
  <2> QED BY <1>2, <1>6, <1>7, <2>1 DEF IInv, FlightInv
<1> QED BY <1>2, <1>7, <1>8, <1>9, <1>10, <1>11

LEMMA RoundIInv == ASSUME IInv, Round PROVE IInv'
<1>1. /\ pc = "live" /\ sent' = SendUnretrieved(cache) /\ cache' = Retrieved(cache)
      /\ UNCHANGED <<core, zmq, call, listed, ghosts>>
  BY DEF Round
<1>2. /\ sent' \in Sent /\ cache' \in Cache
      /\ sent'.txs = sent.txs \cup cache.fresh
      /\ CacheInv' /\ ProofAfterTransactions' /\ ClientLocks' /\ FlightInv'
  <2>1. cache \in Cache
    BY DEF IInv, DataInv
  <2>2. /\ \A t \in cache.transactions : t \in cache.fresh \/ t \in sent.txs
        /\ \A h \in cache.unsent : \A t \in cache.flags[h] : t \in cache.fresh \/ t \in sent.txs
    BY DEF IInv, DataInv, CacheInv
  <2>3. UNCHANGED <<core, zmq, heard>>
    BY <1>1 DEF ghosts
  <2> QED BY <1>1, <2>1, <2>2, <2>3, Rounded
<1>3. TypeOK'
  BY <1>1, <1>2 DEF IInv, TypeOK, core, call, ghosts
<1>4. ChainInv' /\ HandlerInv'
  BY <1>1 DEF IInv, ChainInv, HandlerInv, core, call
<1>5. NothingSeenIsLost'
  BY <1>1, <1>2 DEF IInv, DataInv, NothingSeenIsLost, Gone, core, ghosts
<1>6. seen' \subseteq Txs /\ heard' \subseteq Txs /\ dropped' \subseteq Heights
  BY <1>1 DEF IInv, DataInv, ghosts
<1> QED BY <1>2, <1>3, <1>4, <1>5, <1>6 DEF IInv, DataInv

LEMMA TestMemPoolIInv == ASSUME IInv, TestMemPool PROVE IInv'
<1> DEFINE tested == AddTransactions(cache, memPool)
<1>1. /\ pc = "memPool" /\ pc' = "live" /\ attached' = TRUE
      /\ seen' = seen \cup memPool /\ memPool' = {} /\ next' = 0
      /\ sent' = SendUnretrieved(tested) /\ cache' = Retrieved(tested)
      /\ UNCHANGED <<core, zmq, from, last, count, listed, cancelled, old, heard, dropped>>
  BY DEF TestMemPool
<1>2. cache \in Cache /\ memPool \in SUBSET Txs
  BY DEF IInv, DataInv, TypeOK
<1>3. /\ tested \in Cache
      /\ tested.transactions = cache.transactions \cup memPool
      /\ tested.fresh = cache.fresh \cup (memPool \ cache.transactions)
      /\ tested.unsent = cache.unsent /\ tested.flags = cache.flags
      /\ tested.locks = cache.locks
      /\ \A t \in Txs : cache.waiting[t] # Absent => tested.waiting[t] # Absent
  BY <1>2, Added
<1> HIDE DEF tested
<1>4. /\ \A t \in tested.transactions : t \in tested.fresh \/ t \in sent.txs
      /\ \A h \in tested.unsent : \A t \in tested.flags[h] : t \in tested.fresh \/ t \in sent.txs
  BY <1>3 DEF IInv, DataInv, CacheInv
<1>5. /\ sent' \in Sent /\ cache' \in Cache
      /\ sent'.txs = sent.txs \cup tested.fresh
      /\ CacheInv' /\ ProofAfterTransactions' /\ ClientLocks' /\ FlightInv'
  BY <1>1, <1>3, <1>4, Rounded
<1>6. attached' \in BOOLEAN /\ pc' \in Steps
  BY <1>1 DEF Steps
<1>7. TypeOK'
  BY <1>1, <1>5, <1>6 DEF IInv, TypeOK, core
<1>8. ChainInv' /\ HandlerInv'
  BY <1>1 DEF IInv, ChainInv, HandlerInv, core
<1>9. NothingSeenIsLost'
  <2>1. \A t \in memPool : t \in sent'.txs
    BY <1>3, <1>4, <1>5
  <2>2. UNCHANGED <<chain, dropped>>
    BY <1>1 DEF core
  <2> QED BY <1>1, <1>3, <1>5, <2>1, <2>2 DEF IInv, DataInv, NothingSeenIsLost, Gone
<1>10. seen' \subseteq Txs /\ heard' \subseteq Txs /\ dropped' \subseteq Heights
  BY <1>1, <1>2 DEF IInv, DataInv
<1> QED BY <1>5, <1>7, <1>8, <1>9, <1>10 DEF IInv, DataInv

LEMMA StutterIInv == ASSUME IInv, UNCHANGED vars PROVE IInv'
<1> USE DEF vars, core, call, ghosts
<1>1. TypeOK'
  BY DEF IInv, TypeOK
<1>2. ChainInv' /\ HandlerInv' /\ FlightInv'
  BY DEF IInv, ChainInv, HandlerInv, FlightInv
<1>3. DataInv'
  BY DEF IInv, DataInv, CacheInv, ProofAfterTransactions, NothingSeenIsLost, Gone, ClientLocks
<1> QED BY <1>1, <1>2, <1>3 DEF IInv

-----------------------------------------------------------------------------
LEMMA StepIInv == IInv /\ [Next]_vars => IInv'
<1> SUFFICES ASSUME IInv, [Next]_vars PROVE IInv'
  OBVIOUS
<1>1. CASE CoreSteps
  BY <1>1, AcceptIInv, LockInstantlyIInv, MineIInv DEF CoreSteps
<1>2. CASE Deliver
  BY <1>2, DeliverIInv
<1>3. CASE Handler
  BY <1>3, ReadRangeIInv, BlockMissingIInv, SendTransactionsIInv, SendProofIInv, ReadMemPoolIInv,
     TestMemPoolIInv, EndCallIInv DEF Handler
<1>4. CASE Round
  BY <1>4, RoundIInv
<1>5. CASE Cancel \/ Fail
  BY <1>5, CancelIInv, FailIInv
<1>6. CASE \E f \in Heights, n \in Counts : Subscribe(f, n)
  BY <1>6, SubscribeIInv
<1>7. CASE \E t \in Txs : OtherCallTests(t)
  BY <1>7, OtherCallTestsIInv
<1>8. CASE UNCHANGED vars
  BY <1>8, StutterIInv
<1> QED BY <1>1, <1>2, <1>3, <1>4, <1>5, <1>6, <1>7, <1>8 DEF Next

\* The invariant of every reachable state.
THEOREM Invariance == Spec => []IInv
<1> QED BY InitIInv, StepIInv, PTL DEF Spec

-----------------------------------------------------------------------------
(***************************************************************************)
(* What a client that has caught up is missing: nothing.  The history, the *)
(* mempool and the messages of Core overlap, and each transaction is       *)
(* followed from one to the next while the call is on its way.             *)
(***************************************************************************)
IsTx(e, t) == e.kind = "tx" /\ e.tx = t
IsBlock(e, h) == e.kind = "block" /\ e.height = h

\* What is on its way to the cache.
TxFlies(t) == \E i \in DOMAIN zmq : IsTx(zmq[i], t)
BlockFlies(h) == \E i \in DOMAIN zmq : IsBlock(zmq[i], h)

\* A block comes once.
EventInv ==
  \A h \in Heights : \A i \in DOMAIN zmq : IsBlock(zmq[i], h) =>
    h <= height /\ \A k \in DOMAIN zmq : IsBlock(zmq[k], h) => i = k

\* The cache has the transactions of a block until the block has come.
SeenInv ==
  /\ \A h \in cache.blocks : h <= height /\ ~BlockFlies(h)
  /\ \A t \in seen : t \in cache.transactions \/ \E h \in Heights : t \in chain[h] /\ ~BlockFlies(h)

\* A call for new transactions, and one that has read how far its history goes.
Serving == pc \in {"range", "history", "proof", "memPool", "live"} /\ count = 0
Reading == Serving /\ pc # "range"

ServingInv ==
  /\ Serving => listed
  /\ pc = "range" => next = from
  /\ pc \in {"history", "proof"} => from <= next /\ next <= last + 1
  /\ pc = "proof" => next <= last
  /\ pc \in {"memPool", "live"} => count = 0 /\ from \in Heights /\ last <= height

HistorySent(h) == chain[h] \subseteq sent.txs /\ chain[h] \subseteq sent.proofs[h]

\* What lies behind the handler has been sent.
HistoryInv ==
  /\ pc \in {"history", "proof"} => \A h \in Heights : from <= h /\ h < next => HistorySent(h)
  /\ pc \in {"memPool", "live"} => \A h \in Heights : from <= h /\ h <= last => HistorySent(h)

\* A transaction of the mempool was there when the call came, is on its way, or was
\* seen; the handler reads the mempool, and then tests it, on behalf of the first.
MemPoolInv ==
  Serving => \A t \in InMemPool :
    /\ t \in seen \/ TxFlies(t) \/ t \in old
    /\ pc = "memPool" => t \in seen \/ TxFlies(t) \/ t \in memPool
    /\ pc = "live" => t \in seen \/ TxFlies(t)

\* The transactions nobody tells the call about.
Excused(t) == t \in quiet /\ t \in old

\* The transactions of a block after the history come before it.
AwaitedInv ==
  Reading => \A h \in Heights : \A i \in DOMAIN zmq : IsBlock(zmq[i], h) /\ last < h =>
    \A t \in chain[h] : \/ Excused(t) \/ t \in seen
                        \/ \E k \in DOMAIN zmq : k < i /\ IsTx(zmq[k], t)

\* What the client has of a transaction, or gets with the next round.
Known(t, h) ==
  /\ t \in sent.txs \/ t \in cache.fresh
  /\ t \in sent.proofs[h] \/ (h \in cache.unsent /\ t \in cache.flags[h])

\* A block after the history that has come is known.
ReceivedInv ==
  Reading => \A h \in Heights : last < h /\ ~BlockFlies(h) =>
    \A t \in chain[h] : Excused(t) \/ h \in dropped \/ Known(t, h)

CallInv == ServingInv /\ HistoryInv /\ MemPoolInv /\ AwaitedInv /\ ReceivedInv
GapInv == EventInv /\ SeenInv /\ CallInv

-----------------------------------------------------------------------------
(* The parts a step leaves alone *)

LEMMA StoreKept ==
  ASSUME GapInv, UNCHANGED <<core, zmq, cache, seen>>
  PROVE  EventInv' /\ SeenInv'
BY DEF GapInv, EventInv, SeenInv, BlockFlies, core

LEMMA ServingKept ==
  ASSUME IInv, GapInv, UNCHANGED <<call, listed>>, height' \in Int, height <= height'
  PROVE  ServingInv'
<1>1. last \in Int /\ height \in Int
  BY HandlerTypes
<1>2. Serving' <=> Serving
  BY DEF Serving, call
<1> QED BY <1>1, <1>2 DEF GapInv, CallInv, ServingInv, call

LEMMA HistoryKept ==
  ASSUME IInv, GapInv, UNCHANGED call,
         \A h \in Heights : h <= height => chain'[h] = chain[h],
         sent.txs \subseteq sent'.txs,
         \A h \in Heights : sent.proofs[h] \subseteq sent'.proofs[h]
  PROVE  HistoryInv'
<1>1. UNCHANGED <<pc, from, last, next>> /\ height \in Int /\ last \in Int /\ next \in Int
  BY HandlerTypes DEF call
<1>2. \A h \in Heights : h <= height /\ HistorySent(h) => HistorySent(h)'
  BY DEF HistorySent
<1>3. /\ pc \in {"history", "proof"} => next <= last + 1 /\ last <= height
      /\ pc \in {"memPool", "live"} => last <= height
  BY DEF IInv, HandlerInv, GapInv, CallInv, ServingInv
<1>4. ASSUME pc \in {"history", "proof"}, NEW h \in Heights, from <= h /\ h < next
      PROVE  HistorySent(h)'
  <2>1. HistorySent(h) /\ h <= height
    BY <1>1, <1>3, <1>4 DEF GapInv, CallInv, HistoryInv
  <2> QED BY <1>2, <2>1
<1>5. ASSUME pc \in {"memPool", "live"}, NEW h \in Heights, from <= h /\ h <= last
      PROVE  HistorySent(h)'
  <2>1. HistorySent(h) /\ h <= height
    BY <1>1, <1>3, <1>5 DEF GapInv, CallInv, HistoryInv
  <2> QED BY <1>2, <2>1
<1> QED BY <1>1, <1>4, <1>5 DEF HistoryInv

LEMMA MemPoolKept ==
  ASSUME GapInv, UNCHANGED call,
         \A t \in InMemPool' : t \in InMemPool \/ TxFlies(t)',
         Serving => \A t \in InMemPool' : TxFlies(t) => t \in seen' \/ TxFlies(t)',
         seen \subseteq seen'
  PROVE  MemPoolInv'
<1>1. UNCHANGED <<pc, count, old, memPool>>
  BY DEF call
<1> SUFFICES ASSUME Serving', NEW t \in InMemPool'
             PROVE  /\ t \in seen' \/ TxFlies(t)' \/ t \in old'
                    /\ pc' = "memPool" => t \in seen' \/ TxFlies(t)' \/ t \in memPool'
                    /\ pc' = "live" => t \in seen' \/ TxFlies(t)'
  BY DEF MemPoolInv
<1>2. Serving
  BY <1>1 DEF Serving
<1>3. CASE TxFlies(t)'
  BY <1>3
<1>4. CASE t \in InMemPool
  BY <1>1, <1>2, <1>4 DEF GapInv, CallInv, MemPoolInv
<1> QED BY <1>3, <1>4

LEMMA ReceivedSame ==
  ASSUME GapInv, UNCHANGED <<old, last, core>>, Reading' => Reading,
         \A h \in Heights : ~BlockFlies(h)' => ~BlockFlies(h),
         dropped \subseteq dropped',
         \A h \in Heights, t \in Txs : last < h /\ t \in chain[h] /\ Known(t, h) =>
           h \in dropped' \/ Known(t, h)',
         chain \in [Heights -> SUBSET Txs]
  PROVE  ReceivedInv'
<1>1. UNCHANGED <<quiet, chain>>
  BY DEF core
<1> SUFFICES ASSUME Reading', NEW h \in Heights, last' < h, ~BlockFlies(h)', NEW t \in chain'[h]
             PROVE  Excused(t)' \/ h \in dropped' \/ Known(t, h)'
  BY DEF ReceivedInv
<1>2. Excused(t) \/ h \in dropped \/ Known(t, h)
  BY <1>1 DEF GapInv, CallInv, ReceivedInv
<1>3. t \in Txs
  BY <1>1
<1> QED BY <1>1, <1>2, <1>3 DEF Excused

LEMMA ReceivedKept ==
  ASSUME GapInv, UNCHANGED <<call, core>>,
         \A h \in Heights : ~BlockFlies(h)' => ~BlockFlies(h),
         dropped \subseteq dropped',
         \A h \in Heights, t \in Txs : last < h /\ t \in chain[h] /\ Known(t, h) =>
           h \in dropped' \/ Known(t, h)',
         chain \in [Heights -> SUBSET Txs]
  PROVE  ReceivedInv'
<1>1. UNCHANGED <<old, last>> /\ (Reading' => Reading)
  BY DEF call, Reading, Serving
<1> QED BY <1>1, ReceivedSame

\* The call does not serve any more.
LEMMA CallOver ==
  ASSUME pc' \in {"ended", "failed", "over"}
  PROVE  CallInv'
<1>1. ~Serving' /\ ~Reading'
  BY DEF Serving, Reading
<1> QED BY <1>1 DEF CallInv, ServingInv, HistoryInv, MemPoolInv, AwaitedInv, ReceivedInv

\* Steps that only the handler's variables see.
LEMMA AwaitedSame ==
  ASSUME GapInv, UNCHANGED <<core, zmq, old, last>>, Reading' => Reading, seen \subseteq seen'
  PROVE  AwaitedInv'
<1>1. UNCHANGED <<quiet, chain>>
  BY DEF core
<1>2. ASSUME Reading, NEW h \in Heights, NEW i \in DOMAIN zmq, IsBlock(zmq[i], h), last < h,
             NEW t \in chain[h]
      PROVE  Excused(t)' \/ t \in seen' \/ \E k \in DOMAIN zmq : k < i /\ IsTx(zmq[k], t)
  <2>1. Excused(t) \/ t \in seen \/ \E k \in DOMAIN zmq : k < i /\ IsTx(zmq[k], t)
    BY <1>2 DEF GapInv, CallInv, AwaitedInv
  <2> QED BY <1>1, <2>1 DEF Excused
<1> QED BY <1>1, <1>2 DEF AwaitedInv

LEMMA AwaitedKept ==
  ASSUME GapInv, UNCHANGED <<core, zmq, call>>, seen \subseteq seen'
  PROVE  AwaitedInv'
<1>1. UNCHANGED <<old, last>> /\ (Reading' => Reading)
  BY DEF call, Reading, Serving
<1> QED BY <1>1, AwaitedSame

-----------------------------------------------------------------------------
(* Core *)

\* Where the messages are after some more.
LEMMA PublishedEvents ==
  ASSUME NEW z \in Seq(Event), NEW es \in Seq(Event)
  PROVE  LET y == z \o es IN
         /\ Len(z) \in Nat /\ DOMAIN z = 1 .. Len(z) /\ DOMAIN es = 1 .. Len(es) /\ Len(es) \in Nat
         /\ \A i \in DOMAIN z : i \in DOMAIN y /\ y[i] = z[i]
         /\ \A k \in DOMAIN es : Len(z) + k \in DOMAIN y /\ y[Len(z) + k] = es[k]
         /\ \A i \in DOMAIN y : i \in DOMAIN z \/ \E k \in DOMAIN es : i = Len(z) + k
<1> DEFINE y == z \o es
<1>1. y \in Seq(Event) /\ Len(y) = Len(z) + Len(es)
      /\ \A i \in 1 .. Len(z) + Len(es) : y[i] = IF i <= Len(z) THEN z[i] ELSE es[i - Len(z)]
  BY ConcatProperties
<1> HIDE DEF y
<1>2. /\ DOMAIN z = 1 .. Len(z) /\ DOMAIN es = 1 .. Len(es) /\ DOMAIN y = 1 .. Len(z) + Len(es)
      /\ Len(z) \in Nat /\ Len(es) \in Nat
  BY <1>1, LenProperties
<1>3. \A i \in DOMAIN z : i \in DOMAIN y /\ y[i] = z[i]
  BY <1>1, <1>2
<1>4. ASSUME NEW k \in DOMAIN es
      PROVE  Len(z) + k \in DOMAIN y /\ y[Len(z) + k] = es[k]
  <2>1. k \in Nat /\ Len(z) + k \in 1 .. Len(z) + Len(es) /\ ~(Len(z) + k <= Len(z))
        /\ (Len(z) + k) - Len(z) = k
    BY <1>2
  <2> QED BY <1>1, <1>2, <2>1
<1>5. ASSUME NEW i \in DOMAIN y, i \notin DOMAIN z
      PROVE  \E k \in DOMAIN es : i = Len(z) + k
  <2>1. i - Len(z) \in DOMAIN es /\ i = Len(z) + (i - Len(z))
    BY <1>2, <1>5
  <2> QED BY <2>1
<1> QED BY <1>2, <1>3, <1>4, <1>5 DEF y

\* Messages that are not about a block
LEMMA NoBlockPublished ==
  ASSUME IInv, GapInv, NEW es \in Seq(Event), \A k \in DOMAIN es : es[k].kind # "block",
         zmq' = zmq \o es, \A t \in accepted' : t \in accepted \/ TxFlies(t)',
         UNCHANGED <<chain, height, quiet, call, listed, cache, sent, ghosts>>
  PROVE  GapInv'
<1>1. zmq \in Seq(Event) /\ height \in Int /\ chain \in [Heights -> SUBSET Txs]
  BY HandlerTypes
<1>2. /\ \A i \in DOMAIN zmq : i \in DOMAIN zmq' /\ zmq'[i] = zmq[i]
      /\ \A i \in DOMAIN zmq' : i \in DOMAIN zmq \/ zmq'[i].kind # "block"
  <2> DEFINE y == zmq \o es
  <2>0. \A i \in DOMAIN zmq : i \in DOMAIN y /\ y[i] = zmq[i]
    BY <1>1, PublishedEvents
  <2>1. \A k \in DOMAIN es : y[Len(zmq) + k] = es[k]
    BY <1>1, PublishedEvents
  <2>2. \A i \in DOMAIN y : i \in DOMAIN zmq \/ \E k \in DOMAIN es : i = Len(zmq) + k
    BY <1>1, PublishedEvents
  <2>3. zmq' = y
    OBVIOUS
  <2> HIDE DEF y
  <2>4. \A i \in DOMAIN y : i \in DOMAIN zmq \/ y[i].kind # "block"
    BY <2>1, <2>2
  <2> QED BY <2>0, <2>3, <2>4
<1>3. \A h \in Heights : \A i \in DOMAIN zmq' : IsBlock(zmq'[i], h) =>
        i \in DOMAIN zmq /\ IsBlock(zmq[i], h)
  BY <1>2 DEF IsBlock
<1>4. \A h \in Heights : BlockFlies(h)' <=> BlockFlies(h)
  BY <1>2, <1>3 DEF BlockFlies
<1>5. EventInv'
  BY <1>2, <1>3 DEF GapInv, EventInv
<1>6. SeenInv'
  <2>1. cache.blocks \subseteq Heights
    BY HandlerTypes, CacheFields
  <2>2. UNCHANGED <<cache, seen, chain, height>>
    BY DEF ghosts
  <2>3. \A h \in cache.blocks : h <= height /\ ~BlockFlies(h)'
    BY <1>4, <2>1 DEF GapInv, SeenInv
  <2>4. \A t \in seen :
          t \in cache.transactions \/ \E h \in Heights : t \in chain[h] /\ ~BlockFlies(h)'
    BY <1>4 DEF GapInv, SeenInv
  <2> QED BY <2>2, <2>3, <2>4 DEF SeenInv
<1>7. ServingInv'
  BY <1>1, ServingKept
<1>8. HistoryInv'
  BY HistoryKept
<1>9. \A t \in Txs : TxFlies(t) => TxFlies(t)'
  BY <1>2 DEF TxFlies
<1>10. MemPoolInv'
  <2>1. Mined' = Mined
    BY DEF Mined
  <2>2. InMemPool' \subseteq Txs
    <3>1. accepted' \subseteq Txs
      <4>1. \A t : TxFlies(t)' => t \in Txs
        <5>1. zmq' \in Seq(Event)
          BY <1>1, ConcatProperties
        <5>2. \A i \in DOMAIN zmq' : zmq'[i] \in Event
          BY <5>1
        <5> QED BY <5>2 DEF TxFlies, IsTx, Event
      <4> QED BY <4>1 DEF IInv, TypeOK
    <3> QED BY <3>1 DEF InMemPool
  <2>3. \A t \in InMemPool' : t \in InMemPool \/ TxFlies(t)'
    BY <2>1 DEF InMemPool
  <2>4. seen \subseteq seen'
    BY DEF ghosts
  <2> QED BY <1>9, <2>2, <2>3, <2>4, MemPoolKept
<1>11. UNCHANGED <<pc, count, old, last, seen, dropped>>
  BY DEF call, ghosts
<1>12. (Reading' <=> Reading) /\ \A t \in Txs : Excused(t)' <=> Excused(t)
  BY <1>11 DEF Reading, Serving, Excused
<1>13. AwaitedInv'
  <2> SUFFICES ASSUME Reading', NEW h \in Heights, NEW i \in DOMAIN zmq',
                  IsBlock(zmq'[i], h), last' < h,
                      NEW t \in chain'[h]
               PROVE  Excused(t)' \/ t \in seen' \/ \E k \in DOMAIN zmq' : k < i /\ IsTx(zmq'[k], t)
    BY DEF AwaitedInv
  <2>1. i \in DOMAIN zmq /\ IsBlock(zmq[i], h) /\ t \in chain[h] /\ t \in Txs
    BY <1>1, <1>3
  <2>2. Excused(t) \/ t \in seen \/ \E k \in DOMAIN zmq : k < i /\ IsTx(zmq[k], t)
    BY <1>11, <1>12, <2>1 DEF GapInv, CallInv, AwaitedInv
  <2> QED BY <1>2, <1>11, <1>12, <2>1, <2>2
<1>14. ReceivedInv'
  <2> SUFFICES ASSUME Reading', NEW h \in Heights, last' < h, ~BlockFlies(h)', NEW t \in chain'[h]
               PROVE  Excused(t)' \/ h \in dropped' \/ Known(t, h)'
    BY DEF ReceivedInv
  <2>1. t \in chain[h] /\ t \in Txs /\ ~BlockFlies(h)
    BY <1>1, <1>4
  <2>2. Excused(t) \/ h \in dropped \/ Known(t, h)
    BY <1>11, <1>12, <2>1 DEF GapInv, CallInv, ReceivedInv
  <2>3. Known(t, h) => Known(t, h)'
    BY DEF Known
  <2> QED BY <1>11, <1>12, <2>1, <2>2, <2>3
<1> QED BY <1>5, <1>6, <1>7, <1>8, <1>10, <1>13, <1>14 DEF GapInv, CallInv

LEMMA AcceptGap == ASSUME IInv, GapInv, NEW t \in Txs, Accept(t) PROVE GapInv'
<1> DEFINE es == <<[kind |-> "tx", tx |-> t]>>
<1>1. /\ accepted' = accepted \cup {t} /\ zmq' = zmq \o es
      /\ UNCHANGED <<chain, height, locked, quiet, call, listed, cache, sent, ghosts>>
  BY DEF Accept, Publish
<1>2. es \in Seq(Event) /\ DOMAIN es = {1} /\ es[1].kind = "tx" /\ es[1].tx = t
  <2>1. [kind |-> "tx", tx |-> t] \in Event
    BY DEF Event
  <2> QED BY <2>1
<1>3. zmq \in Seq(Event)
  BY HandlerTypes
<1> HIDE DEF es
<1>4. TxFlies(t)'
  <2>1. Len(zmq) + 1 \in DOMAIN zmq' /\ zmq'[Len(zmq) + 1] = es[1]
    BY <1>1, <1>2, <1>3, PublishedEvents
  <2> QED BY <1>2, <2>1 DEF TxFlies, IsTx
<1> QED BY <1>1, <1>2, <1>4, NoBlockPublished

LEMMA LockInstantlyGap == ASSUME IInv, GapInv, NEW t \in Txs, LockInstantly(t) PROVE GapInv'
<1> DEFINE es == <<[kind |-> "lock", tx |-> t]>>
<1>1. /\ zmq' = zmq \o es
      /\ UNCHANGED <<chain, height, accepted, quiet, call, listed, cache, sent, ghosts>>
  BY DEF LockInstantly, Publish
<1>2. es \in Seq(Event) /\ \A k \in DOMAIN es : es[k].kind # "block"
  <2>1. [kind |-> "lock", tx |-> t] \in Event
    BY DEF Event
  <2> QED BY <2>1
<1> HIDE DEF es
<1> QED BY <1>1, <1>2, NoBlockPublished

\* What is published with a block: its transactions, if again, and the block behind them.
LEMMA MinePublishes ==
  ASSUME IInv, NEW S \in SUBSET InMemPool, NEW again \in BOOLEAN, Mine(S, again)
  PROVE  \E es \in Seq(Event) : \E m \in DOMAIN es :
           /\ zmq' = zmq \o es
           /\ IsBlock(es[m], height + 1) /\ \A k \in DOMAIN es : es[k].kind = "block" => k = m
           /\ again => \A t \in S : \E k \in DOMAIN es : k < m /\ IsTx(es[k], t)
<1> DEFINE block == <<[kind |-> "block", height |-> height + 1]>>
           txs == [i \in 1 .. Cardinality(S) |-> [kind |-> "tx", tx |-> InOrder(S)[i]]]
<1>1. S \subseteq Txs /\ height + 1 \in Heights
  BY HandlerTypes DEF Mine
<1>2. block \in Seq(Event) /\ DOMAIN block = {1} /\ IsBlock(block[1], height + 1)
      /\ block[1].kind = "block"
  <2>1. [kind |-> "block", height |-> height + 1] \in Event
    BY <1>1 DEF Event
  <2> QED BY <2>1 DEF IsBlock
<1>3. /\ txs \in Seq(Event) /\ \A k \in DOMAIN txs : txs[k].kind = "tx"
      /\ \A t \in S : \E k \in DOMAIN txs : IsTx(txs[k], t)
  <2>1. \A i \in 1 .. Cardinality(S) : [kind |-> "tx", tx |-> InOrder(S)[i]] \in Event
    BY <1>1, BlockInOrder DEF Event
  <2>2. Cardinality(S) \in Nat /\ \A t \in S : \E i \in 1 .. Cardinality(S) : InOrder(S)[i] = t
    BY <1>1, BlockInOrder
  <2>3. txs \in [1 .. Cardinality(S) -> Event]
    BY <2>1
  <2>4. txs \in Seq(Event)
    <3> HIDE DEF txs
    <3> QED BY <2>2, <2>3, SeqDef
  <2>5. \A t \in S : \E k \in DOMAIN txs : IsTx(txs[k], t)
    BY <2>2 DEF IsTx
  <2> QED BY <2>4, <2>5
<1>4. CASE again
  <2>1. zmq' = zmq \o (txs \o block)
    BY <1>4 DEF Mine, Publish
  <2> DEFINE es == txs \o block
             m == Len(txs) + 1
  <2> HIDE DEF txs, block
  <2>2. /\ Len(txs) \in Nat /\ DOMAIN txs = 1 .. Len(txs)
        /\ \A i \in DOMAIN txs : i \in DOMAIN es /\ es[i] = txs[i]
        /\ m \in DOMAIN es /\ es[m] = block[1]
        /\ \A i \in DOMAIN es : i \in DOMAIN txs \/ i = m
    BY <1>2, <1>3, PublishedEvents
  <2>3. es \in Seq(Event)
    BY <1>2, <1>3, ConcatProperties
  <2> HIDE DEF es
  <2>4. \A k \in DOMAIN es : es[k].kind = "block" => k = m
    BY <1>3, <2>2
  <2>5. \A t \in S : \E k \in DOMAIN es : k < m /\ IsTx(es[k], t)
    <3> TAKE t \in S
    <3>1. PICK k \in DOMAIN txs : IsTx(txs[k], t)
      BY <1>3
    <3>2. k \in DOMAIN es /\ k < m /\ IsTx(es[k], t)
      BY <2>2, <3>1
    <3> QED BY <3>2
  <2>6. zmq' = zmq \o es /\ IsBlock(es[m], height + 1)
    BY <1>2, <2>1, <2>2 DEF es
  <2> HIDE DEF m
  <2>7. m \in DOMAIN es
    BY <2>2 DEF m
  <2> QED BY <2>3, <2>4, <2>5, <2>6, <2>7
<1>5. CASE ~again
  <2>1. zmq' = zmq \o block
    BY <1>5 DEF Mine, Publish
  <2> HIDE DEF txs, block
  <2> QED BY <1>2, <1>5, <2>1
<1> QED BY <1>4, <1>5

LEMMA MineGap ==
  ASSUME IInv, GapInv, NEW S \in SUBSET InMemPool, NEW again \in BOOLEAN, Mine(S, again)
  PROVE  GapInv'
\* a constant, for BlockFlies(new)'
<1>0. PICK new \in Heights : new = height + 1
  BY HandlerTypes DEF Mine
<1>1. /\ height' = new /\ chain' = [chain EXCEPT ![new] = S]
      /\ quiet' = IF again THEN quiet ELSE quiet \cup S
      /\ UNCHANGED <<accepted, locked, call, listed, cache, sent, ghosts>>
  BY <1>0 DEF Mine
<1>2. /\ height \in 0 .. MaxBlocks /\ new \in Heights /\ chain \in [Heights -> SUBSET Txs]
      /\ zmq \in Seq(Event) /\ S \subseteq Txs /\ height < new
  BY <1>0, HandlerTypes
<1>2a. PICK es \in Seq(Event) : \E m \in DOMAIN es :
         /\ zmq' = zmq \o es
         /\ IsBlock(es[m], height + 1) /\ \A k \in DOMAIN es : es[k].kind = "block" => k = m
         /\ again => \A t \in S : \E k \in DOMAIN es : k < m /\ IsTx(es[k], t)
  BY MinePublishes
<1>3. PICK m \in DOMAIN es :
        /\ zmq' = zmq \o es
        /\ IsBlock(es[m], new) /\ \A k \in DOMAIN es : es[k].kind = "block" => k = m
        /\ again => \A t \in S : \E k \in DOMAIN es : k < m /\ IsTx(es[k], t)
  BY <1>0, <1>2a
<1>4. /\ Len(zmq) \in Nat /\ DOMAIN zmq = 1 .. Len(zmq)
      /\ DOMAIN es = 1 .. Len(es) /\ Len(es) \in Nat
      /\ \A i \in DOMAIN zmq : i \in DOMAIN zmq' /\ zmq'[i] = zmq[i]
      /\ \A k \in DOMAIN es : Len(zmq) + k \in DOMAIN zmq' /\ zmq'[Len(zmq) + k] = es[k]
      /\ \A i \in DOMAIN zmq' : i \in DOMAIN zmq \/ \E k \in DOMAIN es : i = Len(zmq) + k
  BY <1>2, <1>3, PublishedEvents
<1>5. /\ chain'[new] = S /\ chain[new] = {}
      /\ \A h \in Heights : h # new => chain'[h] = chain[h]
      /\ \A h \in Heights : h <= height => chain'[h] = chain[h]
  BY <1>0, <1>1, <1>2 DEF IInv, ChainInv
<1> DEFINE p == Len(zmq) + m
<1>6. p \in DOMAIN zmq' /\ IsBlock(zmq'[p], new)
  BY <1>3, <1>4
<1>7. ASSUME NEW h \in Heights, NEW i \in DOMAIN zmq', IsBlock(zmq'[i], h)
      PROVE  \/ i = p /\ h = new
             \/ i \in DOMAIN zmq /\ IsBlock(zmq[i], h) /\ h <= height /\ h # new
  <2>1. CASE i \in DOMAIN zmq
    <3>1. zmq'[i] = zmq[i]
      BY <1>4, <2>1
    <3>2. h <= height
      BY <1>7, <2>1, <3>1 DEF GapInv, EventInv
    <3> QED BY <1>0, <1>2, <1>7, <2>1, <3>1, <3>2
  <2>2. CASE i \notin DOMAIN zmq
    <3>1. PICK k \in DOMAIN es : i = Len(zmq) + k /\ zmq'[i] = es[k]
      BY <1>4, <2>2
    <3>2. k = m
      BY <1>3, <1>7, <3>1 DEF IsBlock
    <3>3. h = new
      BY <1>3, <1>7, <3>1, <3>2 DEF IsBlock
    <3> QED BY <3>1, <3>2, <3>3
  <2> QED BY <2>1, <2>2
<1>8. \A h \in Heights : h # new => (BlockFlies(h)' <=> BlockFlies(h))
  BY <1>4, <1>7 DEF BlockFlies
<1>9. BlockFlies(new)'
  BY <1>6 DEF BlockFlies
<1> HIDE DEF p
<1>10. UNCHANGED <<pc, count, old, last, seen, dropped, cache, sent>>
  BY <1>1 DEF call, ghosts
<1>11. EventInv'
  <2> SUFFICES ASSUME NEW h \in Heights, NEW i \in DOMAIN zmq', IsBlock(zmq'[i], h)
               PROVE  h <= height' /\ \A k \in DOMAIN zmq' : IsBlock(zmq'[k], h) => i = k
    BY DEF EventInv
  <2>1. h <= height'
    BY <1>0, <1>1, <1>2, <1>7
  <2>2. ASSUME NEW k \in DOMAIN zmq', IsBlock(zmq'[k], h) PROVE i = k
    <3>1. \/ i = p /\ h = new
          \/ i \in DOMAIN zmq /\ IsBlock(zmq[i], h) /\ h # new
      BY <1>7
    <3>2. \/ k = p /\ h = new
          \/ k \in DOMAIN zmq /\ IsBlock(zmq[k], h) /\ h # new
      BY <1>7, <2>2
    <3> QED BY <3>1, <3>2 DEF GapInv, EventInv
  <2> QED BY <2>1, <2>2
<1>12. SeenInv'
  <2>1. cache.blocks \subseteq Heights
    BY HandlerTypes, CacheFields
  <2>2. ASSUME NEW h \in cache.blocks PROVE h <= height' /\ ~BlockFlies(h)'
    <3>1. h <= height /\ ~BlockFlies(h) /\ h \in Heights
      BY <2>1 DEF GapInv, SeenInv
    <3> QED BY <1>1, <1>2, <1>8, <3>1
  <2>3. ASSUME NEW t \in seen
        PROVE  t \in cache.transactions \/ \E h \in Heights : t \in chain'[h] /\ ~BlockFlies(h)'
    <3>1. CASE t \in cache.transactions
      BY <3>1
    <3>2. ASSUME NEW h \in Heights, t \in chain[h], ~BlockFlies(h)
          PROVE  t \in chain'[h] /\ ~BlockFlies(h)'
      BY <1>5, <1>8, <3>2
    <3> QED BY <3>1, <3>2 DEF GapInv, SeenInv
  <2> QED BY <1>10, <2>2, <2>3 DEF SeenInv
<1>13. ServingInv' /\ HistoryInv'
  <2>1. height' \in Int /\ height <= height'
    BY <1>1, <1>2
  <2> QED BY <1>1, <1>5, <2>1, ServingKept, HistoryKept
<1>14. \A t \in Txs : TxFlies(t) => TxFlies(t)'
  BY <1>4 DEF TxFlies
<1>15. MemPoolInv'
  <2>1. \A h \in Heights : chain[h] \subseteq chain'[h]
    BY <1>5
  <2>2. InMemPool' \subseteq InMemPool /\ InMemPool \subseteq Txs
    BY <1>1, <2>1, HandlerTypes DEF InMemPool, Mined
  <2> QED BY <1>1, <1>10, <1>14, <2>2, MemPoolKept
<1>16. (Reading' <=> Reading) /\ (Reading => Serving) /\ \A t : Excused(t) => Excused(t)'
  BY <1>1, <1>10 DEF Reading, Serving, Excused
<1>17. AwaitedInv'
  <2> SUFFICES ASSUME Reading', NEW h \in Heights, NEW i \in DOMAIN zmq',
                  IsBlock(zmq'[i], h), last' < h,
                      NEW t \in chain'[h]
               PROVE  Excused(t)' \/ t \in seen' \/ \E k \in DOMAIN zmq' : k < i /\ IsTx(zmq'[k], t)
    BY DEF AwaitedInv
  <2>1. CASE i \in DOMAIN zmq /\ IsBlock(zmq[i], h) /\ h # new
    <3>1. t \in chain[h]
      BY <1>5, <2>1
    <3>2. Excused(t) \/ t \in seen \/ \E k \in DOMAIN zmq : k < i /\ IsTx(zmq[k], t)
      BY <1>10, <1>16, <2>1, <3>1 DEF GapInv, CallInv, AwaitedInv
    <3> QED BY <1>4, <1>10, <1>16, <3>2
  <2>2. CASE i = p /\ h = new
    <3>1. t \in S /\ t \in InMemPool
      BY <1>5, <2>2
    <3>2. CASE again
      <4>1. PICK k \in DOMAIN es : k < m /\ IsTx(es[k], t)
        BY <1>3, <3>1, <3>2
      <4>2. Len(zmq) + k \in DOMAIN zmq' /\ IsTx(zmq'[Len(zmq) + k], t)
        BY <1>4, <4>1
      <4>3. Len(zmq) + k < i
        BY <1>4, <2>2, <4>1 DEF p
      <4> QED BY <4>2, <4>3
    <3>3. CASE ~again
      <4>1. t \in seen \/ TxFlies(t) \/ t \in old
        BY <1>16, <3>1 DEF GapInv, CallInv, MemPoolInv
      <4>2. t \in old => Excused(t)'
        BY <1>1, <1>10, <3>1, <3>3 DEF Excused
      <4>3. ASSUME TxFlies(t) PROVE \E k \in DOMAIN zmq' : k < i /\ IsTx(zmq'[k], t)
        <5>1. PICK k \in DOMAIN zmq : IsTx(zmq[k], t)
          BY <4>3 DEF TxFlies
        <5>2. k \in DOMAIN zmq' /\ IsTx(zmq'[k], t)
          BY <1>4, <5>1
        <5>3. k < i
          BY <1>4, <2>2 DEF p
        <5> QED BY <5>2, <5>3
      <4> QED BY <1>10, <4>1, <4>2, <4>3
    <3> QED BY <3>2, <3>3
  <2> QED BY <1>7, <2>1, <2>2
<1>18. ReceivedInv'
  <2> SUFFICES ASSUME Reading', NEW h \in Heights, last' < h, ~BlockFlies(h)', NEW t \in chain'[h]
               PROVE  Excused(t)' \/ h \in dropped' \/ Known(t, h)'
    BY DEF ReceivedInv
  <2>1. h # new /\ ~BlockFlies(h) /\ t \in chain[h]
    BY <1>5, <1>8, <1>9
  <2>2. Excused(t) \/ h \in dropped \/ Known(t, h)
    BY <1>10, <1>16, <2>1 DEF GapInv, CallInv, ReceivedInv
  <2>3. Known(t, h) => Known(t, h)'
    BY <1>10 DEF Known
  <2> QED BY <1>10, <1>16, <2>2, <2>3
<1> QED BY <1>11, <1>12, <1>13, <1>15, <1>17, <1>18 DEF GapInv, CallInv

-----------------------------------------------------------------------------
(* The listeners *)

\* What is still on its way when the first message has come
LEMMA TailFlies ==
  ASSUME IInv, GapInv, zmq # << >>, zmq' = Tail(zmq)
  PROVE  /\ \A h \in Heights : BlockFlies(h)' => BlockFlies(h) /\ ~IsBlock(Head(zmq), h)
         /\ \A h \in Heights : BlockFlies(h) => BlockFlies(h)' \/ IsBlock(Head(zmq), h)
         /\ \A t \in Txs : TxFlies(t) => TxFlies(t)' \/ IsTx(Head(zmq), t)
<1>1. /\ 1 \in DOMAIN zmq /\ Head(zmq) = zmq[1]
      /\ \A i \in DOMAIN zmq' : i + 1 \in DOMAIN zmq /\ zmq'[i] = zmq[i + 1] /\ i \in Nat \ {0}
  BY MessageTaken
<1>2. \A i \in DOMAIN zmq : i = 1 \/ (i - 1 \in DOMAIN zmq' /\ zmq'[i - 1] = zmq[i])
  <2>1. zmq \in Seq(Event)
    BY HandlerTypes
  <2>2. DOMAIN zmq = 1 .. Len(zmq) /\ Len(zmq) \in Nat \ {0}
    BY <2>1
  <2>3. /\ DOMAIN Tail(zmq) = 1 .. Len(zmq) - 1
        /\ \A i \in 1 .. Len(zmq) - 1 : Tail(zmq)[i] = zmq[i + 1]
    BY <2>1
  <2> QED BY <2>2, <2>3
<1>3. ASSUME NEW h \in Heights, BlockFlies(h)'
      PROVE  BlockFlies(h) /\ ~IsBlock(Head(zmq), h)
  <2>1. PICK i \in DOMAIN zmq' : IsBlock(zmq'[i], h)
    BY <1>3 DEF BlockFlies
  <2>2. i + 1 \in DOMAIN zmq /\ IsBlock(zmq[i + 1], h) /\ i + 1 # 1
    BY <1>1, <2>1
  <2>3. IsBlock(zmq[1], h) => 1 = i + 1
    BY <1>1, <2>2 DEF GapInv, EventInv
  <2> QED BY <1>1, <2>2, <2>3 DEF BlockFlies
<1>4. ASSUME NEW h \in Heights, BlockFlies(h)
      PROVE  BlockFlies(h)' \/ IsBlock(Head(zmq), h)
  BY <1>1, <1>2, <1>4 DEF BlockFlies
<1>5. ASSUME NEW t \in Txs, TxFlies(t)
      PROVE  TxFlies(t)' \/ IsTx(Head(zmq), t)
  BY <1>1, <1>2, <1>5 DEF TxFlies
<1> QED BY <1>3, <1>4, <1>5

LEMMA TailKept ==
  ASSUME IInv, GapInv, zmq # << >>, zmq' = Tail(zmq), UNCHANGED <<core, call, listed>>,
         seen \subseteq seen', \A t \in Txs : Serving /\ IsTx(Head(zmq), t) => t \in seen',
         sent.txs \subseteq sent'.txs, \A h \in Heights : sent.proofs[h] \subseteq sent'.proofs[h]
  PROVE  EventInv' /\ ServingInv' /\ HistoryInv' /\ MemPoolInv' /\ AwaitedInv'
<1>1. /\ 1 \in DOMAIN zmq /\ Head(zmq) = zmq[1]
      /\ \A i \in DOMAIN zmq' : i + 1 \in DOMAIN zmq /\ zmq'[i] = zmq[i + 1] /\ i \in Nat \ {0}
  BY MessageTaken
<1>2. UNCHANGED <<chain, height, accepted, quiet, pc, count, old, last>>
  BY DEF core, call
<1>3. height \in Int /\ chain \in [Heights -> SUBSET Txs]
      /\ InMemPool \subseteq Txs /\ zmq \in Seq(Event)
  BY HandlerTypes
<1>4. EventInv'
  <2> SUFFICES ASSUME NEW h \in Heights, NEW i \in DOMAIN zmq', IsBlock(zmq'[i], h)
               PROVE  h <= height' /\ \A k \in DOMAIN zmq' : IsBlock(zmq'[k], h) => i = k
    BY DEF EventInv
  <2>1. i + 1 \in DOMAIN zmq /\ IsBlock(zmq[i + 1], h) /\ i \in Nat
    BY <1>1
  <2>2. ASSUME NEW k \in DOMAIN zmq', IsBlock(zmq'[k], h) PROVE i = k
    <3>1. k + 1 \in DOMAIN zmq /\ IsBlock(zmq[k + 1], h) /\ k \in Nat
      BY <1>1, <2>2
    <3>2. i + 1 = k + 1
      BY <2>1, <3>1 DEF GapInv, EventInv
    <3> QED BY <2>1, <3>1, <3>2
  <2>3. h <= height
    BY <2>1 DEF GapInv, EventInv
  <2> QED BY <1>2, <2>2, <2>3
<1>5. ServingInv'
  BY <1>2, <1>3, ServingKept
<1>6. HistoryInv'
  BY <1>2, HistoryKept
<1>7. MemPoolInv'
  <2>1. InMemPool' = InMemPool
    BY <1>2 DEF InMemPool, Mined
  <2>2. Serving => \A t \in InMemPool' : TxFlies(t) => t \in seen' \/ TxFlies(t)'
    BY <1>3, <2>1, TailFlies
  <2> QED BY <2>1, <2>2, MemPoolKept
<1>8. AwaitedInv'
  <2> SUFFICES ASSUME Reading', NEW h \in Heights, NEW i \in DOMAIN zmq',
                  IsBlock(zmq'[i], h), last' < h,
                      NEW t \in chain'[h]
               PROVE  Excused(t)' \/ t \in seen' \/ \E k \in DOMAIN zmq' : k < i /\ IsTx(zmq'[k], t)
    BY DEF AwaitedInv
  <2>1. Reading /\ Serving /\ last < h /\ t \in chain[h] /\ t \in Txs
    BY <1>2, <1>3 DEF Reading, Serving
  <2>2. i + 1 \in DOMAIN zmq /\ IsBlock(zmq[i + 1], h) /\ i \in Nat
    BY <1>1
  <2>3. Excused(t) \/ t \in seen \/ \E k \in DOMAIN zmq : k < i + 1 /\ IsTx(zmq[k], t)
    BY <2>1, <2>2 DEF GapInv, CallInv, AwaitedInv
  <2>4. ASSUME NEW k \in DOMAIN zmq, k < i + 1, IsTx(zmq[k], t)
        PROVE  t \in seen' \/ \E j \in DOMAIN zmq' : j < i /\ IsTx(zmq'[j], t)
    <3>1. CASE k = 1
      BY <1>1, <2>1, <2>4, <3>1
    <3>2. CASE k # 1
      <4>1. k \in 1 .. Len(zmq) /\ Len(zmq) \in Nat
        BY <1>3
      <4>2. k - 1 \in DOMAIN zmq' /\ zmq'[k - 1] = zmq[k]
        BY <1>3, <3>2, <4>1
      <4>3. k - 1 < i
        BY <2>2, <2>4, <4>1
      <4> QED BY <2>4, <4>2, <4>3
    <3> QED BY <3>1, <3>2
  <2>5. Excused(t) => Excused(t)'
    BY <1>2 DEF Excused
  <2> QED BY <2>3, <2>4, <2>5
<1> QED BY <1>4, <1>5, <1>6, <1>7, <1>8

\* A step after which the cache has at least the transactions it had, and the blocks.
LEMMA SeenKept ==
  ASSUME GapInv, UNCHANGED core, \A h \in Heights : BlockFlies(h)' => BlockFlies(h),
         cache'.blocks \subseteq cache.blocks, cache.blocks \subseteq Heights,
         cache.transactions \subseteq cache'.transactions,
         \A t \in seen' : t \in seen \/ t \in cache'.transactions
  PROVE  SeenInv'
<1>1. UNCHANGED <<chain, height>>
  BY DEF core
<1>2. \A h \in cache'.blocks : h <= height' /\ ~BlockFlies(h)'
  BY <1>1 DEF GapInv, SeenInv
<1>3. \A t \in seen' :
        t \in cache'.transactions \/ \E h \in Heights : t \in chain'[h] /\ ~BlockFlies(h)'
  BY <1>1 DEF GapInv, SeenInv
<1> QED BY <1>2, <1>3 DEF SeenInv

\* What the listener for blocks leaves in the cache: put is the cache before it made
\* room for the block.
LEMMA BlockReceived ==
  ASSUME IInv, NEW h \in Heights, ReceiveBlock(h), UNCHANGED core
  PROVE  /\ UNCHANGED sent /\ seen \subseteq seen'
         /\ \E put \in Cache :
              /\ cache.transactions \subseteq put.transactions /\ cache.fresh \subseteq put.fresh
              /\ \A t \in seen' : t \in seen \/ t \in put.transactions
              /\ \A t \in put.transactions : t \in put.fresh \/ t \in sent.txs
              /\ put.blocks \subseteq cache.blocks \cup {h} /\ cache.unsent \subseteq put.unsent
              /\ \A g \in Heights : g # h => put.flags[g] = cache.flags[g]
              /\ chain[h] \cap put.transactions # {} =>
                   h \in put.unsent /\ put.flags[h] = chain[h] \cap put.transactions
              /\ cache'.blocks \subseteq put.blocks /\ cache'.flags = put.flags
              /\ dropped' = dropped \cup
                   {b \in Shifted(put) : b \in put.unsent \/ chain[b] \cap put.fresh # {}}
              /\ \/ /\ cache'.transactions = put.transactions /\ cache'.fresh = put.fresh
                    /\ cache'.unsent = put.unsent
                 \/ \E b \in Shifted(put) :
                      /\ b \in Heights
                      /\ cache'.transactions = put.transactions \ chain[b]
                      /\ cache'.fresh = put.fresh \ chain[b] /\ cache'.unsent = put.unsent \ {b}
<1> DEFINE tested == IF cache.blocks = {} THEN chain[h] ELSE {}
           known == AddTransactions(cache, tested)
           put == PutBlock(known, h)
<1>1. /\ cache' = MakeRoom(put)
      /\ dropped' = dropped \cup
           {b \in Shifted(put) : b \in put.unsent \/ chain[b] \cap put.fresh # {}}
      /\ seen' = seen \cup tested
      /\ UNCHANGED sent
  BY DEF ReceiveBlock
<1>2. chain \in [Heights -> SUBSET Txs] /\ cache \in Cache
  BY HandlerTypes
<1>3. tested \in SUBSET Txs
  BY <1>2
<1> HIDE DEF tested
<1>4. /\ known \in Cache
      /\ known.transactions = cache.transactions \cup tested
      /\ known.fresh = cache.fresh \cup (tested \ cache.transactions)
      /\ known.blocks = cache.blocks /\ known.unsent = cache.unsent /\ known.flags = cache.flags
  BY <1>2, <1>3, Added
<1> HIDE DEF known
<1>5. /\ put \in Cache
      /\ put.transactions = known.transactions /\ put.fresh = known.fresh
      /\ put.blocks \subseteq known.blocks \cup {h} /\ known.unsent \subseteq put.unsent
      /\ \A g \in Heights : g # h => put.flags[g] = known.flags[g]
      /\ chain[h] \cap known.transactions # {} =>
           h \in put.unsent /\ put.flags[h] = chain[h] \cap known.transactions
  BY <1>4, BlockPut
<1> HIDE DEF put
<1>6. \A t \in put.transactions : t \in put.fresh \/ t \in sent.txs
  BY <1>4, <1>5 DEF IInv, DataInv, CacheInv
<1>7. /\ cache'.flags = put.flags /\ cache'.blocks \subseteq put.blocks
      /\ \/ /\ cache'.transactions = put.transactions /\ cache'.fresh = put.fresh
            /\ cache'.unsent = put.unsent
         \/ \E b \in Shifted(put) :
              /\ b \in Heights
              /\ cache'.transactions = put.transactions \ chain[b]
              /\ cache'.fresh = put.fresh \ chain[b] /\ cache'.unsent = put.unsent \ {b}
  BY <1>1, <1>5, RoomMade
<1>8. /\ cache.transactions \subseteq put.transactions /\ cache.fresh \subseteq put.fresh
      /\ \A t \in seen' : t \in seen \/ t \in put.transactions
      /\ put.blocks \subseteq cache.blocks \cup {h} /\ cache.unsent \subseteq put.unsent
      /\ \A g \in Heights : g # h => put.flags[g] = cache.flags[g]
      /\ chain[h] \cap put.transactions # {} =>
           h \in put.unsent /\ put.flags[h] = chain[h] \cap put.transactions
  BY <1>1, <1>4, <1>5
<1>9. UNCHANGED sent /\ seen \subseteq seen'
  BY <1>1
<1> QED BY <1>1, <1>5, <1>6, <1>7, <1>8, <1>9

\* A block whose transactions reached the cache before it is known with it.
LEMMA ReceiveBlockGap ==
  ASSUME IInv, GapInv, NEW h \in Heights, zmq # << >>, IsBlock(Head(zmq), h), ReceiveBlock(h),
         zmq' = Tail(zmq), UNCHANGED <<core, call, listed>>
  PROVE  GapInv'
<1>1. UNCHANGED sent /\ seen \subseteq seen'
  BY BlockReceived
<1>2. PICK put \in Cache :
        /\ cache.transactions \subseteq put.transactions /\ cache.fresh \subseteq put.fresh
        /\ \A t \in seen' : t \in seen \/ t \in put.transactions
        /\ \A t \in put.transactions : t \in put.fresh \/ t \in sent.txs
        /\ put.blocks \subseteq cache.blocks \cup {h} /\ cache.unsent \subseteq put.unsent
        /\ \A g \in Heights : g # h => put.flags[g] = cache.flags[g]
        /\ chain[h] \cap put.transactions # {} =>
             h \in put.unsent /\ put.flags[h] = chain[h] \cap put.transactions
        /\ cache'.blocks \subseteq put.blocks /\ cache'.flags = put.flags
        /\ dropped' = dropped \cup
             {b \in Shifted(put) : b \in put.unsent \/ chain[b] \cap put.fresh # {}}
        /\ \/ /\ cache'.transactions = put.transactions /\ cache'.fresh = put.fresh
              /\ cache'.unsent = put.unsent
           \/ \E b \in Shifted(put) :
                /\ b \in Heights
                /\ cache'.transactions = put.transactions \ chain[b]
                /\ cache'.fresh = put.fresh \ chain[b] /\ cache'.unsent = put.unsent \ {b}
  BY BlockReceived
<1>3. /\ UNCHANGED <<chain, height, quiet, pc, count, old, last>>
      /\ chain \in [Heights -> SUBSET Txs] /\ height \in Int
      /\ \A f, g \in Heights : f # g => chain[f] \cap chain[g] = {}
      /\ \A b \in Shifted(put) : b \in put.blocks
  <2>1. UNCHANGED <<chain, height, quiet, pc, count, old, last>>
    BY DEF core, call
  <2>2. chain \in [Heights -> SUBSET Txs] /\ height \in Int
    BY HandlerTypes
  <2>3. \A f, g \in Heights : f # g => chain[f] \cap chain[g] = {}
    BY DEF IInv, ChainInv
  <2>4. \A b \in Shifted(put) : b \in put.blocks
    BY DEF Shifted
  <2> QED BY <2>1, <2>2, <2>3, <2>4
<1>4. /\ \A g \in Heights : BlockFlies(g)' => BlockFlies(g)
      /\ \A g \in Heights : BlockFlies(g) /\ g # h => BlockFlies(g)'
      /\ ~BlockFlies(h)' /\ BlockFlies(h) /\ h <= height
      /\ 1 \in DOMAIN zmq /\ IsBlock(zmq[1], h)
  <2>1. /\ \A g \in Heights : BlockFlies(g)' => BlockFlies(g) /\ ~IsBlock(Head(zmq), g)
        /\ \A g \in Heights : BlockFlies(g) => BlockFlies(g)' \/ IsBlock(Head(zmq), g)
    BY TailFlies
  <2>2. 1 \in DOMAIN zmq /\ IsBlock(zmq[1], h)
    BY MessageTaken
  <2>3. h <= height /\ BlockFlies(h)
    BY <2>2 DEF GapInv, EventInv, BlockFlies
  <2>4. \A g \in Heights : IsBlock(Head(zmq), g) => g = h
    BY DEF IsBlock
  <2> QED BY <2>1, <2>2, <2>3, <2>4
<1>5. EventInv' /\ ServingInv' /\ HistoryInv' /\ MemPoolInv' /\ AwaitedInv'
  <2>1. \A t \in Txs : ~IsTx(Head(zmq), t)
    BY DEF IsBlock, IsTx
  <2> QED BY <1>1, <2>1, TailKept
<1>6. \A g \in put.blocks : g \in Heights /\ g <= height /\ ~BlockFlies(g)'
  <2>1. put.blocks \subseteq Heights
    BY CacheFields
  <2>2. \A g \in cache.blocks : g <= height /\ ~BlockFlies(g)
    BY DEF GapInv, SeenInv
  <2> QED BY <1>2, <1>4, <2>1, <2>2
<1>7. SeenInv'
  <2>1. \A g \in cache'.blocks : g <= height' /\ ~BlockFlies(g)'
    BY <1>2, <1>3, <1>6
  <2>2. ASSUME NEW t \in seen'
        PROVE  t \in cache'.transactions \/ \E g \in Heights : t \in chain'[g] /\ ~BlockFlies(g)'
    <3>1. t \in put.transactions \/ \E g \in Heights : t \in chain[g] /\ ~BlockFlies(g)'
      BY <1>2, <1>4 DEF GapInv, SeenInv
    <3>2. ASSUME t \in put.transactions, t \notin cache'.transactions
          PROVE  \E g \in Heights : t \in chain[g] /\ ~BlockFlies(g)'
      <4>1. PICK b \in Shifted(put) : b \in Heights /\ t \in chain[b]
        BY <1>2, <3>2
      <4>2. b \in put.blocks
        BY <1>3
      <4> QED BY <1>6, <4>1, <4>2
    <3> QED BY <1>3, <3>1, <3>2
  <2> QED BY <2>1, <2>2 DEF SeenInv
<1>8. ASSUME NEW g \in Heights, NEW t \in chain[g],
             t \in sent.txs \/ t \in put.fresh,
             t \in sent.proofs[g] \/ (g \in put.unsent /\ t \in put.flags[g])
      PROVE  g \in dropped' \/ Known(t, g)'
  <2>1. CASE /\ cache'.transactions = put.transactions /\ cache'.fresh = put.fresh
             /\ cache'.unsent = put.unsent
    BY <1>1, <1>2, <1>8, <2>1 DEF Known
  <2>2. ASSUME NEW b \in Shifted(put), b \in Heights,
               cache'.fresh = put.fresh \ chain[b], cache'.unsent = put.unsent \ {b}
        PROVE  g \in dropped' \/ Known(t, g)'
    <3>1. CASE b = g
      <4>1. g \in put.unsent \/ t \in put.fresh => g \in dropped'
        BY <1>2, <2>2, <3>1
      <4>2. t \in sent.txs /\ t \in sent.proofs[g] => Known(t, g)'
        BY <1>1 DEF Known
      <4> QED BY <1>8, <4>1, <4>2
    <3>2. CASE b # g
      <4>1. t \notin chain[b]
        BY <1>3, <2>2, <3>2
      <4> QED BY <1>1, <1>2, <1>8, <2>2, <3>2, <4>1 DEF Known
    <3> QED BY <3>1, <3>2
  <2> QED BY <1>2, <2>1, <2>2
<1>9. ReceivedInv'
  <2> SUFFICES ASSUME Reading', NEW g \in Heights, last' < g, ~BlockFlies(g)', NEW t \in chain'[g]
               PROVE  Excused(t)' \/ g \in dropped' \/ Known(t, g)'
    BY DEF ReceivedInv
  <2>1. Reading /\ last < g /\ t \in chain[g] /\ (Excused(t) => Excused(t)')
    BY <1>3 DEF Reading, Serving, Excused
  <2>2. CASE g = h
    <3>1. Excused(t) \/ t \in seen
      <4>1. Excused(t) \/ t \in seen \/ \E k \in DOMAIN zmq : k < 1 /\ IsTx(zmq[k], t)
        BY <1>4, <2>1, <2>2 DEF GapInv, CallInv, AwaitedInv
      <4>2. \A k \in DOMAIN zmq : ~(k < 1)
        <5>1. zmq \in Seq(Event)
          BY HandlerTypes
        <5>2. DOMAIN zmq = 1 .. Len(zmq) /\ Len(zmq) \in Nat
          BY <5>1
        <5> QED BY <5>2
      <4> QED BY <4>1, <4>2
    <3>2. CASE t \in seen
      <4>1. \A f \in Heights : t \in chain[f] => BlockFlies(f)
        BY <1>3, <1>4, <2>1, <2>2
      <4>2. t \in cache.transactions
        BY <3>2, <4>1 DEF GapInv, SeenInv
      <4>3. t \in put.transactions /\ t \in chain[h] \cap put.transactions
        BY <1>2, <2>1, <2>2, <4>2
      <4>4. h \in put.unsent /\ t \in put.flags[h] /\ (t \in put.fresh \/ t \in sent.txs)
        BY <1>2, <4>3
      <4> QED BY <1>8, <2>1, <2>2, <4>4
    <3> QED BY <2>1, <3>1, <3>2
  <2>3. CASE g # h
    <3>1. ~BlockFlies(g)
      BY <1>4, <2>3
    <3>2. Excused(t) \/ g \in dropped \/ Known(t, g)
      BY <2>1, <3>1 DEF GapInv, CallInv, ReceivedInv
    <3>3. g \in dropped => g \in dropped'
      BY <1>2
    <3>4. Known(t, g) => g \in dropped' \/ Known(t, g)'
      <4>1. /\ put.flags[g] = cache.flags[g] /\ cache.fresh \subseteq put.fresh
             /\ cache.unsent \subseteq put.unsent
        BY <1>2, <2>3
      <4> QED BY <1>8, <2>1, <4>1 DEF Known
    <3> QED BY <2>1, <3>2, <3>3, <3>4
  <2> QED BY <2>2, <2>3
<1> QED BY <1>5, <1>7, <1>9 DEF GapInv, CallInv

\* A transaction reaches the cache, by a message or another call.
LEMMA MatchFields ==
  ASSUME IInv, NEW t \in Txs, Match(t)
  PROVE  /\ seen' = seen \cup {t} /\ UNCHANGED <<sent, heard, dropped>>
         /\ cache'.blocks = cache.blocks /\ cache'.unsent = cache.unsent
         /\ cache'.flags = cache.flags
         /\ cache'.transactions = cache.transactions \cup {t} /\ cache.fresh \subseteq cache'.fresh
<1>1. /\ cache' = AddTransactions(cache, {t}) /\ seen' = seen \cup {t}
      /\ UNCHANGED <<sent, heard, dropped>>
  BY DEF Match
<1>2. cache \in Cache /\ {t} \in SUBSET Txs
  BY HandlerTypes
<1> QED BY <1>1, <1>2, Added

LEMMA MatchGap ==
  ASSUME IInv, GapInv, NEW t \in Txs, Match(t), UNCHANGED core,
         \A h \in Heights : BlockFlies(h)' <=> BlockFlies(h), UNCHANGED call
  PROVE  SeenInv' /\ ReceivedInv' /\ UNCHANGED sent /\ seen \subseteq seen' /\ t \in seen'
<1>1. /\ seen' = seen \cup {t} /\ UNCHANGED <<sent, heard, dropped>>
      /\ cache'.blocks = cache.blocks /\ cache'.unsent = cache.unsent /\ cache'.flags = cache.flags
      /\ cache'.transactions = cache.transactions \cup {t} /\ cache.fresh \subseteq cache'.fresh
  BY MatchFields
<1>2. cache.blocks \subseteq Heights /\ chain \in [Heights -> SUBSET Txs]
  BY HandlerTypes, CacheFields
<1>3. SeenInv'
  BY <1>1, <1>2, SeenKept
<1>4. \A h \in Heights, u \in Txs : Known(u, h) => Known(u, h)'
  BY <1>1 DEF Known
<1>5. ReceivedInv'
  BY <1>1, <1>2, <1>4, ReceivedKept
<1> QED BY <1>1, <1>3, <1>5

\* A lock changes nothing of this.
LEMMA LockFields ==
  ASSUME IInv, NEW t \in Txs, ReceiveLock(t)
  PROVE  /\ UNCHANGED <<seen, dropped>>
         /\ cache'.blocks = cache.blocks /\ cache'.unsent = cache.unsent
         /\ cache'.flags = cache.flags
         /\ cache'.transactions = cache.transactions /\ cache'.fresh = cache.fresh
         /\ sent'.txs = sent.txs /\ sent'.proofs = sent.proofs
<1>1. UNCHANGED <<seen, dropped>>
  BY DEF ReceiveLock
<1>2. CASE cache' = CollectLock(cache, t) /\ sent' = sent
  BY <1>1, <1>2 DEF CollectLock
<1>3. CASE /\ cache' = RemoveLock(cache, t)
           /\ sent' = [txs |-> sent.txs, proofs |-> sent.proofs,
                       locks |-> [sent.locks EXCEPT ![t] = @ + 1]]
  BY <1>1, <1>3 DEF RemoveLock
<1>4. CASE UNCHANGED <<cache, sent>>
  BY <1>1, <1>4
<1> QED BY <1>2, <1>3, <1>4 DEF ReceiveLock

LEMMA DeliverGap == ASSUME IInv, GapInv, Deliver PROVE GapInv'
<1> DEFINE e == Head(zmq)
<1>1. zmq # << >> /\ zmq' = Tail(zmq) /\ UNCHANGED <<core, call, listed>>
  BY DEF Deliver
<1>2. e \in Event
  BY <1>1, MessageTaken
<1>3. \/ ~listed /\ UNCHANGED <<cache, sent, ghosts>>
      \/ listed /\ e.kind = "tx" /\ Match(e.tx)
      \/ listed /\ e.kind = "block" /\ ReceiveBlock(e.height)
      \/ listed /\ e.kind = "lock" /\ ReceiveLock(e.tx)
  BY DEF Deliver
<1>4. /\ e.kind = "tx" => e.tx \in Txs
      /\ e.kind = "block" => e.height \in Heights
      /\ e.kind = "lock" => e.tx \in Txs
  BY <1>2 DEF Event
<1>5. /\ \A h \in Heights : BlockFlies(h)' => BlockFlies(h)
      /\ \A h \in Heights : BlockFlies(h) => BlockFlies(h)' \/ IsBlock(e, h)
  BY <1>1, TailFlies
<1>6. cache.blocks \subseteq Heights /\ chain \in [Heights -> SUBSET Txs]
  BY HandlerTypes, CacheFields
<1>7. CASE ~listed /\ UNCHANGED <<cache, sent, ghosts>>
  <2>1. ~Serving /\ ~Reading'
    BY <1>1, <1>7 DEF GapInv, CallInv, ServingInv, Serving, Reading, call
  <2>2. UNCHANGED <<seen, cache, sent>>
    BY <1>7 DEF ghosts
  <2>3. EventInv' /\ ServingInv' /\ HistoryInv' /\ MemPoolInv' /\ AwaitedInv'
    BY <1>1, <2>1, <2>2, TailKept
  <2>4. SeenInv'
    BY <1>1, <1>5, <1>6, <2>2, SeenKept
  <2>5. ReceivedInv'
    BY <2>1 DEF ReceivedInv
  <2> QED BY <2>3, <2>4, <2>5 DEF GapInv, CallInv
<1>8. CASE e.kind = "tx" /\ Match(e.tx)
  <2>1. PICK t \in Txs : t = e.tx
    BY <1>4, <1>8
  <2>2. \A h \in Heights : BlockFlies(h)' <=> BlockFlies(h)
    BY <1>5, <1>8 DEF IsBlock
  <2>3. SeenInv' /\ ReceivedInv' /\ UNCHANGED sent /\ seen \subseteq seen' /\ t \in seen'
    BY <1>1, <1>8, <2>1, <2>2, MatchGap
  <2>4. \A u \in Txs : IsTx(Head(zmq), u) => u \in seen'
    BY <2>1, <2>3 DEF IsTx
  <2>5. EventInv' /\ ServingInv' /\ HistoryInv' /\ MemPoolInv' /\ AwaitedInv'
    BY <1>1, <2>3, <2>4, TailKept
  <2> QED BY <2>3, <2>5 DEF GapInv, CallInv
<1>9. CASE e.kind = "block" /\ ReceiveBlock(e.height)
  <2>1. PICK h \in Heights : h = e.height
    BY <1>4, <1>9
  <2>2. IsBlock(Head(zmq), h) /\ ReceiveBlock(h)
    BY <1>9, <2>1 DEF IsBlock
  <2> QED BY <1>1, <2>2, ReceiveBlockGap
<1>10. CASE e.kind = "lock" /\ ReceiveLock(e.tx)
  <2>1. /\ UNCHANGED <<seen, dropped>>
        /\ cache'.blocks = cache.blocks /\ cache'.unsent = cache.unsent
        /\ cache'.flags = cache.flags
        /\ cache'.transactions = cache.transactions /\ cache'.fresh = cache.fresh
        /\ sent'.txs = sent.txs /\ sent'.proofs = sent.proofs
    BY <1>4, <1>10, LockFields
  <2>2. \A h \in Heights : BlockFlies(h)' <=> BlockFlies(h)
    BY <1>5, <1>10 DEF IsBlock
  <2>3. \A t \in Txs : ~IsTx(Head(zmq), t)
    BY <1>10 DEF IsTx
  <2>4. EventInv' /\ ServingInv' /\ HistoryInv' /\ MemPoolInv' /\ AwaitedInv'
    BY <1>1, <2>1, <2>3, TailKept
  <2>5. SeenInv'
    BY <1>1, <1>5, <1>6, <2>1, SeenKept
  <2>6. \A h \in Heights, u \in Txs : Known(u, h) => Known(u, h)'
    BY <2>1 DEF Known
  <2>7. ReceivedInv'
    BY <1>1, <1>6, <2>1, <2>2, <2>6, ReceivedKept
  <2> QED BY <2>4, <2>5, <2>7 DEF GapInv, CallInv
<1> QED BY <1>3, <1>7, <1>8, <1>9, <1>10

LEMMA OtherCallTestsGap == ASSUME IInv, GapInv, NEW t \in Txs, OtherCallTests(t) PROVE GapInv'
<1>1. Match(t) /\ UNCHANGED <<core, zmq, call, listed>>
  BY DEF OtherCallTests
<1>2. /\ \A h \in Heights : BlockFlies(h)' <=> BlockFlies(h)
      /\ \A u \in Txs : TxFlies(u) => TxFlies(u)'
  BY <1>1 DEF BlockFlies, TxFlies
<1>3. SeenInv' /\ ReceivedInv' /\ UNCHANGED sent /\ seen \subseteq seen'
  BY <1>1, <1>2, MatchGap
<1>4. UNCHANGED <<chain, height, accepted>>
  BY <1>1 DEF core
<1>5. EventInv'
  BY <1>1, <1>4 DEF GapInv, EventInv
<1>6. ServingInv' /\ HistoryInv'
  <2>1. height \in Int
    BY HandlerTypes
  <2> QED BY <1>1, <1>3, <1>4, <2>1, ServingKept, HistoryKept
<1>7. MemPoolInv'
  <2>1. InMemPool' = InMemPool /\ InMemPool \subseteq Txs
    BY <1>4, HandlerTypes DEF InMemPool, Mined
  <2> QED BY <1>1, <1>2, <1>3, <2>1, MemPoolKept
<1>8. AwaitedInv'
  BY <1>1, <1>3, AwaitedKept
<1> QED BY <1>3, <1>5, <1>6, <1>7, <1>8 DEF GapInv, CallInv

-----------------------------------------------------------------------------
(* The handler *)

LEMMA SubscribeGap ==
  ASSUME IInv, GapInv, NEW f \in Heights, NEW n \in Counts, Subscribe(f, n)
  PROVE  GapInv'
<1>1. /\ pc' = "range" /\ from' = f /\ next' = f /\ count' = n
      /\ listed' = (n = 0) /\ old' = InMemPool
      /\ UNCHANGED <<core, zmq, memPool, cache, sent, ghosts>>
  BY DEF Subscribe
<1>2. EventInv' /\ SeenInv'
  BY <1>1, StoreKept DEF ghosts
<1>3. ServingInv'
  BY <1>1 DEF ServingInv, Serving
<1>4. MemPoolInv'
  <2>1. InMemPool' = InMemPool
    BY <1>1 DEF InMemPool, Mined, core
  <2> QED BY <1>1, <2>1 DEF MemPoolInv
<1>5. HistoryInv' /\ AwaitedInv' /\ ReceivedInv'
  BY <1>1 DEF HistoryInv, AwaitedInv, ReceivedInv, Reading
<1> QED BY <1>2, <1>3, <1>4, <1>5 DEF GapInv, CallInv

\* The history ends with the best block there is.
LEMMA ReadRangeGap == ASSUME IInv, GapInv, ReadRange PROVE GapInv'
<1>1. /\ pc = "range" /\ from <= height /\ pc' = "history"
      /\ last' = IF count = 0 \/ from + count > height + 1 THEN height ELSE from + count - 1
      /\ UNCHANGED <<core, zmq, from, next, count, memPool, listed, cache, sent, old, ghosts>>
  BY DEF ReadRange
<1>2. UNCHANGED <<chain, height, accepted, seen>> /\ height \in Int
  BY <1>1, HandlerTypes DEF core, ghosts
<1>3. EventInv' /\ SeenInv'
  BY <1>1, StoreKept DEF ghosts
<1>4. next = from /\ from \in Int /\ from <= last' /\ last' \in Int
  <2>1. next = from
    BY <1>1 DEF GapInv, CallInv, ServingInv
  <2>2. from \in Heights
    BY <1>1 DEF IInv, HandlerInv
  <2>3. count \in Nat
    <3>1. count \in Counts \cup {0} /\ Counts \subseteq 0 .. MaxBlocks /\ MaxBlocks \in Nat
      BY HandlerTypes, StreamAssumption
    <3> QED BY <3>1
  <2>4. CASE count = 0 \/ from + count > height + 1
    BY <1>1, <1>2, <2>1, <2>2, <2>4
  <2>5. CASE ~(count = 0 \/ from + count > height + 1)
    BY <1>1, <1>2, <2>1, <2>2, <2>3, <2>5
  <2> QED BY <2>4, <2>5
<1>5. ServingInv'
  <2>1. Serving' => listed'
    BY <1>1 DEF GapInv, CallInv, ServingInv, Serving
  <2>2. from' <= next' /\ next' <= last' + 1
    BY <1>1, <1>4
  <2> QED BY <1>1, <2>1, <2>2 DEF ServingInv
<1>6. HistoryInv'
  BY <1>1, <1>4 DEF HistoryInv
<1>7. MemPoolInv'
  <2>1. InMemPool' = InMemPool /\ \A t : TxFlies(t)' <=> TxFlies(t)
    BY <1>1, <1>2 DEF InMemPool, Mined, TxFlies
  <2>2. Serving' => Serving
    BY <1>1 DEF Serving
  <2> QED BY <1>1, <1>2, <2>1, <2>2 DEF GapInv, CallInv, MemPoolInv
<1>8. ASSUME Reading' PROVE last' = height
  BY <1>1, <1>8 DEF Reading, Serving
<1>9. AwaitedInv'
  <2>1. \A h \in Heights : \A i \in DOMAIN zmq : IsBlock(zmq[i], h) => h <= height
    BY DEF GapInv, EventInv
  <2>2. \A h \in Heights : height < h => ~(h <= height)
    BY <1>2
  <2> QED BY <1>1, <1>8, <2>1, <2>2 DEF AwaitedInv
<1>10. ReceivedInv'
  <2>1. \A h \in Heights : height < h => chain[h] = {}
    BY DEF IInv, ChainInv
  <2> QED BY <1>2, <1>8, <2>1 DEF ReceivedInv
<1> QED BY <1>3, <1>5, <1>6, <1>7, <1>9, <1>10 DEF GapInv, CallInv

\* The steps that end a call
LEMMA OverGap ==
  ASSUME IInv, GapInv, pc' \in {"ended", "failed", "over"}, UNCHANGED <<core, zmq, cache, seen>>
  PROVE  GapInv'
<1>1. EventInv' /\ SeenInv'
  BY StoreKept
<1>2. CallInv'
  BY CallOver
<1> QED BY <1>1, <1>2 DEF GapInv

LEMMA CancelGap == ASSUME IInv, GapInv, Cancel PROVE GapInv'
<1>1. /\ (pc' = "over" /\ listed' = FALSE) \/ UNCHANGED <<pc, listed>>
      /\ UNCHANGED <<core, zmq, from, last, next, count, memPool, cache, sent, old, ghosts>>
  BY DEF Cancel
<1>2. CASE pc' = "over"
  BY <1>1, <1>2, OverGap DEF ghosts
<1>3. CASE UNCHANGED <<pc, listed>>
  <2>1. EventInv' /\ SeenInv'
    BY <1>1, StoreKept DEF ghosts
  <2>2. (Serving' <=> Serving) /\ (Reading' <=> Reading)
    BY <1>1, <1>3 DEF Reading, Serving
  <2>3. UNCHANGED <<chain, height, accepted, seen, dropped>>
    BY <1>1 DEF core, ghosts
  <2>4. ServingInv' /\ HistoryInv'
    BY <1>1, <1>3, <2>2, <2>3 DEF GapInv, CallInv, ServingInv, HistoryInv, HistorySent
  <2>5. MemPoolInv'
    <3>1. InMemPool' = InMemPool /\ \A t : TxFlies(t)' <=> TxFlies(t)
      BY <1>1, <2>3 DEF InMemPool, Mined, TxFlies
    <3> QED BY <1>1, <1>3, <2>2, <2>3, <3>1 DEF GapInv, CallInv, MemPoolInv
  <2>6. AwaitedInv'
    BY <1>1, <2>2, <2>3, AwaitedSame
  <2>7. ReceivedInv'
    <3>1. \A h : BlockFlies(h)' <=> BlockFlies(h)
      BY <1>1 DEF BlockFlies
    <3>2. \A h, t : Known(t, h)' <=> Known(t, h)
      BY <1>1 DEF Known
    <3>3. chain \in [Heights -> SUBSET Txs]
      BY HandlerTypes
    <3> QED BY <1>1, <2>2, <2>3, <3>1, <3>2, <3>3, ReceivedSame
  <2> QED BY <2>1, <2>4, <2>5, <2>6, <2>7 DEF GapInv, CallInv
<1> QED BY <1>1, <1>2, <1>3

\* A step of the history: neither the messages on their way nor the mempool are touched.
LEMMA HistoryStep ==
  ASSUME IInv, GapInv, UNCHANGED <<core, zmq, from, last, count, memPool, listed, old, ghosts>>,
         pc \in {"history", "proof"}, pc' \in {"history", "proof", "memPool"},
         pc' = "memPool" => memPool' = InMemPool
  PROVE  /\ EventInv' /\ AwaitedInv' /\ MemPoolInv' /\ (Serving' => listed')
         /\ Reading' => Reading
<1>1. UNCHANGED <<chain, height, accepted, seen>>
  BY DEF core, ghosts
<1>2. (Serving' => Serving) /\ (Reading' => Reading)
  BY DEF Serving, Reading
<1>3. EventInv'
  BY <1>1 DEF GapInv, EventInv
<1>4. AwaitedInv'
  BY <1>1, <1>2, AwaitedSame
<1>5. MemPoolInv'
  <2>1. InMemPool' = InMemPool /\ \A t : TxFlies(t)' <=> TxFlies(t)
    BY <1>1 DEF InMemPool, Mined, TxFlies
  <2> QED BY <1>1, <1>2, <2>1 DEF GapInv, CallInv, MemPoolInv
<1>6. Serving' => listed'
  BY <1>2 DEF GapInv, CallInv, ServingInv
<1> QED BY <1>2, <1>3, <1>4, <1>5, <1>6

LEMMA SendTransactionsGap == ASSUME IInv, GapInv, SendTransactions PROVE GapInv'
<1>1. PICK h \in Heights :
        /\ IsOldest(h, Ahead)
        /\ next' = h
        /\ sent' = [txs |-> sent.txs \cup chain[h], proofs |-> sent.proofs, locks |-> sent.locks]
  BY DEF SendTransactions
<1>2. /\ pc = "history" /\ pc' = "proof"
      /\ UNCHANGED <<core, zmq, from, last, count, memPool, listed, cache, old, ghosts>>
  BY DEF SendTransactions
<1>3. /\ next \in Int /\ last \in Int /\ from \in Int /\ next <= h /\ h <= last
      /\ \A g \in Heights : next <= g /\ g < h => chain[g] = {}
  <2>1. next \in Int /\ last \in Int /\ from \in Int
    BY HandlerTypes
  <2>2. h \in next .. last /\ \A g \in next .. last : chain[g] # {} => h <= g
    BY <1>1 DEF IsOldest, Ahead
  <2> QED BY <2>1, <2>2
<1>4. /\ EventInv' /\ AwaitedInv' /\ MemPoolInv' /\ (Serving' => listed') /\ (Reading' => Reading)
  BY <1>2, HistoryStep
<1>5. UNCHANGED <<chain, height, seen, dropped>>
  BY <1>2 DEF core, ghosts
<1>6. SeenInv'
  BY <1>2, <1>5, StoreKept
<1>7. from <= next
  BY <1>2 DEF GapInv, CallInv, ServingInv
<1>8. ServingInv'
  <2>1. from' <= next' /\ next' <= last' + 1 /\ next' <= last'
    BY <1>1, <1>2, <1>3, <1>7
  <2> QED BY <1>2, <1>4, <2>1 DEF ServingInv
<1>9. HistoryInv'
  <2>1. \A g \in Heights : HistorySent(g) => HistorySent(g)'
    BY <1>1, <1>5 DEF HistorySent
  <2>2. \A g \in Heights : chain[g] = {} => HistorySent(g)'
    BY <1>5 DEF HistorySent
  <2>3. ASSUME NEW g \in Heights, from <= g, g < h PROVE HistorySent(g)'
    <3>1. CASE g < next
      <4>1. HistorySent(g)
        BY <1>2, <2>3, <3>1 DEF GapInv, CallInv, HistoryInv
      <4> QED BY <2>1, <4>1
    <3>2. CASE ~(g < next)
      <4>1. next <= g
        BY <1>3, <3>2
      <4> QED BY <1>3, <2>2, <2>3, <4>1
    <3> QED BY <3>1, <3>2
  <2> QED BY <1>1, <1>2, <2>3 DEF HistoryInv
<1>10. ReceivedInv'
  <2>1. \A g : BlockFlies(g)' <=> BlockFlies(g)
    BY <1>2 DEF BlockFlies
  <2>2. \A g, t : Known(t, g) => Known(t, g)'
    BY <1>1, <1>2 DEF Known
  <2>3. chain \in [Heights -> SUBSET Txs]
    BY HandlerTypes
  <2> QED BY <1>2, <1>4, <1>5, <2>1, <2>2, <2>3, ReceivedSame
<1> QED BY <1>4, <1>6, <1>8, <1>9, <1>10 DEF GapInv, CallInv

LEMMA SendProofGap == ASSUME IInv, GapInv, SendProof PROVE GapInv'
<1>1. /\ pc = "proof" /\ pc' = "history" /\ next' = next + 1
      /\ sent' = [txs |-> sent.txs, proofs |-> [sent.proofs EXCEPT ![next] = chain[next]],
                  locks |-> sent.locks]
      /\ cache' = IF count = 0 THEN RemoveDataByBlockHash(cache, next) ELSE cache
      /\ UNCHANGED <<core, zmq, from, last, count, memPool, listed, old, ghosts>>
  BY DEF SendProof
\* a constant
<1>2. PICK h \in Heights : h = next /\ h <= last /\ chain[h] \subseteq sent.txs
  BY <1>1 DEF GapInv, CallInv, ServingInv, IInv, HandlerInv
<1>3. /\ from \in Int /\ last \in Int /\ cache \in Cache /\ sent \in Sent
      /\ chain \in [Heights -> SUBSET Txs]
  BY HandlerTypes
<1>4. /\ EventInv' /\ AwaitedInv' /\ MemPoolInv' /\ (Serving' => listed') /\ (Reading' => Reading)
  BY <1>1, HistoryStep
<1>5. UNCHANGED <<chain, height, seen, dropped>> /\ (\A g : BlockFlies(g)' <=> BlockFlies(g))
  BY <1>1 DEF core, ghosts, BlockFlies
<1>6. ServingInv'
  <2>1. from <= next
    BY <1>1 DEF GapInv, CallInv, ServingInv
  <2>2. from' <= next' /\ next' <= last' + 1
    BY <1>1, <1>2, <1>3, <2>1
  <2> QED BY <1>1, <1>4, <2>2 DEF ServingInv
<1>7. /\ sent'.txs = sent.txs /\ sent'.proofs[h] = chain[h]
      /\ \A g \in Heights : g # h => sent'.proofs[g] = sent.proofs[g]
  BY <1>1, <1>2, <1>3, SentFields
<1>8. HistoryInv'
  <2>1. ASSUME NEW g \in Heights, from <= g, g < h + 1 PROVE HistorySent(g)'
    <3>1. CASE g = h
      BY <1>2, <1>5, <1>7, <3>1 DEF HistorySent
    <3>2. CASE g # h
      <4>1. g < next
        BY <1>2, <2>1, <3>2
      <4>2. HistorySent(g)
        BY <1>1, <2>1, <4>1 DEF GapInv, CallInv, HistoryInv
      <4> QED BY <1>5, <1>7, <3>2, <4>2 DEF HistorySent
    <3> QED BY <3>1, <3>2
  <2> QED BY <1>1, <1>2, <2>1 DEF HistoryInv
<1>9. \/ cache' = cache
      \/ /\ h \in cache.blocks
         /\ cache'.transactions = cache.transactions \ chain[h]
         /\ cache'.fresh = cache.fresh \ chain[h] /\ cache'.flags = cache.flags
         /\ cache'.blocks = cache.blocks \ {h} /\ cache'.unsent = cache.unsent \ {h}
  <2>1. cache' = cache \/ (h \in cache.blocks /\ cache' = RemoveDataByBlock(cache, h))
    BY <1>1, <1>2 DEF RemoveDataByBlockHash
  <2> QED BY <1>3, <2>1, Removed
<1>10. SeenInv'
  <2>1. CASE cache' = cache
    BY <1>1, <1>5, <2>1, StoreKept
  <2>2. CASE /\ h \in cache.blocks
             /\ cache'.transactions = cache.transactions \ chain[h]
             /\ cache'.blocks = cache.blocks \ {h}
    <3>1. ~BlockFlies(h)'
      BY <1>5, <2>2 DEF GapInv, SeenInv
    <3>2. \A g \in cache'.blocks : g <= height' /\ ~BlockFlies(g)'
      BY <1>5, <2>2 DEF GapInv, SeenInv
    <3>3. \A t \in seen' :
             t \in cache'.transactions \/ \E g \in Heights : t \in chain'[g] /\ ~BlockFlies(g)'
      BY <1>5, <2>2, <3>1 DEF GapInv, SeenInv
    <3> QED BY <3>2, <3>3 DEF SeenInv
  <2> QED BY <1>9, <2>1, <2>2
<1>11. ReceivedInv'
  <2>1. ASSUME NEW g \in Heights, NEW t \in Txs, last < g, t \in chain[g], Known(t, g)
        PROVE  Known(t, g)'
    <3>1. g # h
      BY <1>2, <1>3, <2>1
    <3>2. t \notin chain[h]
      BY <2>1, <3>1 DEF IInv, ChainInv
    <3> QED BY <1>7, <1>9, <2>1, <3>1, <3>2 DEF Known
  <2> QED BY <1>1, <1>3, <1>4, <1>5, <2>1, ReceivedSame
<1> QED BY <1>4, <1>6, <1>8, <1>10, <1>11 DEF GapInv, CallInv

\* The history is complete.
LEMMA ReadMemPoolGap == ASSUME IInv, GapInv, ReadMemPool PROVE GapInv'
<1>1. /\ pc = "history" /\ Ahead = {} /\ count = 0 /\ pc' = "memPool" /\ memPool' = InMemPool
      /\ UNCHANGED <<core, zmq, from, last, next, count, listed, cache, sent, old, ghosts>>
  BY DEF ReadMemPool
<1>2. UNCHANGED <<chain, height, accepted, seen, dropped>>
  BY <1>1 DEF core, ghosts
<1>3. EventInv' /\ SeenInv'
  BY <1>1, <1>2, StoreKept
<1>4. next \in Int /\ last \in Int /\ from \in Heights /\ last <= height
  BY <1>1, HandlerTypes DEF IInv, HandlerInv
<1>5. (Serving' => Serving) /\ (Reading' => Reading)
  BY <1>1 DEF Serving, Reading
<1>6. ServingInv'
  BY <1>1, <1>2, <1>4, <1>5 DEF GapInv, CallInv, ServingInv
<1>7. HistoryInv'
  <2>1. \A g \in next .. last : chain[g] = {}
    BY <1>1 DEF Ahead
  <2>2. ASSUME NEW g \in Heights, from <= g, g <= last PROVE HistorySent(g)'
    <3>1. CASE g < next
      <4>1. HistorySent(g)
        BY <1>1, <2>2, <3>1 DEF GapInv, CallInv, HistoryInv
      <4> QED BY <1>1, <1>2, <4>1 DEF HistorySent
    <3>2. CASE ~(g < next)
      <4>1. chain[g] = {}
        BY <1>4, <2>1, <2>2, <3>2
      <4> QED BY <1>2, <4>1 DEF HistorySent
    <3> QED BY <3>1, <3>2
  <2> QED BY <1>1, <2>2 DEF HistoryInv
<1>8. MemPoolInv'
  <2>1. InMemPool' = InMemPool /\ \A t : TxFlies(t)' <=> TxFlies(t)
    BY <1>1, <1>2 DEF InMemPool, Mined, TxFlies
  <2> QED BY <1>1, <1>2, <1>5, <2>1 DEF GapInv, CallInv, MemPoolInv
<1>9. AwaitedInv'
  BY <1>1, <1>2, <1>5, AwaitedSame
<1>10. ReceivedInv'
  <2>1. (\A g : BlockFlies(g)' <=> BlockFlies(g)) /\ (\A g, t : Known(t, g)' <=> Known(t, g))
    BY <1>1 DEF BlockFlies, Known
  <2>2. chain \in [Heights -> SUBSET Txs]
    BY HandlerTypes
  <2> QED BY <1>1, <1>2, <1>5, <2>1, <2>2, ReceivedSame
<1> QED BY <1>3, <1>6, <1>7, <1>8, <1>9, <1>10 DEF GapInv, CallInv

\* A round of the loop sends what is known.
LEMMA RoundKnows ==
  ASSUME IInv, NEW c \in Cache, sent' = SendUnretrieved(c), cache' = Retrieved(c)
  PROVE  /\ sent'.txs = sent.txs \cup c.fresh
         /\ \A h \in Heights : sent.proofs[h] \subseteq sent'.proofs[h]
         /\ \A h \in Heights : h \in c.unsent => c.flags[h] \subseteq sent'.proofs[h]
         /\ cache'.blocks = c.blocks /\ cache'.transactions = c.transactions
<1>1. sent'.txs = sent.txs \cup c.fresh
  BY DEF SendUnretrieved
<1>2. sent'.proofs = [h \in Heights |->
                        IF h \in c.unsent THEN sent.proofs[h] \cup c.flags[h] ELSE sent.proofs[h]]
  BY DEF SendUnretrieved
<1>3. cache'.blocks = c.blocks /\ cache'.transactions = c.transactions
  BY RoundRetrieves
<1> QED BY <1>1, <1>2, <1>3

LEMMA RoundGap == ASSUME IInv, GapInv, Round PROVE GapInv'
<1>1. /\ sent' = SendUnretrieved(cache) /\ cache' = Retrieved(cache)
      /\ UNCHANGED <<core, zmq, call, listed, ghosts>>
  BY DEF Round
<1>2. /\ cache \in Cache /\ chain \in [Heights -> SUBSET Txs]
      /\ height \in Int /\ cache.blocks \subseteq Heights
  BY HandlerTypes, CacheFields
<1>3. /\ sent'.txs = sent.txs \cup cache.fresh
      /\ \A h \in Heights : sent.proofs[h] \subseteq sent'.proofs[h]
      /\ \A h \in Heights : h \in cache.unsent => cache.flags[h] \subseteq sent'.proofs[h]
      /\ cache'.blocks = cache.blocks /\ cache'.transactions = cache.transactions
  BY <1>1, <1>2, RoundKnows
<1>4. UNCHANGED <<chain, height, accepted, seen, dropped>>
  BY <1>1 DEF core, ghosts
<1>5. (\A g : BlockFlies(g)' <=> BlockFlies(g)) /\ (\A t : TxFlies(t)' <=> TxFlies(t))
  BY <1>1 DEF BlockFlies, TxFlies
<1>6. EventInv'
  BY <1>1, <1>4 DEF GapInv, EventInv
<1>7. SeenInv'
  BY <1>1, <1>2, <1>3, <1>4, <1>5, SeenKept
<1>8. ServingInv' /\ HistoryInv'
  BY <1>1, <1>2, <1>3, <1>4, ServingKept, HistoryKept
<1>9. MemPoolInv'
  <2>1. InMemPool' = InMemPool
    BY <1>4 DEF InMemPool, Mined
  <2> QED BY <1>1, <1>4, <1>5, <2>1, MemPoolKept
<1>10. AwaitedInv'
  BY <1>1, <1>4, AwaitedKept
<1>11. ReceivedInv'
  <2>1. \A h \in Heights, t \in Txs : Known(t, h) => Known(t, h)'
    BY <1>3 DEF Known
  <2> QED BY <1>1, <1>2, <1>4, <1>5, <2>1, ReceivedKept
<1> QED BY <1>6, <1>7, <1>8, <1>9, <1>10, <1>11 DEF GapInv, CallInv

\* The mempool it read is seen, and the loop begins.
LEMMA TestMemPoolGap == ASSUME IInv, GapInv, TestMemPool PROVE GapInv'
<1> DEFINE tested == AddTransactions(cache, memPool)
<1>1. /\ pc = "memPool" /\ pc' = "live" /\ seen' = seen \cup memPool
      /\ sent' = SendUnretrieved(tested) /\ cache' = Retrieved(tested)
      /\ UNCHANGED <<core, zmq, from, last, count, listed, old, heard, dropped>>
  BY DEF TestMemPool
<1>2. /\ cache \in Cache /\ memPool \in SUBSET Txs /\ chain \in [Heights -> SUBSET Txs]
      /\ cache.blocks \subseteq Heights
  BY HandlerTypes, CacheFields
<1>3. /\ tested \in Cache
      /\ tested.transactions = cache.transactions \cup memPool
      /\ tested.fresh = cache.fresh \cup (memPool \ cache.transactions)
      /\ tested.blocks = cache.blocks /\ tested.unsent = cache.unsent /\ tested.flags = cache.flags
  BY <1>2, Added
<1> HIDE DEF tested
<1>4. /\ sent'.txs = sent.txs \cup tested.fresh
      /\ \A h \in Heights : sent.proofs[h] \subseteq sent'.proofs[h]
      /\ \A h \in Heights : h \in tested.unsent => tested.flags[h] \subseteq sent'.proofs[h]
      /\ cache'.blocks = tested.blocks /\ cache'.transactions = tested.transactions
  BY <1>1, <1>3, RoundKnows
<1>5. UNCHANGED <<chain, height, accepted>>
  BY <1>1 DEF core
<1>6. (\A g : BlockFlies(g)' <=> BlockFlies(g)) /\ (\A t : TxFlies(t)' <=> TxFlies(t))
  BY <1>1 DEF BlockFlies, TxFlies
<1>7. (Serving' => Serving) /\ (Reading' => Reading)
  BY <1>1 DEF Serving, Reading
<1>8. EventInv'
  BY <1>1, <1>5 DEF GapInv, EventInv
<1>9. SeenInv'
  BY <1>1, <1>2, <1>3, <1>4, <1>5, <1>6, SeenKept
<1>10. ServingInv'
  BY <1>1, <1>5, <1>7 DEF GapInv, CallInv, ServingInv
<1>11. HistoryInv'
  <2>1. \A h \in Heights : HistorySent(h) => HistorySent(h)'
    BY <1>4, <1>5 DEF HistorySent
  <2> QED BY <1>1, <2>1 DEF GapInv, CallInv, HistoryInv
<1>12. MemPoolInv'
  <2>1. InMemPool' = InMemPool
    BY <1>5 DEF InMemPool, Mined
  <2> QED BY <1>1, <1>6, <1>7, <2>1 DEF GapInv, CallInv, MemPoolInv
<1>13. AwaitedInv'
  BY <1>1, <1>5, <1>7, AwaitedSame
<1>14. ReceivedInv'
  <2>1. \A h \in Heights, t \in Txs : Known(t, h) => Known(t, h)'
    BY <1>3, <1>4 DEF Known
  <2> QED BY <1>1, <1>2, <1>5, <1>6, <1>7, <2>1, ReceivedSame
<1> QED BY <1>8, <1>9, <1>10, <1>11, <1>12, <1>13, <1>14 DEF GapInv, CallInv

-----------------------------------------------------------------------------
LEMMA InitGap == Init => GapInv
<1> SUFFICES ASSUME Init PROVE GapInv
  OBVIOUS
<1>1. EventInv
  BY DEF Init, EventInv
<1>2. SeenInv
  BY DEF Init, EmptyCache, SeenInv
<1>3. pc = "idle"
  BY DEF Init
<1>4. CallInv
  BY <1>3 DEF CallInv, ServingInv, HistoryInv, MemPoolInv, AwaitedInv, ReceivedInv, Serving, Reading
<1> QED BY <1>1, <1>2, <1>4 DEF GapInv

LEMMA StepGap == IInv /\ GapInv /\ [Next]_vars => GapInv'
<1> SUFFICES ASSUME IInv, GapInv, [Next]_vars PROVE GapInv'
  OBVIOUS
<1>1. CASE CoreSteps
  BY <1>1, AcceptGap, LockInstantlyGap, MineGap DEF CoreSteps
<1>2. CASE Deliver
  BY <1>2, DeliverGap
<1>3. CASE BlockMissing \/ EndCall \/ Fail
  BY <1>3, OverGap DEF BlockMissing, EndCall, Fail, ghosts
<1>4. CASE Handler
  BY <1>3, <1>4, ReadRangeGap, SendTransactionsGap, SendProofGap, ReadMemPoolGap, TestMemPoolGap
     DEF Handler
<1>5. CASE Round
  BY <1>5, RoundGap
<1>6. CASE Cancel
  BY <1>6, CancelGap
<1>7. CASE \E f \in Heights, n \in Counts : Subscribe(f, n)
  BY <1>7, SubscribeGap
<1>8. CASE \E t \in Txs : OtherCallTests(t)
  BY <1>8, OtherCallTestsGap
<1>9. CASE UNCHANGED vars
  <2>1. UNCHANGED <<core, zmq, call, listed, cache, sent, ghosts, chain, height,
                    accepted, quiet, pc, from, last,
                    next, count, memPool, old, seen, dropped>>
    BY <1>9 DEF vars, core, call, ghosts
  <2>2. EventInv' /\ SeenInv'
    BY <2>1, StoreKept
  <2>3. ServingInv' /\ HistoryInv'
    BY <2>1 DEF GapInv, CallInv, ServingInv, HistoryInv, Serving, HistorySent
  <2>4. MemPoolInv'
    BY <2>1 DEF GapInv, CallInv, MemPoolInv, Serving, InMemPool, Mined, TxFlies
  <2>5. AwaitedInv' /\ ReceivedInv'
    BY <2>1 DEF GapInv, CallInv, AwaitedInv, ReceivedInv, Reading, Serving,
         Excused, Known, BlockFlies
  <2> QED BY <2>2, <2>3, <2>4, <2>5 DEF GapInv, CallInv
<1> QED BY <1>1, <1>2, <1>3, <1>4, <1>5, <1>6, <1>7, <1>8, <1>9 DEF Next

\* The second invariant holds next to the first.
LEMMA GapInvariance == Spec => []GapInv
<1> QED BY InitGap, StepGap, Invariance, PTL DEF Spec

-----------------------------------------------------------------------------
\* Every variable keeps its type, the cache and the messages on their way included.
THEOREM TypeCorrect == Spec => []TypeOK
<1>1. IInv => TypeOK
  BY DEF IInv
<1> QED BY <1>1, Invariance, PTL

\* A merkle block is never sent before the transactions it proves, by the history
\* (subscribeToTransactionsWithProofsHandler) or the loop (subscribeToNewTransactions).
THEOREM ProofsFollow == Spec => []ProofAfterTransactions
<1>1. IInv => ProofAfterTransactions
  BY DEF IInv, DataInv
<1> QED BY <1>1, Invariance, PTL

\* What reached the cache was sent, is still to be sent, or went with a block the cache
\* had no room for (TransactionHashesCache), for every size of the cache.
THEOREM SeenIsKept == Spec => []NothingSeenIsLost
<1>1. IInv => NothingSeenIsLost
  BY DEF IInv, DataInv
<1> QED BY <1>1, Invariance, PTL

\* An instant lock is never sent twice, whether the loop sends it or the listener does,
\* and one that was waited for is sent or collected (subscribeToNewTransactions).
THEOREM LocksSentOnce == Spec => []LockSentOnce
<1>1. ASSUME IInv PROVE LockSentOnce
  BY <1>1 DEF IInv, DataInv, ClientLocks, LockSentOnce
<1> QED BY <1>1, Invariance, PTL

\* A call whose client has gone sends and stores nothing any more
\* (subscribeToTransactionsWithProofsHandler's listener for 'cancelled').
THEOREM CancelledIsSilent == Spec => SilentAfterCancel
<1>1. ASSUME IInv, [Next]_vars PROVE [pc = "over" => UNCHANGED <<sent, cache>>]_vars
  <2> SUFFICES ASSUME Next, pc = "over" PROVE UNCHANGED <<sent, cache>>
    BY <1>1
  <2>1. ~listed
    BY <1>1 DEF IInv, HandlerInv
  <2>2. CASE CoreSteps
    BY <2>2 DEF CoreSteps
  <2>3. CASE Deliver
    BY <2>1, <2>3 DEF Deliver
  <2>4. CASE Handler
    BY <2>4 DEF Handler, ReadRange, BlockMissing, SendTransactions, SendProof, ReadMemPool,
       TestMemPool, EndCall
  <2>5. CASE Round \/ Cancel \/ Fail
    BY <2>5 DEF Round, Cancel, Fail
  <2>6. CASE \E f \in Heights, n \in Counts : Subscribe(f, n)
    BY <2>6 DEF Subscribe
  <2>7. CASE \E t \in Txs : OtherCallTests(t)
    BY <2>1, <2>7 DEF OtherCallTests
  <2> QED BY <2>2, <2>3, <2>4, <2>5, <2>6, <2>7 DEF Next
<1> QED BY <1>1, Invariance, PTL DEF Spec, SilentAfterCancel

\* A client that has caught up with a call misses nothing: the history ends where the
\* messages begin, and the cache has the transactions of a block until the block comes.
THEOREM NoGap == Spec => []NoGapWhenCaughtUp
<1>1. ASSUME IInv, GapInv, CaughtUp PROVE InMemPool \subseteq sent.txs
  <2> SUFFICES ASSUME NEW t \in InMemPool PROVE t \in sent.txs
    OBVIOUS
  <2>1. pc = "live" /\ zmq = << >> /\ cache.fresh = {}
    BY <1>1 DEF CaughtUp
  <2>2. Serving
    BY <1>1, <2>1 DEF GapInv, CallInv, ServingInv, Serving
  <2>3. t \in seen
    BY <1>1, <2>1, <2>2 DEF GapInv, CallInv, MemPoolInv, TxFlies
  <2>4. ~Gone(t)
    BY <1>1 DEF Gone, InMemPool, Mined, IInv, DataInv
  <2> QED BY <1>1, <2>1, <2>3, <2>4 DEF IInv, DataInv, NothingSeenIsLost
<1>2. ASSUME IInv, GapInv, CaughtUp, NEW h \in from .. height, NEW t \in chain[h]
      PROVE  \/ t \in sent.txs /\ t \in sent.proofs[h]
             \/ h \in dropped
             \/ t \in quiet /\ t \in old /\ h > last
  <2>1. pc = "live" /\ zmq = << >> /\ cache.fresh = {} /\ cache.unsent = {}
    BY <1>2 DEF CaughtUp
  <2>2. Reading
    BY <1>2, <2>1 DEF GapInv, CallInv, ServingInv, Serving, Reading
  <2>3. h \in Heights /\ from <= h /\ last \in Int
    <3>1. from \in Heights /\ height \in 0 .. MaxBlocks /\ last \in Int
      BY <1>2, <2>1, HandlerTypes DEF GapInv, CallInv, ServingInv
    <3> QED BY <3>1
  <2>4. CASE h <= last
    BY <1>2, <2>1, <2>3, <2>4 DEF GapInv, CallInv, HistoryInv, HistorySent
  <2>5. CASE ~(h <= last)
    <3>1. last < h /\ h > last /\ ~BlockFlies(h)
      BY <2>1, <2>3, <2>5 DEF BlockFlies
    <3>2. Excused(t) \/ h \in dropped \/ Known(t, h)
      BY <1>2, <2>2, <2>3, <3>1 DEF GapInv, CallInv, ReceivedInv
    <3> QED BY <2>1, <3>1, <3>2 DEF Excused, Known
  <2> QED BY <2>4, <2>5
<1>3. IInv /\ GapInv => NoGapWhenCaughtUp
  BY <1>1, <1>2 DEF NoGapWhenCaughtUp
<1> QED BY <1>3, Invariance, GapInvariance, PTL
=============================================================================
