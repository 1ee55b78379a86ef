# Dash Platform: a verification project

TLA+ models of the core of this repository, the TLC runs that check them on
small instances and the theorems TLAPS proves about them. Paths are relative to
`src/packages/`.

## Inventory

Dash Platform is a state machine replicated by Tenderdash. **Drive** is that
state machine; **DAPI** answers clients from Drive, Tenderdash and Core; the
client libraries choose a DAPI node, retry and follow streams; the **wallet**
keeps an account in step with the chain.

| Part | State it keeps | Operations | What makes it correct |
|---|---|---|---|
| Drive: block execution (`js-drive/lib/abci`, `lib/blockExecution`, `lib/fileDb`) | two execution contexts (memory and LevelDB), current and previous stores, document databases, open transactions, the file with the last block's changes | info, beginBlock, deliverTx, endBlock, commit, queries; death by any error, restart by the supervisor | a block is in every store or in none, unless its commit was cut; the previous stores are exactly one block behind and never ahead of what queries report; no block's changes are dropped on the way; the reported hash is that of the reported height |
| Drive: the Merk overlay (`lib/merkDb`) | per store: the transaction's updates and deletes over the store below | get, put, delete, commit, abort, toObject, populateFromObject | a transaction reads its own writes; commit leaves in the store what the transaction read; the clone of a transaction applies the same changes |
| Drive: state transitions (`lib/abci/handlers/deliverTxHandlerFactory.js`, `lib/dpp`, `js-dpp/lib/stateTransition`, `js-dpp/lib/identity`) | identities' balances, documents, contracts, spent outpoints, the block's cumulative fees, the distribution pool | unserialize, validate, apply, charge; endBlock, pool update | credits come only from locked outpoints, each spent once; none are created or lost between balances, fees and pool |
| Drive: Core sync (`lib/core`, `lib/validator`) | the latest chain lock, the masternode list store, the validator set | ZMQ and RPC updates, waits, rotation | a block runs with the masternode list of its header's Core height, taken only up to chain locked heights; the diffs fetched fit the store they go into; every wait ends; all nodes rotate to the same quorum |
| Drive: documents index (`lib/document`) | MongoDB collections, one session per block | find, store, delete, transactions with retry | indices follow the documents' store |
| DAPI (`dapi/lib`) | hash caches, filters, waiting listeners | getStatus, broadcast, waitForStateTransitionResult, block and transaction streams | a stream neither misses nor repeats what it owes a client; every wait ends and takes its listeners along |
| DAPI client (`js-dapi-client/lib`) | live and banned addresses, masternode lists | request with retry, list refresh, stream reconnects | a retry goes to an address that is not banned; bans end |
| ABCI server (`js-abci/lib`) | per connection: read buffer, the request being handled | read, handle in order, answer, close | one request at a time, answers in order, every request answered or the connection gone |
| gRPC stream helper (`js-grpc-common/lib`) | a call's pending write | write acknowledged | backpressure: one write at a time |
| Wallet (`wallet-lib/src`) | storage of transactions and addresses, the plugin job queue, sync cursors | workers, import, sync, broadcast | balance follows the chain; jobs run in order; reserved outputs are not spent twice |
| JS SDK (`js-dash-sdk`) | client apps, wallet account | publish, update, name registration | thin callers of the wallet, the DAPI client and dpp |
| Data contracts (`dpns-contract`, `feature-flags-contract`) | none | schemas | data read by Drive |
| Deployment (`dashmate`, `.github`) | configuration, docker services | setup, start, update | operational scripts |
| Generated clients (`dapi-grpc`) | none | generated from protos | generated |
| Test suite (`platform-test-suite`) | none | end-to-end tests | exercises a network |

How they meet: Tenderdash calls Drive's ABCI handlers over `js-abci` one at a
time per connection (the consensus connection carries the block's calls; queries
come on another and interleave with its awaits). Drive reads Core over RPC and
ZMQ. DAPI forwards state transitions to Tenderdash's RPC and waits on its event
WebSocket, and proves results with queries to Drive. Clients and the wallet call
DAPI through `js-dapi-client`.

Hard behaviour, by part: Drive may die in any step of a commit that spans seven
stores, two contexts, document databases and a file, and Tenderdash may restart
without it; its handlers await Core, MongoDB and LevelDB between reading and
writing shared objects; chain locks may be lost, late, or ahead of their block;
DAPI's streams and waits race with blocks, timeouts and clients that leave; the
wallet's queue depends on each job to start the next. `PROJECT.json` lists each
such hazard at its line, with the properties that cover it or the reason none
does.

## Modules

| Module | Part | Level |
|---|---|---|
| `BlockExecution` | handlers, contexts, commit, previous stores, file, restarts | one action per await of a handler |
| `LaggingLedger` | what block execution promises: blocks are added one at a time, the previous state follows behind, and what failures may cost | abstract |
| `BlockExecutionRefinement` | `BlockExecution` with the mapping to `LaggingLedger` | refinement |
| `DocumentsStore` | documents over the Merk overlay, the index database and session, the replay into the previous ones | one action per transition, per replayed operation |
| `DocumentTable` | what the documents are to a user: one table with a unique value, its committed version and the one queries are shown | abstract |
| `DocumentsStoreRefinement` | `DocumentsStore` with the mapping to `DocumentTable` | refinement |
| `StateTransitions` | fees, balances, keys, outpoints, contracts, pool of a block | one action per transition |
| `MCStateTransitions` | values of the constants that are functions | model checking |
| `CoreChainLocks` | chain locks, the waits for them, masternode lists | one action per await |
| `AbciConnections` | the ABCI server's connections and the shutdown of Drive | one action per event of a socket or handler |
| `TransactionStream` | one call of DAPI's `subscribeToTransactionsWithProofs` | one action per await of the handler, per message, per round of the loop |
| `ResultWaits` | DAPI's calls that wait for a state transition, and the websocket below | one action per event, answer or timer |
| `WalletSync` | the wallet's transaction sync worker and its queue of chunks | one action per chunk, job, reply or call |
| `MCWalletSync` | the payments of the checked instance | model checking |
| `*Proofs` | theorems about the module they are named after | proofs |

The state machines share no variables; each takes the others at the level
it needs. `BlockExecution` sees of a block only which stores it changes;
`DocumentsStore` and `StateTransitions` say what the changes are and take a
commit as one step, because `BlockExecution` is where it is cut; `CoreChainLocks`
opens up the wait between the two halves of beginBlock. `AbciConnections` takes
a handler as something that returns, throws or waits for Core for ever.
`ResultWaits` takes Drive as the block whose state it proves, which is the block
before the last one, as `LaggingLedger` says. `TransactionStream` and
`WalletSync` are the two ends of one stream: the server's, whose client is
external, and the client's, whose server is.

### BlockExecution

State: `mem` is what the process holds (two contexts as heights, whether the
block creates a contract, the stores the open transactions change, the clone in
the container, the root tree), `disk` what outlives it (current and previous
stores as sets of blocks, document databases, the two contexts in LevelDB, the
file). The stores are numbered in the order in which Promise.all starts their
commits in JavaScript; Merk commits are synchronous, the documents are their
index (MongoDB) and then Merk. An action is a stretch of code between two
awaits: `CreateDatabases`, `CommitStore` for each store, `StoreContext`,
`StorePreviousContext` with the rebuilt root tree, and so on. The history
variables record what was cut: `torn` (a death among the stores), `lost` (a death
after the context was stored and before the file was written), `skipped` (blocks
that Info reported although they were never committed). They make the
exemptions of the invariants exact.

Any error in a handler is death of the process: `errorHandler` exits and a
supervisor starts it again. A block executed again over its own partial effects
may have any subset of its transitions rejected. Creating a collection that
exists may or may not be refused by the driver, so both are allowed. Tenderdash
restarts alone only between two handlers.

`LaggingLedger` has a height, the blocks published in the state that queries
read, and the blocks skipped and forgotten. The height moves to the next block
that was not skipped; a block is published after all those before it, but for
the skipped and the forgotten; a failure forgets at most the block just committed
and the one in progress. `BlockExecutionRefinement` maps the height to the context
in LevelDB, published to the blocks found in every previous store, and forgotten
to `torn` and `lost` together.

### DocumentsStore

A document is its id and the value of one unique index. `Put`, `Delete`, `Read`
and `Persist` are `MerkDbInMemoryDecorator`, including the delete that is
swallowed for a key that only the overlay holds; documents hit by that are the
history variable `orphans`. `Found` is the index query whose ids are then
fetched from the store. The replay of the previous block's clone takes its
operations in any order, each against the unique index of the previous database;
a refused one ends the process (`failed`, a terminal state: no deadlock check).
A block's documents may be aborted at any time and begun again.

`DocumentTable` knows no store, overlay, index or session: a document is created
when it is not there and its value is free, replaced or removed when it is
there; an abort gives up all changes since the last commit, and a query is shown
the version before the last one. `DocumentsStoreRefinement` maps to it: a
document is there when the index finds it, and is what the store then has, as
`fetchDocuments` reads it (`Fetched`). It is read so through session and overlay
(`Opened`), from what is committed (`Committed`), and from the previous store and
index (`Shown`). The steps of a replay are stutters until the last one, which
publishes. The table's `ghosts` are the `orphans`: a query may find them although
they were removed.

### StateTransitions

One transition is one step: validation, application and the charge after it. An
identity is named by the outpoint that paid for it, a contract by its owner.
`States` has a committed and a transactional copy of every store, because
`DriveStateRepository` reads contracts from the committed one. Amounts are small
naturals; fees are drawn from a set. Until the flag FIX_CUMULATIVE_FEES is
enabled a commit replaces the pool by the block's fees; `CreditsConserved`
counts what this drops in the history variable `discarded`. The heights with the
flag and the block of the DPNS contract are constants. Left out: signatures, data triggers, top-ups
of unknown identities, the contract cache (it holds committed contracts only),
counters of invalid transitions, the DashPay check (the same code as DPNS).

### CoreChainLocks

Core is external: it adds blocks, learns locks (possibly one block ahead) and
publishes them on a socket that may drop a message. Drive's start asks for the
best lock and then awaits its block while messages already update the latest
lock; the server listens once the initial height is locked. The masternode
lists are an interval of heights, with `latestRequestedHeight` kept apart as in
the code. A fetch of a block Core does not know ends the process. That lists
start `Limit` heights below Core's height needs `Limit < Initial`
(`CoreAssumption`), which the code checks at every update.

### AbciConnections

Per connection: the socket, what the peer wrote and what is in `readerBuffer`
(counted in halves of a request, so that a piece may end one request and begin
the next), `isReading`, `isClosing`, whether the socket is paused, the handler.
`Data`, `Answer`, `Throw` and `Unverified` end in `ReadNextRequest`, as the code
does. `ErrorHandler` and `Signal` are the two ways to shut down: they stop
listening (`CloseAbciServer`), close the connections in a later turn
(`CloseConnections`), each of which ends after its handler (`End`), and end the
process when the last socket has gone (`ServerClosed`, `Exit`). A response that
does not verify leaves its connection reading for ever (`stuck`). A paused
socket notices that its peer has gone only when no data lies before that.

### TransactionStream

`cache` is `TransactionHashesCache`, field by field, with a block named by its
height and its merkle block kept with it; `call` is the handler; `zmq` the
messages on their way, in the order Core published them. `ReadRange`,
`SendTransactions`, `SendProof`, `ReadMemPool`, `TestMemPool` are what happens
between two awaits of the handler; `Round` is one round of the loop; `Deliver`
is a message that reaches the emitters listed, and does nothing for a call that
is not listed. Another call that tests the mempool it has read emits to every
listed call (`OtherCallTests`). `Cancel` takes the emitter off only when its
listener was attached, at the end of history and mempool. Core may publish a
transaction again when a block has it, or not (`quiet`). The history variables
`seen`, `heard` and `dropped` are the transactions the cache took, the locks that
came for a waiting transaction and the blocks shifted out of a full cache.

### ResultWaits

A call listens for its result (`topic`), asks Tenderdash for one there may be
(`query`), then waits for the next height (`ear`) and fetches the proof, with
the timeout racing all of it. `Resolve` is what happens to the promise when a
result comes from either side. `WsClient` is `ws` with `reopens`, the timers
that open a new one: a refused connection reports an error and a close and
starts two. Events of blocks and of results have no order between them, and
those on their way when the connection closes are `lost`. An error other than a
refused connection ends the process (`up`).

### WalletSync

Every block of the chain has one transaction, that pays an address of the
account or a foreign one. `mode` and `pc` are where the nested calls of
`startHistoricalSync` and `startIncomingSync` have come to, and `req.outer` the
best heights that the outer calls have read and will note; `feed` is what DAPI
makes of the stream; `queue` has the chunks waiting, the jobs running and whether
a listener for the next chunk is attached, since `Queue` starts a job from the
event of the one before.

`Caught` is the error handler of both syncs with its cases: the incoming one
starts again or gives up, the historical one starts again, returns because the
worker was stopped, or reports the error and notes its height. Its callers are
`Cancelled`, `Breaks`, `JobThrows` and, within another call, `BestFails`: the
best height is read before the `try`, so a nested call's failure is caught by
the call around it and only the outermost one makes `startWorker` give up.

A job that throws (`JobThrows`) emits no `processed`: `Threw` says who listens
then. The queue's `error` rejects the sync, but its stream is neither cancelled
nor taken off: it goes on in `left`, feeds the queue there is by then
(`LeftSends`) and, when it ends, sets `this.stream` to null, whichever stream
that is (`LeftIsOver`).

A job of the queue uses no network: but for the `setImmediate` in which it
cancels the stream (`at = "cancel"`) it goes on in microtasks, before any timer,
reply or error. So the errors of the stream find at most jobs that wait to cancel
it (`NoneRuns`), a reply to the worker's requests none at all (`AtRest`), while
chunks that arrive in one piece, and the end behind them, find jobs running. An
exception that nobody catches ends the run (`crashed`).

## Runs

Each passing run's properties all have a variant of the code (a definition named
in the module, for instance `CreateFailsWithoutDrop`) under which the same
configuration finds them violated.

| Run | What it checks | Bounds and why they suffice |
|---|---|---|
| `block_faults` | `LaggingLedger` is implemented, with the safety properties of block execution, under crashes, failing stores and contexts, restarts of Tenderdash | 4 stores (contracts, index, documents, one more), 3 blocks, 2 faults. A block's changes meet their own commit, the next one and the one after; two faults are enough for a fault during the recovery from another |
| `block_progress` | every block is committed unless the file is broken (`EveryBlockCommitted`) | as above without Tenderdash's restarts, under which blocks are skipped and none is promised to be committed |
| `documents` | `DocumentTable` is implemented: overlay, store and index act as one table in a block, across aborts and commits; the replay is exact in every order | 3 documents, 2 values, 4 blocks: a value can move from one document to another and back while the replay is a block behind |
| `transitions` | credits are conserved but for those the pool's replacement drops, nobody goes into debt, keys and identities agree, what was taken stays taken | 3 outpoints, 2 keys, fees 1 and 2, 3 blocks: transitions that interfere within a block, across blocks and after an abort |
| `core_chain_locks` | the list of the header's height, final lists; Drive keeps serving | limit 2, initial height 3, Core up to 6, 2 faults: a jump beyond the limit, an update, a start over, each before and after a restart |
| `abci_connections` | no whole request is left in a buffer, sockets end between two requests, nobody is cut off by the exit; a shutdown ends unless a handler or unread data holds it | 2 connections, 2 requests in 4 parts each, 1 failing handler: pieces that span two requests, a request that waits for another, closing before, during and after a handler, on one connection or both |
| `transaction_stream` | what history, mempool and messages bring is sent, the proof after its transactions, locks once; nothing lies between history, mempool and loop; what waits is sent | 2 transactions, 1 of them locked, 2 blocks, a cache of 1 block, 3 messages on their way: a block shifted out, a block both in history and in a message, a lock before and after its transaction, in the same and in different blocks |
| `result_waits` | proofs show the result, no result is missed unless its event was lost, no listener is forgotten, every call is answered, the connection comes back | 2 calls for one transition (the topic they share), 3 blocks, 2 faults: a result before, during and after the query, the next block before and after the result, a connection that breaks during either |
| `wallet_sync` | one stream and one chunk at a time, no address of the first gap passed over, and history, queue and stop come to their ends | 2 blocks, the second mined before or after the start, a gap of 1, 2 chunks waiting, 2 faults (a stream, a call, a job that throws): payments to the first address, to the one the gap adds next and to nobody of the account, a stop at every step, a failure while the one before is recovered from |
| `info_saved_height` | *violated*: Info reports a block that was never committed | 3 blocks, one restart of Tenderdash |
| `delete_leaves_update` | *violated*: a document created and removed in one block is stored | as `documents` |
| `stopped_has_no_stream` | *violated*: a worker that is stopped while it waits for DAPI to open the stream keeps the stream | as `wallet_sync`, without faults |

The violated runs state what a comment, a doc or a test says; `PROJECT.json`
quotes the line under "findings".

Deadlock is not checked in `BlockExecution` and `DocumentsStore`, which stop at
their last height or, as the code does, for good (`Bricked`, `failed`), in
`CoreChainLocks`, where Core stops at its last height, in `AbciConnections`,
where the process ends or a handler waits for Core, and in `TransactionStream`,
`ResultWaits` and `WalletSync`, which are finished when the call has ended and
the chain is at its last block. What must not come to a stop there is stated by
the liveness properties.

The type invariants are not run: a theorem proves each for every value of the
constants.

Other behaviour the models contain, and no property asks to be otherwise:

- a contract may be created twice in a block, because the state repository
  reads contracts from committed state (`StateTransitions.DataContractCreate`);
- the check of endBlock for the DPNS contract compares a Long with a number by
  `===`, so that it never fires (`StateTransitions`);
- a chain lock may come before its block, and whoever it wakes asks Core for a
  block Core does not have (`CoreChainLocks`);
- a file of the last block that is missing or torn keeps Drive from starting
  (`BlockExecution.Bricked`, the exception in `EveryBlockCommitted`);
- a call cancelled before its history and mempool were sent keeps its emitter
  and its loop (`TransactionStream.Cancel`);
- the timeout of a wait forgets the listener for a height, which the next block
  takes off (`ResultWaits.Timeout`, `NoListenerForgotten`);
- a failed request for a transaction's block stays in `pendingRequest`, and the
  stop that waits for it does not end (`WalletSync.LocatingFails`, the exception
  in `StopEnds`);
- the job that cancels the stream for the gap does not look whether there still
  is one: cancelling none is an exception nobody catches (`WalletSync.CancelForGap`,
  the exception `crashed` in its liveness properties);
- a stream that fails for good during the historical sync notes the best height
  as synced (`WalletSync.Caught`), and so does a nested best height that cannot
  be read (`WalletSync.BestFails`);
- a stream left by a job's error keeps sending beside the worker's next one, and
  when it ends the worker believes that it has none: it no longer cancels for the
  gap, nor when it is stopped (`WalletSync.Left`, named in `OneStream`);
- chunks that wait when a job throws may stay without a job until the next stream
  brings a new queue (`WalletSync.Threw`, the exception `threw` in
  `OneChunkAtATime` and `ChunksProcessed`);
- a payment to an address that was generated while the old filter lacked it may
  lie behind the block the next stream starts from, when a transaction of a later
  block has been located meanwhile (`WalletSync.Located`; `NoPaymentPassed` is
  about the addresses every filter has).

### Fairness

`BlockExecution`: weak fairness of `Progress`, the steps without fault or
failure. The supervisor restarts the process, Tenderdash repeats its calls, and
Node.js runs the continuation of every promise that settled. No fault is fair;
their number is bounded, so they stop. `CoreChainLocks`: the same of `Progress`,
of `ReceiveLock` (messages that were not lost are delivered) and of Core's
`NewBlock` and `NewLock`, for Core's chain goes on for ever: since the model's
does not, its last lock is never lost and never overtaken by the older answer of
the start, which stands for the next lock that would come.

`AbciConnections`: weak fairness per connection of the data that arrives, of a
handler that does not wait for Core, of `End`, and of a peer that closes a
connection which was ended (a TCP client sees the end of the stream), and of what
the event loop has scheduled. `TransactionStream`: messages on their way, the
handler's awaits and the loop's timer; Core and the client owe nothing.
`ResultWaits`: events, answers and timers, and a next block, since Tenderdash
makes empty blocks; no result has to come, which is what the timeout is for.
`WalletSync`: DAPI answers and sends the range asked for, jobs run; no new block
has to come, so `StopEnds` begins when the last one has; a stream that was left
owes nothing. `DocumentsStore` and `StateTransitions` claim no liveness.

## Proofs

Every theorem holds for all values of the constants that satisfy the module's
named assumption. The common form is an invariant `IInv`, proved by one lemma
per group of actions, and one theorem per property.

- `BlockExecutionProofs`. `ConstantsAssumption` says where the contracts' and the
  index store stand in the order; any number of stores, blocks and
  faults. The properties are not inductive by themselves: that stores hold whole
  blocks up to the persisted context needs what the open commit has done so far
  (`StoresInv`: store `i < k` holds the block, the later ones do not), where the
  contexts stand at each step (`ContextInv`), and that what the container and
  the file carry is the block the previous stores are missing (`PreviousInv`).
  Last comes the refinement, from the same `IInv` and under all faults: a step of
  block execution is a step of `LaggingLedger` or stutters. The block in memory is
  the ledger's block in progress (`BlockInProgress`), so that Info can skip no
  other, a death can tear no other, and the context stored is its commit;
  `NoBlockForgotten` gives the order of publication.
- `DocumentsStoreProofs`. `IInv` adds to the types `CurrentInv` (overlay over
  store and session against the history), `PreviousInv` (the previous
  store with the clone applied is the store below the overlay; in a replay a
  document is in the previous session as it was before while an operation on it
  is pending, and as it will be after) and
  `MovedInv` (without a moved value, no operation meets another document's).
  `StoreFollowsTransitions`, which is not run because the table says more, is
  proved on the way. The refinement needs one more fact, `FetchedInv`, which
  follows from `IInv`: what index and store answer together are the documents of
  the history, in the open block and in the last one, and the previous index finds
  all the previous store has.
- `StateTransitionsProofs`. `IInv` is the types, `Solvent` and `Agree` of both the
  committed and the transactional copy, `CreatedAreNew`, and that the
  transactional copy extends the committed one (`Extends`), from which the
  action property `TakenStaysTaken` follows. For `CreditsConserved` a second
  invariant, `CreditInv`, keeps two books: what the committed stores hold and the
  pool make up what committed outpoints brought in, and what the open transaction
  holds and the block's fees make up what it has seen brought in. The sum over the
  identities is a fold; a section of lemmas shows by induction over the subsets of
  a finite set that it splits, that it depends only on the balances summed, and
  what it becomes when one of them changes.
- `CoreChainLocksProofs`. `LocksInv` (no lock Drive has, waits for in the
  socket or committed under is above Core's), `HeaderInv` (the target of an
  update is the height its request waited for), `ListsInv` (the lists end at
  `latestRequestedHeight` and never beyond Core's lock), and from them that a fetched diff fits the store
  (`FetchesFit`).
- `AbciConnectionsProofs`. `NoRequestForgotten` needs to know who reads: `RequestsInv`
  counts requests (a connection that was not destroyed has begun the answered
  ones and the one its handler has, and no more than has been written), and
  `ClosingInv` says that nobody is left once the server has closed, unless two
  shutdowns met. Any number of connections and requests.
- `TransactionStreamProofs`. `ChainInv` (blocks share no transaction), `HandlerInv`
  (the range read lies within the chain; the proof sent next is of transactions
  that were sent), `CacheInv` (what the cache has without an entry to retrieve has
  been sent, and the flags of an unsent merkle block are fresh or sent),
  `FlightInv` and `ClientLocks` (a lock is in one place only: on its way once,
  collected, or sent). The lemmas about `TransactionHashesCache` come first:
  what adding a transaction, putting a block, making room, removing and
  retrieving do to these facts. Any finite set of transactions, any chain and cache size.
  `NoGapWhenCaughtUp` needs a second invariant, `GapInv`, that follows each
  transaction from where Core has it to the client: blocks come once and the cache
  keeps a block's transactions until it comes (`EventInv`, `SeenInv`); what lies
  behind the handler's place in the history was sent (`HistoryInv`); a transaction
  of the mempool was seen, is on its way, or is one the handler has still to read or
  to test (`MemPoolInv`); those of a block after the history come before it, and when
  it has come the client has them or gets them with the next round (`AwaitedInv`,
  `ReceivedInv`), but for a block shifted out of a full cache and a transaction that
  was in the mempool first and that Core did not publish again (`Excused`).
- `ResultWaitsProofs`. `ChainInv` (an event of a block on its way is of a height
  not heard of) and `WaitsInv` (a height is waited for only when it is the one
  that makes the call's result provable) make `ProofShowsResult`,
  `NoResultMissed` and `NoListenerForgotten` inductive. Any number of calls,
  transitions, blocks and faults.
- `WalletSyncProofs`. `StreamInv` (when there is a stream), `LeftInv` (which streams
  a job's error can have left) and `QueueInv` (who listens for the next chunk, and
  which jobs run, before and after one has thrown) give `OneStream` and
  `OneChunkAtATime`. The ways a sync goes on after its stream, its error or a failed
  best height are one case, `Restarts`: another call, the incoming sync or none.
  `NoPaymentPassed` is about order: whoever has a block (the storage, the running
  job, a chunk that waits, the stream) comes after every payment before it to an
  address of the first gap (`StoredInOrder`, `RunsInOrder`, `WaitsInOrder`,
  `StreamInOrder`), so that below the block a sync starts again from none is missing
  (`RequestInOrder`). A throwing job breaks that order, but it ends the past's sync,
  or finds it ended already with nothing sent to that queue any more (`PastOrder`).
  It needs that every filter has those addresses and that only stored transactions
  are located (`AccountInv`). Any chain, gap, queue and number of faults.

Model-checked only: the liveness properties (`EveryBlockCommitted`,
`KeepsServing`, `ShutdownEnds`, `PendingGetsSent`, `CallsAnswered`, `ComesBack`,
`HistoryEnds`, `ChunksProcessed`, `StopEnds`), which rest on fairness. Every
safety property that a passing run checks is also proved.

## Not modelled

In the modelled parts: two handlers at once after Tenderdash restarts inside a
call; MongoDB's retries after transient errors; Core's own synchronisation
before the start and a lost hashblock message; parameter checks and the bloom
filter's own matching in the transaction stream, and a write rejected in its live
loop; a proof that Tenderdash or Drive refuses (`ResultWaits.FetchProof` always
has it); the wallet's keys, coin
selection, storage adapters and other workers. Of the `error` events a wallet's
worker emits it is assumed that someone listens, as the SDK does (`Client.ts`). Signatures and structure
validation are data without control.

Of the other parts:

- The validator set is a rotation at given heights from a seeded choice of
  quorums. The question it raises, whether nodes whose latest chain locks differ
  choose alike, is one about two nodes; the models here are of one.
- The DAPI client's bans, retries and list refresh race with nothing but the
  caller's own requests, and what a retry repeats is DAPI's and Tenderdash's to
  tolerate. Two hazards in it are listed without a property.
- The queries' handlers read and encode; the state they read is in
  `BlockExecution`, the index in `DocumentsStore`. Their proofs are Merk's.
- The stores of identities, contracts and asset locks are key-value stores over
  the overlay of `DocumentsStore`.
- The gRPC stream helper is a write that waits for its acknowledgement;
  `TransactionStream` takes a write as one step.
- DAPI's other handlers, the SDK, the data contracts, the deployment scripts and
  the test suite keep no state worth a model; the generated clients and encoders
  (`dapi-grpc`, `js-abci/types.js`), which are most of the repository's lines,
  have no behaviour of their own.

## What could follow

1. `BlockExecution` with a handler orphaned by a restart of Tenderdash inside a
   call, and `DocumentsStore` with a session lost to a transient error.
2. Two nodes with different latest chain locks, and the validator sets they rotate to.
3. The DAPI client: bans, retries, refresh of the masternode list.
