------------------------------ MODULE WalletSync ------------------------------
(***************************************************************************)
(* The worker that keeps a wallet's account in step with the chain         *)
(* (packages/wallet-lib, TransactionSyncStreamWorker): a stream of the     *)
(* past, opened again with a larger filter whenever a payment uses up the  *)
(* gap of unused addresses, then one of what is new; chunks wait in a      *)
(* queue; the block of every transaction is asked for; and the worker may  *)
(* be stopped at any time.                                                 *)
(*                                                                         *)
(* DAPI is external.  Block b has one transaction, b, which pays an address*)
(* of the account, known by its index, or a foreign one.  A job of the     *)
(* queue needs no network: but for the immediate in which it cancels the   *)
(* stream it goes on in microtasks, before any timer, reply or error;      *)
(* chunks that came in one piece, and the end behind them, find it running.*)
(* A job that throws ends the sync, but neither its stream nor what the    *)
(* stream set going.                                                       *)
(***************************************************************************)
EXTENDS Integers, Sequences, FiniteSets

CONSTANTS
  First, Last, \* bound: the best block at the start and the last one
  Payments,  \* bound: who the blocks pay
  Gap,       \* BIP44_ADDRESS_GAP
  MaxQueue,  \* bound: chunks waiting
  MaxFaults  \* bound: streams and calls that fail

Blocks == 1 .. Last
Foreign == -1
Larger(i, j) == IF i > j THEN i ELSE j

ASSUME WalletAssumption ==
  /\ Last \in Nat /\ First \in 1 .. Last /\ Gap \in Nat \ {0} /\ MaxFaults \in Nat /\ MaxQueue \in Nat
  /\ Payments \subseteq [Blocks -> Nat \cup {Foreign}]

Chunk == [kind : {"tx", "header"}, block : Blocks]
Job == [chunk : Chunk, by : {"enqueued", "processed"}, at : {"run", "cancel"}]
Stream == [until : 0 .. Last, filter : Nat, next : 1 .. Last + 1, half : BOOLEAN,
           feed : {"open", "ended"}]

VARIABLES
  pays, height,   \* the chain
  known,          \* addresses generated: those with an index below
  stored,         \* transactions in the storage
  hash, synced,   \* the account's blockHash (0: none) and blockHeight
  mode, pc,       \* historical or incoming sync, and where it is
  req,            \* what it asks for: from, until (0: goes on), filter, best and the
                  \* best heights of the calls that go on after it, outermost first
  stream,         \* this.stream is not null
  feed,           \* what DAPI makes of it
  next, half,     \* the block it has come to, and whether its transaction was sent
  left,           \* streams of syncs that a job's error has ended
  queue,          \* jobs waiting, jobs running, a listener for the next one, an error
  gap,            \* hasReachedGapLimit
  fetch,          \* pendingRequest, for every transaction
  on,             \* syncIncomingTransactions
  stop, crashed,  \* stopWorker; an exception nobody catches
  faults

chain == <<pays, height>>
account == <<known, stored, hash>>
worker == <<mode, pc, req, synced>>
feeding == <<feed, next, half, left>>
jobs == <<queue, gap>>
vars == <<chain, account, worker, stream, feeding, jobs, fetch, on, stop, crashed, faults>>

TypeOK ==
  /\ pays \in Payments /\ height \in Blocks
  /\ known \in Nat /\ stored \subseteq Blocks
  /\ hash \in 0 .. height /\ synced \in 0 .. height
  /\ mode \in {"historical", "incoming"}
  /\ pc \in {"best", "subscribe", "stream", "ending", "halted"}
  /\ req \in [from : 0 .. Last, until : 0 .. Last, filter : Nat, best : 0 .. Last,
             outer : Seq(0 .. Last)]
  /\ stream \in BOOLEAN /\ feed \in {"none", "open", "cancelled", "ended"}
  /\ next \in 1 .. Last + 1 /\ half \in BOOLEAN /\ left \subseteq Stream
  /\ queue \in [waiting : Seq(Chunk), running : SUBSET Job, ear : BOOLEAN, threw : BOOLEAN]
  /\ gap \in BOOLEAN
  /\ fetch \in [Blocks -> {"none", "asked", "delayed", "failed"}]
  /\ on \in BOOLEAN /\ stop \in {"no", "waiting", "cancel", "done"}
  /\ crashed \in BOOLEAN /\ faults \in 0 .. MaxFaults

NewQueue == [waiting |-> << >>, running |-> {}, ear |-> TRUE, threw |-> FALSE]

Init ==
  /\ pays \in Payments /\ height \in First .. Last
  /\ known = Gap /\ stored = {} /\ hash = 0 /\ synced = 0
  /\ mode = "historical" /\ pc = "best"
  /\ req = [from |-> 0, until |-> 0, filter |-> 0, best |-> 0, outer |-> << >>]
  /\ stream = FALSE /\ feed = "none" /\ next = 1 /\ half = FALSE /\ left = {}
  /\ queue = NewQueue /\ gap = FALSE /\ fetch = [b \in Blocks |-> "none"]
  /\ on = FALSE /\ stop = "no" /\ crashed = FALSE /\ faults = 0

Pending == {b \in Blocks : fetch[b] # "none"}
AtRest == queue.running = {}
NoneRuns == \A j \in queue.running : j.at = "cancel"
Fault == faults < MaxFaults /\ faults' = faults + 1

-----------------------------------------------------------------------------
(* The queue of chunks *)

\* A listener takes the job at once.
Enqueue(c) ==
  queue' = IF queue.ear
           THEN [queue EXCEPT !.ear = FALSE,
                              !.running = @ \cup {[chunk |-> c, by |-> "enqueued", at |-> "run"]}]
           ELSE [queue EXCEPT !.waiting = Append(@, c)]

\* Faulty: only a job that a listener took is followed by the next.
FinishedStops(q, j) == [q EXCEPT !.running = @ \ {j}, !.ear = q.waiting = << >>]

\* 'processed' takes the next job.  A handler whose job has ended listens for
\* another one if none waits, whatever has been taken meanwhile.
Finished(q, j) ==
  IF q.waiting = << >>
  THEN [q EXCEPT !.running = @ \ {j}, !.ear = TRUE]
  ELSE [q EXCEPT !.waiting = Tail(@),
                 !.running = (@ \ {j})
                               \cup {[chunk |-> Head(q.waiting), by |-> "processed", at |-> "run"]},
                 !.ear = @ \/ (j.by = "processed" /\ Tail(q.waiting) = << >>)]

\* No 'processed' follows an error: only a handler of it that finds nothing waiting
\* listens for another job.
Threw(q, j) ==
  [q EXCEPT !.running = @ \ {j}, !.threw = TRUE,
            !.ear = @ \/ (j.by = "processed" /\ q.waiting = << >>)]

\* A job that has to wait for its immediate
Turned(q, j) == [q EXCEPT !.running = (@ \ {j}) \cup {[j EXCEPT !.at = "cancel"]}]

Ours(b) == pays[b] # Foreign /\ pays[b] < known

\* importTransactions, with the addresses it generates, and the request for its block
Import(b) ==
  /\ stored' = stored \cup {b} /\ fetch' = [fetch EXCEPT ![b] = "asked"]
  /\ known' = Larger(known, pays[b] + 1 + Gap) /\ gap' = (gap \/ known' > known)

\* processChunks of a transaction; more addresses need another stream.
ProcessTransaction(j) ==
  /\ j.at = "run" /\ j.chunk.kind = "tx"
  /\ IF Ours(j.chunk.block)
     THEN /\ Import(j.chunk.block)
          /\ queue' = IF gap' /\ stream THEN Turned(queue, j) ELSE Finished(queue, j)
     ELSE queue' = Finished(queue, j) /\ UNCHANGED <<known, stored, fetch, gap>>
  /\ UNCHANGED <<chain, hash, worker, stream, feeding, on, stop, crashed, faults>>

\* processChunks of a merkle block: false positives are left out.
ProcessHeader(j) ==
  /\ j.at = "run" /\ j.chunk.kind = "header"
  /\ hash' = IF j.chunk.block \in stored THEN j.chunk.block ELSE hash
  /\ queue' = Finished(queue, j)
  /\ UNCHANGED <<chain, known, stored, worker, stream, feeding, gap, fetch, on, stop, crashed,
                 faults>>

\* The immediate of a job.  Nobody looks whether the stream is still there.
CancelForGap(j) ==
  /\ j.at = "cancel" /\ NoneRuns
  /\ IF stream
     THEN /\ queue' = Finished(queue, j)
          /\ feed' = IF feed = "open" THEN "cancelled" ELSE feed
          /\ UNCHANGED crashed
     ELSE crashed' = TRUE /\ UNCHANGED <<queue, feed>>
  /\ UNCHANGED <<chain, account, worker, stream, next, half, left, gap, fetch, on, stop, faults>>

Jobs == \E j \in queue.running : ProcessTransaction(j) \/ ProcessHeader(j) \/ CancelForGap(j)

-----------------------------------------------------------------------------
(* The stream *)

\* Chunks come together, or between a job and its immediate.
Listening ==
  /\ Len(queue.waiting) < MaxQueue
  /\ \A j \in queue.running : j.at = "run" => j.by = "enqueued"

Until(s) == IF s.until = 0 THEN height ELSE s.until
Matches(s, b) == pays[b] = Foreign \/ pays[b] < s.filter

TransactionNext(s) == s.next <= Until(s) /\ ~s.half /\ Matches(s, s.next)

\* A transaction that was new before is not sent again with its block.
HeaderNext(s) == s.next <= Until(s) /\ (s.half \/ (s.until = 0 /\ s.next \in stored))

\* Foreign payments match by chance only.
NothingNext(s) == s.next <= Until(s) /\ ~s.half /\ (Matches(s, s.next) => pays[s.next] = Foreign)

\* The mempool, or a new transaction
NewFor(s, b) ==
  s.until = 0 /\ s.next > height /\ b > height /\ b \notin stored /\ Matches(s, b) /\ pays[b] # Foreign

Current == [until |-> req.until, filter |-> req.filter, next |-> next, half |-> half, feed |-> feed]

ReceiveTransaction ==
  /\ feed = "open" /\ Listening /\ TransactionNext(Current)
  /\ Enqueue([kind |-> "tx", block |-> next]) /\ half' = TRUE
  /\ UNCHANGED <<chain, account, worker, stream, feed, next, left, gap, fetch, on, stop, crashed,
                 faults>>

ReceiveHeader ==
  /\ feed = "open" /\ Listening /\ HeaderNext(Current)
  /\ Enqueue([kind |-> "header", block |-> next])
  /\ next' = next + 1 /\ half' = FALSE
  /\ UNCHANGED <<chain, account, worker, stream, feed, left, gap, fetch, on, stop, crashed, faults>>

PassBlock ==
  /\ feed = "open" /\ NothingNext(Current)
  /\ next' = next + 1
  /\ UNCHANGED <<chain, account, worker, stream, feed, half, left, jobs, fetch, on, stop, crashed,
                 faults>>

ReceiveNew(b) ==
  /\ feed = "open" /\ Listening /\ NewFor(Current, b)
  /\ Enqueue([kind |-> "tx", block |-> b])
  /\ UNCHANGED <<chain, account, worker, stream, feeding, gap, fetch, on, stop, crashed, faults>>

\* onStreamEnd.  DAPI ends the stream of the past; the other one when it closes.
StreamEnds ==
  /\ feed = "open" /\ Listening /\ pc = "stream" /\ ~half
  /\ IF req.until # 0 THEN next > req.until /\ UNCHANGED faults ELSE Fault
  /\ feed' = "ended" /\ pc' = "ending"
  /\ UNCHANGED <<chain, account, mode, req, synced, stream, next, half, left, jobs, fetch, on, stop,
                 crashed>>

\* A stream that was left goes on into the queue there is now.
LeftSends(s) ==
  /\ s.feed = "open" /\ Listening
  /\ \/ /\ TransactionNext(s) /\ Enqueue([kind |-> "tx", block |-> s.next])
        /\ left' = (left \ {s}) \cup {[s EXCEPT !.half = TRUE]}
     \/ /\ HeaderNext(s) /\ Enqueue([kind |-> "header", block |-> s.next])
        /\ left' = (left \ {s}) \cup {[s EXCEPT !.next = @ + 1, !.half = FALSE]}
     \/ /\ UNCHANGED left
        /\ \E b \in Blocks : NewFor(s, b) /\ Enqueue([kind |-> "tx", block |-> b])
  /\ UNCHANGED <<chain, account, worker, stream, feed, next, half, gap, fetch, on, stop, crashed,
                 faults>>

\* It passes a block, ends, or breaks, of which nobody hears.
LeftGoesOn(s) ==
  /\ s.feed = "open"
  /\ \/ NothingNext(s) /\ left' = (left \ {s}) \cup {[s EXCEPT !.next = @ + 1]}
     \/ /\ Listening /\ ~s.half /\ (s.until # 0 => s.next > s.until)
        /\ left' = (left \ {s}) \cup {[s EXCEPT !.feed = "ended"]}
     \/ left' = left \ {s}
  /\ UNCHANGED <<chain, account, worker, stream, feed, next, half, jobs, fetch, on, stop, crashed,
                 faults>>

\* tryEndStream sets this.stream to null, whichever stream it is.
LeftIsOver(s) ==
  /\ s.feed = "ended" /\ Pending = {} /\ stream' = FALSE /\ left' = left \ {s}
  /\ UNCHANGED <<chain, account, worker, feed, next, half, jobs, fetch, on, stop, crashed, faults>>

Left == \E s \in left : LeftSends(s) \/ LeftGoesOn(s) \/ LeftIsOver(s)

-----------------------------------------------------------------------------
(* The worker *)

Unfed == feed' = "none" /\ next' = 1 /\ half' = FALSE

Historical(outer) ==
  /\ mode' = "historical" /\ pc' = "best"
  /\ req' = [from |-> hash, until |-> 0, filter |-> 0, best |-> 0, outer |-> outer]

Incoming ==
  /\ mode' = "incoming" /\ pc' = "subscribe"
  /\ req' = [from |-> IF hash # 0 THEN hash ELSE Larger(synced', 1), until |-> 0, filter |-> known,
             best |-> 0, outer |-> << >>]

Halt == pc' = "halted" /\ UNCHANGED <<mode, req, synced, on>>

\* onStart has returned: startWorker executes the worker.
Execute == on' = TRUE /\ Incoming

\* The incoming sync is called again unless it was switched off.
IncomingAgain == IF on THEN UNCHANGED <<synced, on>> /\ Incoming ELSE Halt

\* A historical sync that returns notes its height, and then so does each of its callers.
Noted(best, outer) == synced' = Head(Append(outer, best)) /\ Execute

\* What the two syncs catch, the historical one in a call within outer that has read
\* best.  One that was cancelled and has no stream returns and leaves its height alone.
Caught(error, best, outer) ==
  /\ stream' = FALSE
  /\ \/ mode = "incoming" /\ error # "other" /\ IncomingAgain
     \/ mode = "incoming" /\ error = "other" /\ Halt
     \/ mode = "historical" /\ error = "other" /\ Noted(best, outer)
     \/ mode = "historical" /\ error = "cancelled" /\ ~stream /\ Noted(synced, outer)
     \/ /\ mode = "historical" /\ error # "other" /\ (error = "cancelled" => stream)
        /\ Historical(outer) /\ UNCHANGED <<synced, on>>

\* The range is count blocks, which DAPI cuts off at its best one.
ReadBest ==
  /\ pc = "best" /\ AtRest
  /\ LET last == Larger(synced, 1)
         count == IF height = last THEN 1 ELSE height - last
         from == IF req.from # 0 THEN req.from ELSE last
     IN  req' = [from |-> from, filter |-> known, best |-> height, outer |-> req.outer,
                 until |-> IF from + count > height + 1 THEN height ELSE from + count - 1]
  /\ pc' = "subscribe"
  /\ UNCHANGED <<chain, account, mode, synced, stream, feeding, jobs, fetch, on, stop, crashed,
                 faults>>

\* syncUpToTheGapLimit, once DAPI has answered
Subscribed ==
  /\ pc = "subscribe" /\ AtRest /\ ~stream
  /\ pc' = "stream" /\ stream' = TRUE
  /\ feed' = "open" /\ next' = req.from /\ half' = FALSE
  /\ queue' = NewQueue /\ gap' = FALSE
  /\ UNCHANGED <<chain, account, mode, req, synced, left, fetch, on, stop, crashed, faults>>

\* After its stream a sync starts again, the historical one only if the gap was used up.
GoesOn ==
  \/ mode = "incoming" /\ IncomingAgain
  \/ mode = "historical" /\ gap /\ Historical(Append(req.outer, req.best)) /\ UNCHANGED <<synced, on>>
  \/ mode = "historical" /\ ~gap /\ Noted(req.best, req.outer)

\* Faulty: the stream is thought to be open.
EndStreamKept ==
  /\ pc = "ending" /\ Pending = {}
  /\ Unfed /\ stream' = stream /\ GoesOn
  /\ UNCHANGED <<chain, account, left, jobs, fetch, stop, crashed, faults>>

\* tryEndStream, when no request is pending
EndStream ==
  /\ pc = "ending" /\ Pending = {}
  /\ Unfed /\ stream' = FALSE /\ GoesOn
  /\ UNCHANGED <<chain, account, left, jobs, fetch, stop, crashed, faults>>

\* The error of a stream that the worker has cancelled
Cancelled ==
  /\ feed = "cancelled" /\ pc = "stream" /\ NoneRuns
  /\ Unfed /\ Caught("cancelled", req.best, req.outer)
  /\ UNCHANGED <<chain, account, left, jobs, fetch, stop, crashed, faults>>

\* An error of the stream, or of the call that opens it
Breaks(error) ==
  /\ \/ pc = "stream" /\ feed = "open"
     \/ pc = "subscribe"
  /\ NoneRuns /\ Fault
  /\ Unfed /\ Caught(error, req.best, req.outer)
  /\ UNCHANGED <<chain, account, left, jobs, fetch, stop, crashed>>

\* Faulty: startWorker gives up whichever call has failed.
BestFailsHalts(error) ==
  /\ pc = "best" /\ NoneRuns /\ Fault /\ stream' = FALSE /\ Halt
  /\ UNCHANGED <<chain, account, feeding, jobs, fetch, stop, crashed>>

\* The best height is read outside of the try: a call within another one is caught
\* there, and after the outermost one startWorker gives up.
BestFails(error) ==
  /\ pc = "best" /\ NoneRuns /\ Fault
  /\ IF req.outer = << >>
     THEN Halt /\ UNCHANGED stream
     ELSE LET n == Len(req.outer)
          IN  Caught(error, req.outer[n], SubSeq(req.outer, 1, n - 1))
  /\ UNCHANGED <<chain, account, feeding, jobs, fetch, stop, crashed>>

\* A job throws: what it reads cannot be parsed, or the import fails when the
\* transaction has been stored.  The queue's error ends a sync that has not ended;
\* its stream is neither cancelled nor kept from ending later.
JobThrows(j) ==
  /\ j.at = "run" /\ Fault /\ queue' = Threw(queue, j)
  /\ \/ UNCHANGED stored
     \/ j.chunk.kind = "tx" /\ Ours(j.chunk.block) /\ stored' = stored \cup {j.chunk.block}
  /\ IF pc \in {"stream", "ending"}
     THEN /\ left' = IF feed = "cancelled" THEN left ELSE left \cup {Current}
          /\ Unfed /\ Caught("other", req.best, req.outer)
     ELSE UNCHANGED <<worker, on, stream, feeding>>
  /\ UNCHANGED <<chain, known, hash, gap, fetch, stop, crashed>>

-----------------------------------------------------------------------------
(* The transactions' blocks *)

\* Faulty: what has been located stays in pendingRequest.
LocatedStays(b) ==
  /\ fetch[b] = "asked" /\ NoneRuns
  /\ IF b <= height
     THEN hash' = b /\ UNCHANGED fetch
     ELSE fetch' = [fetch EXCEPT ![b] = "delayed"] /\ UNCHANGED hash
  /\ UNCHANGED <<chain, known, stored, worker, stream, feeding, jobs, on, stop, crashed, faults>>

\* Faulty: the best block's header is imported.
LocatedAtBest(b) ==
  /\ fetch[b] = "asked" /\ NoneRuns
  /\ fetch' = [fetch EXCEPT ![b] = IF b <= height THEN "none" ELSE "delayed"]
  /\ hash' = IF b <= height THEN height ELSE hash
  /\ UNCHANGED <<chain, known, stored, worker, stream, feeding, jobs, on, stop, crashed, faults>>

\* handleTransactionFromStream: the header of the block, or a wait for the next one
Located(b) ==
  /\ fetch[b] = "asked" /\ NoneRuns
  /\ IF b <= height
     THEN fetch' = [fetch EXCEPT ![b] = "none"] /\ hash' = b
     ELSE fetch' = [fetch EXCEPT ![b] = "delayed"] /\ UNCHANGED hash
  /\ UNCHANGED <<chain, known, stored, worker, stream, feeding, jobs, on, stop, crashed, faults>>

\* A rejected call leaves pendingRequest as it is.
LocatingFails(b) ==
  /\ fetch[b] = "asked" /\ NoneRuns /\ Fault
  /\ fetch' = [fetch EXCEPT ![b] = "failed"]
  /\ UNCHANGED <<chain, account, worker, stream, feeding, jobs, on, stop, crashed>>

\* BLOCKHEIGHT_CHANGED wakes what was delayed.
Mine ==
  /\ height < Last /\ height' = height + 1
  /\ fetch' = [b \in Blocks |-> IF fetch[b] = "delayed" THEN "asked" ELSE fetch[b]]
  /\ UNCHANGED <<pays, account, worker, stream, feeding, jobs, on, stop, crashed, faults>>

-----------------------------------------------------------------------------
(* stopWorker *)

StopStep(to) ==
  /\ stop' = to
  /\ on' = IF to = "cancel" THEN FALSE ELSE on
  /\ UNCHANGED <<chain, account, worker, stream, feeding, jobs, fetch, crashed, faults>>

Stop == stop = "no" /\ StopStep(IF Pending = {} THEN "cancel" ELSE "waiting")
StopGoesOn == stop = "waiting" /\ NoneRuns /\ Pending = {} /\ StopStep("cancel")

\* In an immediate
StopCancels ==
  /\ stop = "cancel" /\ NoneRuns /\ stop' = "done" /\ stream' = FALSE
  /\ feed' = IF stream /\ feed = "open" THEN "cancelled" ELSE feed
  /\ UNCHANGED <<chain, account, worker, next, half, left, jobs, fetch, on, crashed, faults>>

-----------------------------------------------------------------------------
Streaming == ReceiveTransaction \/ ReceiveHeader \/ PassBlock \/ (StreamEnds /\ req.until # 0)
Syncing == ReadBest \/ Subscribed \/ EndStream \/ Cancelled
Stopping == StopGoesOn \/ StopCancels

Next ==
  /\ ~crashed
  /\ \/ Jobs \/ Streaming \/ StreamEnds \/ Left \/ Syncing \/ Stopping \/ Mine \/ Stop
     \/ \E b \in Blocks : ReceiveNew(b) \/ Located(b) \/ LocatingFails(b)
     \/ \E error \in {"retry", "cancelled", "other"} : Breaks(error) \/ BestFails(error)
     \/ \E j \in queue.running : JobThrows(j)

\* DAPI answers and sends, jobs and timers run.  No block has to come.
FairSpec ==
  /\ Init /\ [][Next]_vars
  /\ WF_vars(~crashed /\ Jobs) /\ WF_vars(~crashed /\ Streaming)
  /\ WF_vars(~crashed /\ Syncing) /\ WF_vars(~crashed /\ Stopping)
  /\ \A b \in Blocks : WF_vars(~crashed /\ Located(b))

Spec == Init /\ [][Next]_vars

-----------------------------------------------------------------------------
\* "Limited to one stream at the same time": the error is never thrown.  Only a stream
\* that a job's error has left may send beside the worker's own, one of the past or,
\* when the worker has halted, the incoming one too.
OneStream ==
  /\ pc \in {"best", "subscribe"} => ~stream /\ feed = "none"
  /\ mode = "historical" => left = {}
  /\ \A s, t \in left : pc # "halted" \/ (s.until = 0 <=> t.until = 0) => s = t

\* The addresses there were from the start are in every filter: the block a
\* historical sync starts from again never passes a payment to one of them.
NoPaymentPassed ==
  mode = "historical" =>
    \A b \in 1 .. hash : pays[b] \in 0 .. Gap - 1 => b \in stored

\* However the listeners nest, chunks are handled one after the other, beside jobs
\* that only wait to cancel the stream, and none waits without a job to start it
\* unless a job has thrown.
OneChunkAtATime ==
  /\ \A j, l \in queue.running : j.at = "run" /\ l.at = "run" => j = l
  /\ queue.waiting # << >> => queue.running # {} \/ queue.threw

\* A historical sync comes to its end, whatever fails on the way, unless the outermost
\* call cannot have the best height or the block of a transaction cannot be had: the
\* gap starts it again only finitely often.
HistoryEnds ==
  (mode = "historical") ~>
    \/ mode = "incoming" \/ crashed
    \/ /\ faults > 0
       /\ (pc = "halted" /\ req.outer = << >>) \/ \E b \in Blocks : fetch[b] = "failed"

\* No chunk stays in the queue for want of a listener, unless a job has thrown.
ChunksProcessed ==
  (queue.waiting # << >>) ~> (queue.waiting = << >> \/ queue.threw \/ crashed)

\* Stopping waits for the pending requests and no longer, those of new transactions
\* too once their blocks have come; only a request that failed keeps it for ever.
StopEnds ==
  (stop \in {"waiting", "cancel"} /\ height = Last) ~>
    (stop = "done" \/ crashed \/ \E b \in Blocks : fetch[b] = "failed")

\* "disconnect from all the opened streams" (disconnect.js): a worker that has
\* stopped has none.
StoppedHasNoStream == stop = "done" => ~stream
=============================================================================
