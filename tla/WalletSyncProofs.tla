--------------------------- MODULE WalletSyncProofs ---------------------------
(***************************************************************************)
(* Proofs about WalletSync for every chain, gap, queue and number of       *)
(* faults.  That the past is synced without passing a payment over is a    *)
(* fact about order: transactions are stored in the order of their blocks, *)
(* so that below a stored one no payment to an address of the first filter *)
(* is missing, wherever the sync starts again.                             *)
(***************************************************************************)
EXTENDS WalletSync, TLAPS

\* Where the worker is while there is a stream.
StreamInv ==
  /\ pc \in {"best", "subscribe", "halted"} => ~stream
  /\ feed \in {"open", "cancelled"} <=> pc = "stream"
  /\ feed = "ended" <=> pc = "ending"

\* The streams that were left: one of the past at most, and one that came after it
\* once the worker has halted.
LeftInv ==
  /\ mode = "historical" => left = {}
  /\ mode = "incoming" => req.until = 0 /\ pc # "best"
  /\ \A s \in left : s.until = 0 => pc = "halted"
  /\ \A s, t \in left : (s.until = 0 <=> t.until = 0) => s = t

\* Who listens, and who runs.
QueueInv ==
  /\ queue.ear => queue.waiting = << >>
  /\ ~queue.ear => queue.running # {} \/ queue.threw
  /\ \A j, l \in queue.running : j.at = "run" /\ l.at = "run" => j = l
  /\ \A j \in queue.running : j.at = "run" /\ j.by = "enqueued" => ~queue.ear

\* What has been asked for or has come lies within the chain.
RequestInv ==
  /\ req.until <= height /\ req.best <= height /\ req.from <= height
  /\ \A i \in DOMAIN req.outer : req.outer[i] <= height
  /\ pc \in {"subscribe", "stream", "ending"} => req.from >= 1
  /\ next <= height + 1
  /\ \A s \in left : s.until <= height /\ s.next <= height + 1
HeadersInv ==
  /\ \A i \in DOMAIN queue.waiting :
       queue.waiting[i].kind = "header" => queue.waiting[i].block <= height
  /\ \A j \in queue.running : j.chunk.kind = "header" => j.chunk.block <= height

\* Filters have the addresses of the start, and only stored transactions are located.
AccountInv ==
  /\ hash # 0 => hash \in stored
  /\ known >= Gap
  /\ pc \in {"subscribe", "stream", "ending"} => req.filter >= Gap
  /\ \A b \in Blocks : fetch[b] # "none" => b \in stored

\* Block b pays an address there was from the start.
Initial(b) == pays[b] \in 0 .. Gap - 1

Sent(b) == [kind |-> "tx", block |-> b]
Runs(c) == \E j \in queue.running : j.at = "run" /\ j.chunk = c

\* The transaction of b is running or among the first n chunks.
Ahead(b, n) == Runs(Sent(b)) \/ \E i \in 1 .. n : queue.waiting[i] = Sent(b)

\* The order in which the past comes in: whoever has a block, the storage, the
\* running job, a chunk or the stream itself, comes after the payments before it.
StoredInOrder ==
  \A b \in Blocks, h \in stored : Initial(b) /\ b < h => b \in stored
RunsInOrder ==
  \A b, h \in Blocks : Initial(b) /\ b < h /\ Runs(Sent(h)) => b \in stored
WaitsInOrder ==
  \A b, h \in Blocks, i \in 1 .. Len(queue.waiting) :
    Initial(b) /\ b < h /\ queue.waiting[i] = Sent(h) => b \in stored \/ Ahead(b, i - 1)
StreamInOrder ==
  feed = "open" =>
    \A b \in Blocks : Initial(b) /\ (b < next \/ (half /\ b = next)) =>
      b \in stored \/ Ahead(b, Len(queue.waiting))
RequestInOrder ==
  \A b \in Blocks : Initial(b) /\ b < req.from => b \in stored

InOrder == StoredInOrder /\ RunsInOrder /\ WaitsInOrder /\ StreamInOrder

\* The past goes on after a job has thrown only if the job's sync had ended before:
\* nothing is sent to that queue then, and what waits there will not run.
PastOrder ==
  /\ queue.threw => StoredInOrder /\ feed = "none" /\ NoneRuns
  /\ ~queue.threw => InOrder

PastInv ==
  mode = "historical" =>
    /\ synced = 0
    /\ pc \in {"subscribe", "stream", "ending"} => req.until # 0
    /\ PastOrder /\ RequestInOrder

IInv == TypeOK /\ StreamInv /\ LeftInv /\ QueueInv /\ RequestInv /\ HeadersInv /\ AccountInv /\ PastInv

USE WalletAssumption DEF Blocks

-----------------------------------------------------------------------------
(* The queue *)

QueueType == [waiting : Seq(Chunk), running : SUBSET Job, ear : BOOLEAN, threw : BOOLEAN]

\* A chunk that comes in is run by the listener or waits behind the others.
LEMMA Enqueued ==
  ASSUME queue \in QueueType, QueueInv, NEW c \in Chunk, Enqueue(c),
         \A j \in queue.running : j.at = "run" => j.by = "enqueued"
  PROVE  /\ queue' \in QueueType
         /\ QueueInv' /\ queue'.threw = queue.threw
         /\ \/ /\ queue.waiting = << >> /\ queue'.waiting = << >>
               /\ \A j \in queue.running : j.at # "run"
               /\ queue'.running =
                    queue.running \cup {[chunk |-> c, by |-> "enqueued", at |-> "run"]}
            \/ queue'.waiting = Append(queue.waiting, c) /\ queue'.running = queue.running
<1>1. [chunk |-> c, by |-> "enqueued", at |-> "run"] \in Job
  BY DEF Job
<1>2. CASE queue.ear
  <2>1. \A j \in queue.running : j.at # "run"
    BY <1>2 DEF QueueInv
  <2>2. /\ queue'.waiting = << >> /\ queue.waiting = << >> /\ ~queue'.ear
        /\ queue'.threw = queue.threw
        /\ queue'.running = queue.running \cup {[chunk |-> c, by |-> "enqueued", at |-> "run"]}
    BY <1>2 DEF Enqueue, QueueInv, QueueType
  <2>3. queue' \in QueueType
    BY <1>1, <1>2 DEF Enqueue, QueueType
  <2> QED BY <2>1, <2>2, <2>3 DEF QueueInv
<1>3. CASE ~queue.ear
  <2>1. /\ queue'.waiting = Append(queue.waiting, c) /\ queue'.running = queue.running
        /\ ~queue'.ear /\ queue'.threw = queue.threw
    BY <1>3 DEF Enqueue, QueueType
  <2>2. queue' \in QueueType
    <3> DEFINE w == Append(queue.waiting, c)
    <3>1. w \in Seq(Chunk)
      BY DEF QueueType
    <3>2. queue' = [queue EXCEPT !.waiting = w]
      BY <1>3 DEF Enqueue
    <3> HIDE DEF w
    <3> QED BY <3>1, <3>2 DEF QueueType
  <2> QED BY <1>3, <2>1, <2>2 DEF QueueInv
<1> QED BY <1>2, <1>3

\* The end of a job starts the first chunk that waits, and no other.
LEMMA Served ==
  ASSUME queue \in QueueType, QueueInv, NEW j \in queue.running,
         \A l \in queue.running : l.at = "run" => l = j,
         queue' = Finished(queue, j)
  PROVE  /\ queue' \in QueueType
         /\ QueueInv' /\ queue'.threw = queue.threw
         /\ \/ /\ queue.waiting = << >> /\ queue'.waiting = << >>
               /\ queue'.running = queue.running \ {j}
            \/ /\ queue.waiting # << >> /\ queue'.waiting = Tail(queue.waiting)
               /\ queue'.running = (queue.running \ {j}) \cup
                    {[chunk |-> Head(queue.waiting), by |-> "processed", at |-> "run"]}
<1>1. CASE queue.waiting = << >>
  <2>1. /\ queue'.waiting = << >> /\ queue'.running = queue.running \ {j} /\ queue'.ear
        /\ queue'.threw = queue.threw
    BY <1>1 DEF Finished, QueueType
  <2>2. queue' \in QueueType
    BY <1>1 DEF Finished, QueueType
  <2> QED BY <1>1, <2>1, <2>2 DEF QueueInv
<1>2. CASE queue.waiting # << >>
  <2> DEFINE new == [chunk |-> Head(queue.waiting), by |-> "processed", at |-> "run"]
  <2>1. Head(queue.waiting) \in Chunk /\ Tail(queue.waiting) \in Seq(Chunk)
    BY <1>2 DEF QueueType
  <2>2. new \in Job
    BY <2>1 DEF Job
  <2>3. /\ queue'.waiting = Tail(queue.waiting)
        /\ queue'.running = (queue.running \ {j}) \cup {new}
        /\ queue'.ear = (queue.ear \/ (j.by = "processed" /\ Tail(queue.waiting) = << >>))
        /\ queue'.threw = queue.threw
    BY <1>2 DEF Finished, QueueType
  <2>4. ~queue.ear
    BY <1>2 DEF QueueInv
  <2>5. queue' \in QueueType
    <3> DEFINE w == Tail(queue.waiting)
               e == queue.ear \/ (j.by = "processed" /\ Tail(queue.waiting) = << >>)
               rest == (queue.running \ {j}) \cup {new}
    <3>1. queue' = [queue EXCEPT !.waiting = w, !.running = rest, !.ear = e]
      BY <1>2 DEF Finished
    <3>2. w \in Seq(Chunk) /\ rest \subseteq Job
      BY <2>1, <2>2 DEF QueueType
    <3>3. e \in BOOLEAN
      BY Zenon
    <3> HIDE DEF w, e, rest
    <3> QED BY <3>1, <3>2, <3>3 DEF QueueType
  <2>6. QueueInv'
    <3>1. new.at = "run" /\ new.by = "processed" /\ queue'.running # {}
      BY <2>3
    <3>2. \A l \in queue'.running : l.at = "run" => l = new
      BY <2>3
    <3>3. queue'.ear => queue'.waiting = << >>
      BY <2>3, <2>4
    <3> QED BY <3>1, <3>2, <3>3 DEF QueueInv
  <2> QED BY <1>2, <2>3, <2>5, <2>6
<1> QED BY <1>1, <1>2

\* A job that is to cancel the stream lets the others wait.
LEMMA Cancels ==
  ASSUME queue \in QueueType, QueueInv, NEW j \in queue.running,
         \A l \in queue.running : l.at = "run" => l = j, j.at = "run",
         queue' = Turned(queue, j)
  PROVE  /\ queue' \in QueueType
         /\ QueueInv' /\ queue'.threw = queue.threw
         /\ queue'.waiting = queue.waiting
         /\ queue'.running = (queue.running \ {j}) \cup {[j EXCEPT !.at = "cancel"]}
         /\ \A l \in queue'.running : l.at # "run"
<1>1. j \in Job
  BY DEF QueueType
<1>2. [j EXCEPT !.at = "cancel"] \in Job /\ [j EXCEPT !.at = "cancel"].at = "cancel"
  BY <1>1 DEF Job
<1>3. queue' \in QueueType
  BY <1>2 DEF Turned, QueueType
<1>4. /\ queue'.waiting = queue.waiting /\ queue'.ear = queue.ear /\ queue'.threw = queue.threw
      /\ queue'.running = (queue.running \ {j}) \cup {[j EXCEPT !.at = "cancel"]}
  BY DEF Turned, QueueType
<1>5. \A l \in queue'.running : l.at # "run"
  BY <1>2, <1>4
<1>6. queue'.running # {}
  BY <1>4
<1> QED BY <1>3, <1>4, <1>5, <1>6 DEF QueueInv

\* A job that throws is followed by none.
LEMMA Thrown ==
  ASSUME queue \in QueueType, QueueInv, NEW j \in queue.running,
         \A l \in queue.running : l.at = "run" => l = j,
         queue' = Threw(queue, j)
  PROVE  /\ queue' \in QueueType
         /\ QueueInv' /\ queue'.threw
         /\ queue'.waiting = queue.waiting /\ queue'.running = queue.running \ {j}
         /\ \A l \in queue'.running : l.at # "run"
<1>1. queue' \in QueueType
  BY DEF Threw, QueueType
<1>2. /\ queue'.waiting = queue.waiting /\ queue'.running = queue.running \ {j}
      /\ queue'.ear = (queue.ear \/ (j.by = "processed" /\ queue.waiting = << >>))
      /\ queue'.threw
  BY DEF Threw, QueueType
<1>3. \A l \in queue'.running : l.at # "run"
  BY <1>2
<1> QED BY <1>1, <1>2, <1>3 DEF QueueInv

\* The job at work is alone.
LEMMA OneRuns ==
  ASSUME QueueInv, NEW j \in queue.running, j.at = "run" \/ NoneRuns
  PROVE  \A l \in queue.running : l.at = "run" => l = j
  BY DEF QueueInv, NoneRuns

\* What a step may do to the queue.
Takes(c) == Listening /\ c \in Chunk /\ Enqueue(c)
Ends(j) == j \in queue.running /\ (j.at = "run" \/ NoneRuns) /\ queue' = Finished(queue, j)
Turns(j) == j \in queue.running /\ j.at = "run" /\ queue' = Turned(queue, j)
Drops(j) == j \in queue.running /\ j.at = "run" /\ queue' = Threw(queue, j)
Renews == AtRest /\ queue' = NewQueue

LEMMA QueueStep ==
  ASSUME TypeOK, QueueInv,
         \/ \E c : Takes(c)
         \/ \E j : Ends(j) \/ Turns(j) \/ Drops(j)
         \/ Renews
         \/ UNCHANGED queue
  PROVE  queue' \in QueueType /\ QueueInv'
<1>1. queue \in QueueType
  BY DEF TypeOK, QueueType
<1>2. ASSUME NEW c, Takes(c) PROVE queue' \in QueueType /\ QueueInv'
  BY <1>1, <1>2, Enqueued DEF Takes, Listening
<1>3. ASSUME NEW j, Ends(j) PROVE queue' \in QueueType /\ QueueInv'
  <2>1. j \in queue.running /\ \A l \in queue.running : l.at = "run" => l = j
    BY <1>3, OneRuns DEF Ends
  <2> QED BY <1>1, <1>3, <2>1, Served DEF Ends
<1>4. ASSUME NEW j, Turns(j) PROVE queue' \in QueueType /\ QueueInv'
  <2>1. j \in queue.running /\ \A l \in queue.running : l.at = "run" => l = j
    BY <1>4, OneRuns DEF Turns
  <2> QED BY <1>1, <1>4, <2>1, Cancels DEF Turns
<1>7. ASSUME NEW j, Drops(j) PROVE queue' \in QueueType /\ QueueInv'
  <2>1. j \in queue.running /\ \A l \in queue.running : l.at = "run" => l = j
    BY <1>7, OneRuns DEF Drops
  <2> QED BY <1>1, <1>7, <2>1, Thrown DEF Drops
<1>5. CASE Renews
  <2>1. queue' \in QueueType
    BY <1>5 DEF Renews, NewQueue, QueueType
  <2>2. queue'.waiting = << >> /\ queue'.running = {} /\ queue'.ear
    BY <1>5 DEF Renews, NewQueue
  <2> QED BY <2>1, <2>2 DEF QueueInv
<1>6. CASE UNCHANGED queue
  BY <1>1, <1>6 DEF QueueInv
<1> QED BY <1>2, <1>3, <1>4, <1>5, <1>6, <1>7

\* Which actions do it.
Receives == ReceiveTransaction \/ ReceiveHeader \/ \E b \in Blocks : ReceiveNew(b)
LeftSend == \E s \in left : LeftSends(s)
Throws == \E j \in queue.running : JobThrows(j)

LEMMA StreamOf ==
  ASSUME TypeOK, NEW s \in left
  PROVE  /\ s \in Stream /\ s.until \in 0 .. Last /\ s.next \in 1 .. Last + 1 /\ s.half \in BOOLEAN
         /\ s.feed \in {"open", "ended"}
<1>1. s \in Stream
  BY DEF TypeOK
<1> QED BY <1>1 DEF Stream

LEMMA QueueFrame ==
  ASSUME TypeOK, [Next]_vars
  PROVE  \/ (Receives \/ LeftSend) /\ \E c : Takes(c)
         \/ Jobs /\ \E j : Ends(j) \/ Turns(j)
         \/ Throws /\ \E j : Drops(j)
         \/ Subscribed /\ Renews
         \/ UNCHANGED queue
<1>1. CASE ReceiveTransaction
  <2>1. next \in 1 .. Last
    BY <1>1 DEF ReceiveTransaction, TransactionNext, Current, Until, TypeOK
  <2> DEFINE c == [kind |-> "tx", block |-> next]
  <2>2. Takes(c)
    BY <1>1, <2>1 DEF ReceiveTransaction, Takes, Chunk
  <2> QED BY <1>1, <2>2 DEF Receives
<1>2. CASE ReceiveHeader
  <2>1. next \in 1 .. Last
    BY <1>2 DEF ReceiveHeader, HeaderNext, Current, Until, TypeOK
  <2> DEFINE c == [kind |-> "header", block |-> next]
  <2>2. Takes(c)
    BY <1>2, <2>1 DEF ReceiveHeader, Takes, Chunk
  <2> QED BY <1>2, <2>2 DEF Receives
<1>3. ASSUME NEW b \in Blocks, ReceiveNew(b)
      PROVE  Receives /\ \E c : Takes(c)
  <2>1. Takes([kind |-> "tx", block |-> b])
    BY <1>3 DEF ReceiveNew, Takes, Chunk
  <2> QED BY <1>3, <2>1 DEF Receives
<1>12. ASSUME NEW s \in left, LeftSends(s)
       PROVE  LeftSend /\ \E c : Takes(c)
  <2>1. TransactionNext(s) \/ HeaderNext(s) => s.next \in Blocks
    <3>1. s.next \in 1 .. Last + 1 /\ s.until \in 0 .. Last /\ height \in 1 .. Last
      BY StreamOf DEF TypeOK
    <3> QED BY <3>1 DEF TransactionNext, HeaderNext, Until
  <2>2. \/ TransactionNext(s) /\ Enqueue([kind |-> "tx", block |-> s.next])
        \/ HeaderNext(s) /\ Enqueue([kind |-> "header", block |-> s.next])
        \/ \E b \in Blocks : Enqueue([kind |-> "tx", block |-> b])
    BY <1>12 DEF LeftSends
  <2>3. PICK k \in {"tx", "header"}, b \in Blocks : Enqueue([kind |-> k, block |-> b])
    BY <2>1, <2>2
  <2>4. Takes([kind |-> k, block |-> b])
    BY <1>12, <2>3 DEF LeftSends, Takes, Chunk
  <2> QED BY <1>12, <2>4 DEF LeftSend
<1>13. ASSUME NEW s \in left, LeftGoesOn(s) \/ LeftIsOver(s)
       PROVE  UNCHANGED queue
  BY <1>13 DEF LeftGoesOn, LeftIsOver, jobs
<1>4. ASSUME NEW j \in queue.running, ProcessTransaction(j)
      PROVE  Ends(j) \/ Turns(j)
  BY <1>4 DEF ProcessTransaction, Ends, Turns
<1>5. ASSUME NEW j \in queue.running, ProcessHeader(j)
      PROVE  Ends(j)
  BY <1>5 DEF ProcessHeader, Ends
<1>6. ASSUME NEW j \in queue.running, CancelForGap(j)
      PROVE  Ends(j) \/ UNCHANGED queue
  BY <1>6 DEF CancelForGap, Ends
<1>7. CASE Jobs
  BY <1>4, <1>5, <1>6, <1>7 DEF Jobs
<1>14. ASSUME NEW j \in queue.running, JobThrows(j)
       PROVE  Throws /\ Drops(j)
  BY <1>14 DEF JobThrows, Throws, Drops
<1>8. CASE Subscribed
  BY <1>8 DEF Subscribed, Renews
<1>9. CASE PassBlock \/ StreamEnds \/ ReadBest \/ EndStream \/ Cancelled \/ Stopping \/ Mine \/ Stop
           \/ UNCHANGED vars
  BY <1>9 DEF PassBlock, StreamEnds, ReadBest, EndStream, Cancelled, Stopping, StopGoesOn,
     StopCancels, StopStep, Mine, Stop, vars, jobs
<1>10. CASE \E b \in Blocks : Located(b) \/ LocatingFails(b)
  BY <1>10 DEF Located, LocatingFails, jobs
<1>11. ASSUME NEW error, Breaks(error) \/ BestFails(error)
       PROVE  UNCHANGED queue
  BY <1>11 DEF Breaks, BestFails, jobs
<1> QED
  BY <1>1, <1>2, <1>3, <1>7, <1>8, <1>9, <1>10, <1>11, <1>12, <1>13, <1>14
     DEF Next, Streaming, Syncing, Left

-----------------------------------------------------------------------------
(* Types and ranges *)

\* The job at work has a chunk of the chain.
LEMMA ChunkOf ==
  ASSUME TypeOK, NEW j \in queue.running
  PROVE  j.chunk \in Chunk /\ j.chunk.block \in Blocks /\ j.chunk.kind \in {"tx", "header"}
  BY DEF TypeOK, Job, Chunk

LEMMA WaitingOf ==
  ASSUME TypeOK, NEW i \in DOMAIN queue.waiting
  PROVE  queue.waiting[i] \in Chunk /\ queue.waiting[i].block \in Blocks
<1>1. queue.waiting[i] \in Chunk
  BY DEF TypeOK
<1> QED BY <1>1 DEF Chunk

ReqType == [from : 0 .. Last, until : 0 .. Last, filter : Nat, best : 0 .. Last,
            outer : Seq(0 .. Last)]

\* Best heights that have been read.
Read(o) == o \in Seq(0 .. Last) /\ \A i \in DOMAIN o : o[i] <= height

\* Where a sync goes when its stream, or a call, has come to an end.
Restarts ==
  \/ mode = "historical" /\ (\E o : Read(o) /\ Historical(o)) /\ UNCHANGED <<synced, on>>
  \/ Halt
  \/ Incoming /\ synced' \in 0 .. height /\ on' \in BOOLEAN

LEMMA ReadAppend ==
  ASSUME TypeOK, NEW o, Read(o), NEW best \in 0 .. height
  PROVE  /\ Read(Append(o, best))
         /\ Head(Append(o, best)) \in 0 .. height
<1>1. o \in Seq(0 .. Last) /\ best \in 0 .. Last /\ height \in Nat /\ height <= Last /\ Last \in Nat
  BY DEF Read, TypeOK
<1>2. Append(o, best) \in Seq(0 .. Last) /\ Len(o) \in Nat
  BY <1>1
<1>3. DOMAIN Append(o, best) = 1 .. Len(o) + 1
  BY <1>1
<1>4. \A i \in 1 .. Len(o) + 1 : Append(o, best)[i] = IF i = Len(o) + 1 THEN best ELSE o[i]
  BY <1>1
<1>5. \A i \in 1 .. Len(o) : o[i] \in 0 .. Last /\ o[i] <= height
  BY <1>1 DEF Read
<1>6. \A i \in DOMAIN Append(o, best) : Append(o, best)[i] \in 0 .. height
  BY <1>1, <1>2, <1>3, <1>4, <1>5
<1>7. Append(o, best) # << >> /\ Head(Append(o, best)) = Append(o, best)[1]
  BY <1>1, <1>2, <1>3
<1>8. 1 \in DOMAIN Append(o, best)
  BY <1>2, <1>3
<1>9. Head(Append(o, best)) \in 0 .. height
  BY <1>6, <1>7, <1>8
<1>10. \A i \in DOMAIN Append(o, best) : Append(o, best)[i] <= height
  BY <1>1, <1>6
<1> QED BY <1>2, <1>9, <1>10 DEF Read

LEMMA RestartNoted ==
  ASSUME TypeOK, NEW o, Read(o), NEW best \in 0 .. height, Noted(best, o)
  PROVE  Restarts /\ mode' = "incoming"
<1>1. synced' \in 0 .. height
  BY ReadAppend DEF Noted
<1>2. Incoming /\ on' = TRUE
  BY DEF Noted, Execute
<1> QED BY <1>1, <1>2 DEF Restarts, Incoming

LEMMA RestartIncoming ==
  ASSUME TypeOK, IncomingAgain
  PROVE  Restarts
<1>1. synced \in 0 .. height /\ on \in BOOLEAN
  BY DEF TypeOK
<1> QED BY <1>1 DEF IncomingAgain, Restarts

LEMMA RestartCaught ==
  ASSUME TypeOK, NEW error, NEW o, Read(o), NEW best \in 0 .. height, Caught(error, best, o)
  PROVE  /\ Restarts /\ stream' = FALSE
         /\ error = "other" => mode' = "incoming"
         /\ error = "other" /\ mode = "incoming" => pc' = "halted"
<1>1. stream' = FALSE
  BY DEF Caught
<1>2. CASE mode = "incoming" /\ error # "other" /\ IncomingAgain
  BY <1>1, <1>2, RestartIncoming
<1>3. CASE mode = "incoming" /\ error = "other" /\ Halt
  BY <1>1, <1>3 DEF Halt, Restarts
<1>4. CASE mode = "historical" /\ Noted(best, o)
  BY <1>1, <1>4, RestartNoted
<1>5. CASE mode = "historical" /\ Noted(synced, o)
  <2>1. synced \in 0 .. height
    BY DEF TypeOK
  <2> QED BY <1>1, <1>5, <2>1, RestartNoted
<1>6. CASE mode = "historical" /\ error # "other" /\ Historical(o) /\ UNCHANGED <<synced, on>>
  BY <1>1, <1>6 DEF Restarts
<1> QED BY <1>2, <1>3, <1>4, <1>5, <1>6 DEF Caught

LEMMA RequestRead ==
  ASSUME TypeOK, RequestInv
  PROVE  Read(req.outer) /\ req.best \in 0 .. height
BY DEF TypeOK, RequestInv, Read

\* A sync whose stream has ended, been cancelled or broken goes somewhere, without it.
LEMMA RestartEnds ==
  ASSUME TypeOK, RequestInv, EndStream \/ Cancelled \/ \E error : Breaks(error)
  PROVE  Restarts /\ stream' = FALSE /\ Unfed /\ left' = left
<1>1. Read(req.outer) /\ req.best \in 0 .. height
  BY RequestRead
<1>2. CASE EndStream
  <2>1. GoesOn /\ stream' = FALSE /\ Unfed /\ left' = left
    BY <1>2 DEF EndStream
  <2>2. CASE mode = "incoming" /\ IncomingAgain
    BY <2>1, <2>2, RestartIncoming
  <2>3. CASE mode = "historical" /\ Historical(Append(req.outer, req.best)) /\ UNCHANGED <<synced, on>>
    <3>1. Read(Append(req.outer, req.best))
      BY <1>1, ReadAppend
    <3> QED BY <2>1, <2>3, <3>1 DEF Restarts
  <2>4. CASE Noted(req.best, req.outer)
    BY <1>1, <2>1, <2>4, RestartNoted
  <2> QED BY <2>1, <2>2, <2>3, <2>4 DEF GoesOn
<1>3. CASE Cancelled
  BY <1>1, <1>3, RestartCaught DEF Cancelled
<1>4. ASSUME NEW error, Breaks(error) PROVE Restarts /\ stream' = FALSE /\ Unfed /\ left' = left
  BY <1>1, <1>4, RestartCaught DEF Breaks
<1> QED BY <1>2, <1>3, <1>4

LEMMA RestartBest ==
  ASSUME TypeOK, RequestInv, NEW error, BestFails(error)
  PROVE  Restarts /\ (stream' = FALSE \/ stream' = stream)
<1>1. CASE req.outer = << >>
  BY <1>1 DEF BestFails, Restarts
<1>2. CASE req.outer # << >>
  <2> DEFINE n == Len(req.outer)
             rest == SubSeq(req.outer, 1, n - 1)
  <2>1. req.outer \in Seq(0 .. Last) /\ \A i \in DOMAIN req.outer : req.outer[i] <= height
    BY RequestRead DEF Read
  <2>2. n \in Nat /\ n >= 1 /\ DOMAIN req.outer = 1 .. n
    BY <1>2, <2>1
  <2>3. rest \in Seq(0 .. Last) /\ DOMAIN rest = 1 .. n - 1
        /\ \A i \in 1 .. n - 1 : rest[i] = req.outer[i]
    BY <2>1, <2>2
  <2>4. \A i \in DOMAIN rest : rest[i] <= height
    BY <2>1, <2>2, <2>3
  <2>5. req.outer[n] \in 0 .. Last /\ req.outer[n] <= height /\ height \in Nat
    BY <2>1, <2>2 DEF TypeOK
  <2>6. Read(rest) /\ req.outer[n] \in 0 .. height
    BY <2>3, <2>4, <2>5 DEF Read
  <2>7. Caught(error, req.outer[n], rest)
    BY <1>2 DEF BestFails
  <2> QED BY <2>6, <2>7, RestartCaught
<1> QED BY <1>1, <1>2

\* What it goes on with.
LEMMA RestartReq ==
  ASSUME TypeOK, RequestInv, Restarts
  PROVE  /\ req' \in ReqType /\ mode' \in {"historical", "incoming"}
         /\ pc' \in {"best", "subscribe", "halted"}
         /\ synced' \in 0 .. height /\ on' \in BOOLEAN
         /\ req'.until <= height /\ req'.best <= height /\ req'.from <= height
         /\ \A i \in DOMAIN req'.outer : req'.outer[i] <= height
         /\ pc' = "subscribe" => req'.from >= 1 /\ req'.filter = known
         /\ mode' = "incoming" => req'.until = 0 \/ (mode = "incoming" /\ req' = req)
<1>1. /\ Last \in Nat /\ height \in Nat /\ height >= 1 /\ height <= Last /\ known \in Nat
      /\ hash \in 0 .. height /\ hash \in 0 .. Last /\ synced \in 0 .. height /\ on \in BOOLEAN
      /\ << >> \in Seq(0 .. Last)
  BY DEF TypeOK
<1>2. ASSUME NEW o, Read(o), Historical(o), UNCHANGED <<synced, on>>
      PROVE  /\ req' \in ReqType /\ mode' = "historical" /\ pc' = "best"
             /\ synced' \in 0 .. height /\ on' \in BOOLEAN
             /\ req'.until <= height /\ req'.best <= height /\ req'.from <= height
             /\ \A i \in DOMAIN req'.outer : req'.outer[i] <= height
  <2>1. /\ req' = [from |-> hash, until |-> 0, filter |-> 0, best |-> 0, outer |-> o]
        /\ o \in Seq(0 .. Last) /\ \A i \in DOMAIN o : o[i] <= height
        /\ mode' = "historical" /\ pc' = "best"
    BY <1>2 DEF Historical, Read
  <2>2. req' \in ReqType
    BY <1>1, <2>1 DEF ReqType
  <2>3. req'.until = 0 /\ req'.best = 0 /\ req'.from = hash /\ req'.outer = o
    BY <2>1
  <2> QED BY <1>1, <1>2, <2>1, <2>2, <2>3
<1>3. CASE Incoming /\ synced' \in 0 .. height /\ on' \in BOOLEAN
  <2> DEFINE from == IF hash # 0 THEN hash ELSE Larger(synced', 1)
  <2>1. req' = [from |-> from, until |-> 0, filter |-> known, best |-> 0, outer |-> << >>]
        /\ mode' = "incoming" /\ pc' = "subscribe"
    BY <1>3 DEF Incoming
  <2>2. from \in 1 .. height
    BY <1>1, <1>3 DEF Larger
  <2>3. from \in 0 .. Last
    BY <1>1, <2>2
  <2> HIDE DEF from
  <2>4. req' \in ReqType
    BY <1>1, <2>1, <2>3 DEF ReqType
  <2>5. req'.until = 0 /\ req'.best = 0 /\ req'.from = from /\ req'.outer = << >> /\ req'.filter = known
    BY <2>1
  <2> QED BY <1>1, <1>3, <2>1, <2>2, <2>4, <2>5
<1>4. CASE Halt
  <2>1. pc' = "halted" /\ mode' = mode /\ req' = req /\ synced' = synced /\ on' = on
    BY <1>4 DEF Halt
  <2>2. req \in ReqType /\ mode \in {"historical", "incoming"}
    BY DEF TypeOK, ReqType
  <2>3. Read(req.outer)
    BY RequestRead
  <2>4. /\ req.until <= height /\ req.best <= height /\ req.from <= height
        /\ \A i \in DOMAIN req.outer : req.outer[i] <= height
    BY DEF RequestInv
  <2>5. mode = "incoming" \/ mode' # "incoming"
    BY <2>1, <2>2
  <2> QED BY <1>1, <2>1, <2>2, <2>4, <2>5
<1>5. Restarts => \/ \E o : Read(o) /\ Historical(o) /\ UNCHANGED <<synced, on>>
                  \/ Halt
                  \/ Incoming /\ synced' \in 0 .. height /\ on' \in BOOLEAN
  BY DEF Restarts
<1> QED BY <1>2, <1>3, <1>4, <1>5

\* A job that throws drops the stream, or does nothing to the worker.
LEMMA ThrowWorker ==
  ASSUME TypeOK, StreamInv, RequestInv, NEW j \in queue.running, JobThrows(j)
  PROVE  \/ /\ pc \in {"stream", "ending"} /\ Restarts /\ Unfed /\ stream' = FALSE
            /\ mode' = "incoming" /\ (mode = "incoming" => pc' = "halted")
            /\ \/ left' = left
               \/ feed \in {"open", "ended"} /\ left' = left \cup {Current}
         \/ /\ pc \notin {"stream", "ending"}
            /\ UNCHANGED <<mode, pc, req, synced, on, stream, feed, next, half, left>>
<1>1. CASE pc \in {"stream", "ending"}
  <2>1. Unfed /\ Caught("other", req.best, req.outer)
    BY <1>1 DEF JobThrows
  <2>2. Restarts /\ stream' = FALSE /\ mode' = "incoming" /\ (mode = "incoming" => pc' = "halted")
    BY <2>1, RequestRead, RestartCaught
  <2>3. feed \in {"open", "cancelled", "ended"}
    BY <1>1 DEF StreamInv
  <2>4. \/ left' = left
        \/ feed \in {"open", "ended"} /\ left' = left \cup {Current}
    BY <1>1, <2>3 DEF JobThrows
  <2> QED BY <1>1, <2>1, <2>2, <2>4
<1>2. CASE pc \notin {"stream", "ending"}
  BY <1>2 DEF JobThrows, worker, feeding
<1> QED BY <1>1, <1>2

LEMMA TypeStep ==
  ASSUME TypeOK, StreamInv, QueueInv, RequestInv, HeadersInv, [Next]_vars
  PROVE  TypeOK'
<1>1. queue' \in QueueType
  <2>1. \/ \E c : Takes(c)
        \/ \E j : Ends(j) \/ Turns(j) \/ Drops(j)
        \/ Renews
        \/ UNCHANGED queue
    BY QueueFrame
  <2> QED BY <2>1, QueueStep
<1>2. queue' \in [waiting : Seq(Chunk), running : SUBSET Job, ear : BOOLEAN, threw : BOOLEAN]
  BY <1>1 DEF QueueType
<1> HIDE DEF Blocks
<1>3. /\ Last \in Nat /\ height \in Nat /\ height >= 1 /\ height <= Last /\ Gap \in Nat
      /\ Blocks = 1 .. Last
  BY DEF Blocks, TypeOK
<1>4. ASSUME NEW j \in queue.running, ProcessTransaction(j) PROVE TypeOK'
  <2>1. j.chunk.block \in Blocks
    BY ChunkOf
  <2>2. Ours(j.chunk.block) => pays[j.chunk.block] \in Nat
    BY <2>1 DEF Ours, TypeOK, Blocks
  <2>3. stored' \subseteq Blocks /\ fetch' \in [Blocks -> {"none", "asked", "delayed", "failed"}]
    <3>1. CASE Ours(j.chunk.block)
      <4>1. stored' = stored \cup {j.chunk.block}
            /\ fetch' = [fetch EXCEPT ![j.chunk.block] = "asked"]
        BY <1>4, <3>1 DEF ProcessTransaction, Import
      <4> QED BY <2>1, <4>1 DEF TypeOK
    <3>2. CASE ~Ours(j.chunk.block)
      BY <1>4, <3>2 DEF ProcessTransaction, TypeOK
    <3> QED BY <3>1, <3>2
  <2>4. known' \in Nat
    <3>1. CASE Ours(j.chunk.block)
      <4>1. known' = Larger(known, pays[j.chunk.block] + 1 + Gap)
        BY <1>4, <3>1 DEF ProcessTransaction, Import
      <4>2. known \in Nat
        BY DEF TypeOK
      <4>3. pays[j.chunk.block] \in Nat /\ Gap \in Nat
        BY <1>3, <2>2, <3>1
      <4>4. pays[j.chunk.block] + 1 + Gap \in Nat
        BY <4>3
      <4> QED BY <4>1, <4>2, <4>4 DEF Larger
    <3>2. CASE ~Ours(j.chunk.block)
      BY <1>4, <3>2 DEF ProcessTransaction, TypeOK
    <3> QED BY <3>1, <3>2
  <2>5. gap' \in BOOLEAN
    <3>1. gap' = (gap \/ known' > known) \/ gap' = gap
      BY <1>4, Zenon DEF ProcessTransaction, Import
    <3>2. (gap \/ known' > known) \in BOOLEAN
      BY Zenon
    <3> QED BY <3>1, <3>2, Zenon DEF TypeOK
  <2>6. UNCHANGED <<pays, height, hash, mode, pc, req, synced, stream, feed, next, half, left, on,
                    stop, crashed, faults>>
    BY <1>4 DEF ProcessTransaction, chain, worker, feeding
  <2> QED BY <1>2, <2>3, <2>4, <2>5, <2>6 DEF TypeOK
<1>5. ASSUME NEW j \in queue.running, ProcessHeader(j) PROVE TypeOK'
  <2>1. j.chunk.block \in 0 .. height
    BY <1>3, <1>5, ChunkOf DEF ProcessHeader, HeadersInv
  <2>2. hash' \in 0 .. height
    BY <1>5, <2>1 DEF ProcessHeader, TypeOK
  <2> QED BY <1>2, <1>5, <2>2 DEF ProcessHeader, TypeOK, chain, worker, feeding
<1>6. ASSUME NEW j \in queue.running, CancelForGap(j) PROVE TypeOK'
  <2>1. feed' \in {"none", "open", "cancelled", "ended"} /\ crashed' \in BOOLEAN
    BY <1>6 DEF CancelForGap, TypeOK
  <2> QED BY <1>2, <1>6, <2>1 DEF CancelForGap, TypeOK, chain, account, worker
<1>7. CASE ReceiveTransaction
  BY <1>2, <1>7 DEF ReceiveTransaction, TypeOK, chain, account, worker
<1>8. CASE ReceiveHeader
  <2>1. next' \in 1 .. Last + 1
    BY <1>3, <1>8 DEF ReceiveHeader, HeaderNext, Current, Until, TypeOK
  <2>2. /\ UNCHANGED <<pays, height, known, stored, hash, mode, pc, req, synced, stream, feed, left,
                       gap, fetch, on, stop, crashed, faults>>
        /\ half' = FALSE
    BY <1>8 DEF ReceiveHeader, chain, account, worker
  <2>3. half' \in BOOLEAN
    BY <2>2
  <2> QED BY <1>2, <2>1, <2>2, <2>3 DEF TypeOK
<1>9. CASE PassBlock
  <2>1. next' \in 1 .. Last + 1
    BY <1>3, <1>9 DEF PassBlock, NothingNext, Current, Until, TypeOK
  <2> QED BY <1>9, <2>1 DEF PassBlock, TypeOK, chain, account, worker, jobs
<1>10. ASSUME NEW b \in Blocks, ReceiveNew(b) PROVE TypeOK'
  BY <1>2, <1>10 DEF ReceiveNew, TypeOK, chain, account, worker, feeding
<1>11. CASE StreamEnds
  BY <1>11 DEF StreamEnds, Fault, TypeOK, chain, account, jobs
<1>12. CASE ReadBest
  <2>1. synced \in 0 .. height /\ req.from \in 0 .. Last /\ req.from <= height
    BY DEF TypeOK, RequestInv
  <2> DEFINE last == Larger(synced, 1)
             count == IF height = last THEN 1 ELSE height - last
             from == IF req.from # 0 THEN req.from ELSE last
             until == IF from + count > height + 1 THEN height ELSE from + count - 1
  <2>2. req' = [from |-> from, until |-> until, filter |-> known, best |-> height,
                outer |-> req.outer]
    BY <1>12 DEF ReadBest
  <2>3. last \in 1 .. height
    BY <1>3, <2>1 DEF Larger
  <2>4. count \in 1 .. height
    BY <1>3, <2>3
  <2>5. from \in 1 .. height
    BY <1>3, <2>1, <2>3
  <2>6. until \in 1 .. height
    <3> HIDE DEF count, from
    <3>1. CASE from + count > height + 1
      BY <1>3, <3>1
    <3>2. CASE ~(from + count > height + 1)
      BY <1>3, <2>4, <2>5, <3>2
    <3> QED BY <3>1, <3>2
  <2>7. from \in 0 .. Last /\ until \in 0 .. Last /\ height \in 0 .. Last
    <3> HIDE DEF from, until
    <3> QED BY <1>3, <2>5, <2>6
  <2>8. known \in Nat /\ req.outer \in Seq(0 .. Last)
    BY DEF TypeOK
  <2>9. req' \in [from : 0 .. Last, until : 0 .. Last, filter : Nat, best : 0 .. Last,
                  outer : Seq(0 .. Last)]
    <3> HIDE DEF from, until
    <3> QED BY <2>2, <2>7, <2>8
  <2>10. /\ UNCHANGED <<pays, height, known, stored, hash, mode, synced, stream, feed, next, half,
                        left, queue, gap, fetch, on, stop, crashed, faults>>
         /\ pc' = "subscribe"
    BY <1>12 DEF ReadBest, chain, account, feeding, jobs
  <2> QED BY <2>9, <2>10 DEF TypeOK
<1>13. CASE Subscribed
  <2>1. next' \in 1 .. Last + 1 /\ gap' = FALSE
    BY <1>3, <1>13 DEF Subscribed, RequestInv, TypeOK
  <2> QED BY <1>2, <1>13, <2>1 DEF Subscribed, TypeOK, chain, account
<1>14. CASE Restarts /\ (stream' = FALSE \/ stream' = stream) /\ (Unfed \/ UNCHANGED feeding)
            /\ left' \subseteq Stream /\ faults' \in 0 .. MaxFaults /\ stored' \subseteq Blocks
            /\ UNCHANGED <<pays, height, known, hash, gap, fetch, stop, crashed>>
  <2>1. /\ req' \in ReqType /\ mode' \in {"historical", "incoming"}
        /\ pc' \in {"best", "subscribe", "halted"} /\ synced' \in 0 .. height /\ on' \in BOOLEAN
    BY <1>14, RestartReq
  <2>2. stream' \in BOOLEAN
    BY <1>14 DEF TypeOK
  <2>3. feed' \in {"none", "open", "cancelled", "ended"} /\ next' \in 1 .. Last + 1 /\ half' \in BOOLEAN
    <3>1. CASE Unfed
      <4>1. feed' = "none" /\ next' = 1 /\ half' = FALSE
        BY <3>1 DEF Unfed
      <4>2. half' \in BOOLEAN
        BY <4>1
      <4>3. 1 \in 1 .. Last + 1
        BY <1>3
      <4> QED BY <4>1, <4>2, <4>3
    <3>2. CASE UNCHANGED feeding
      BY <3>2 DEF feeding, TypeOK
    <3> QED BY <1>14, <3>1, <3>2
  <2> QED BY <1>2, <1>14, <2>1, <2>2, <2>3 DEF TypeOK, ReqType
<1>16. CASE EndStream \/ Cancelled
  <2>1. Restarts /\ stream' = FALSE /\ Unfed /\ left' = left
    BY <1>16, RestartEnds
  <2>2. UNCHANGED <<pays, height, known, hash, stored, gap, fetch, stop, crashed, faults>>
    BY <1>16 DEF EndStream, Cancelled, chain, account, jobs
  <2>3. left' \subseteq Stream /\ faults' \in 0 .. MaxFaults /\ stored' \subseteq Blocks
    BY <2>1, <2>2 DEF TypeOK
  <2> QED BY <1>14, <2>1, <2>2, <2>3
<1>18. ASSUME NEW error, Breaks(error) PROVE TypeOK'
  <2>1. Restarts /\ stream' = FALSE /\ Unfed /\ left' = left
    BY <1>18, RestartEnds
  <2>2. UNCHANGED <<pays, height, known, hash, stored, gap, fetch, stop, crashed>>
    BY <1>18 DEF Breaks, chain, account, jobs
  <2>3. left' \subseteq Stream /\ faults' \in 0 .. MaxFaults /\ stored' \subseteq Blocks
    BY <1>18, <2>1, <2>2 DEF Breaks, Fault, TypeOK
  <2> QED BY <1>14, <2>1, <2>2, <2>3
<1>19. ASSUME NEW error, BestFails(error) PROVE TypeOK'
  <2>1. Restarts /\ (stream' = FALSE \/ stream' = stream) /\ UNCHANGED feeding
    BY <1>19, RestartBest DEF BestFails
  <2>2. UNCHANGED <<pays, height, known, hash, stored, left, gap, fetch, stop, crashed>>
    BY <1>19 DEF BestFails, chain, account, feeding, jobs
  <2>3. left' \subseteq Stream /\ faults' \in 0 .. MaxFaults /\ stored' \subseteq Blocks
    BY <1>19, <2>2 DEF BestFails, Fault, TypeOK
  <2> QED BY <1>14, <2>1, <2>2, <2>3
<1>25. ASSUME NEW j \in queue.running, JobThrows(j) PROVE TypeOK'
  <2>1. UNCHANGED <<pays, height, known, hash, gap, fetch, stop, crashed>>
    BY <1>25 DEF JobThrows, chain
  <2>2. stored' \subseteq Blocks
    BY <1>25, ChunkOf DEF JobThrows, TypeOK
  <2>3. faults' \in 0 .. MaxFaults
    BY <1>25 DEF JobThrows, Fault, TypeOK
  <2>4. CASE pc \in {"stream", "ending"}
    <3>1. Restarts /\ Unfed /\ stream' = FALSE
          /\ (left' = left \/ (feed \in {"open", "ended"} /\ left' = left \cup {Current}))
      BY <1>25, <2>4, ThrowWorker
    <3>2. feed \in {"open", "ended"} => Current \in Stream
      BY DEF Current, Stream, TypeOK
    <3>3. left' \subseteq Stream
      BY <3>1, <3>2 DEF TypeOK
    <3> QED BY <1>14, <2>1, <2>2, <2>3, <3>1, <3>3
  <2>5. CASE pc \notin {"stream", "ending"}
    <3>1. UNCHANGED <<mode, pc, req, synced, on, stream, feed, next, half, left>>
      BY <1>25, <2>5, ThrowWorker
    <3> QED BY <1>2, <2>1, <2>2, <2>3, <3>1 DEF TypeOK
  <2> QED BY <2>4, <2>5
<1>27. ASSUME left' \subseteq Stream, stream' = stream \/ stream' = FALSE,
              UNCHANGED <<pays, height, known, stored, hash, mode, pc, req, synced, feed, next, half,
                          gap, fetch, on, stop, crashed, faults>>
       PROVE  TypeOK'
  <2>1. stream' \in BOOLEAN
    BY <1>27 DEF TypeOK
  <2>2. /\ pays' \in Payments /\ height' \in Blocks /\ known' \in Nat /\ stored' \subseteq Blocks
        /\ hash' \in 0 .. height' /\ synced' \in 0 .. height'
        /\ mode' \in {"historical", "incoming"}
        /\ pc' \in {"best", "subscribe", "stream", "ending", "halted"}
    BY <1>27 DEF TypeOK
  <2>3. req' \in [from : 0 .. Last, until : 0 .. Last, filter : Nat, best : 0 .. Last,
                  outer : Seq(0 .. Last)]
    BY <1>27 DEF TypeOK
  <2>4. /\ feed' \in {"none", "open", "cancelled", "ended"} /\ next' \in 1 .. Last + 1
        /\ half' \in BOOLEAN /\ gap' \in BOOLEAN
        /\ fetch' \in [Blocks -> {"none", "asked", "delayed", "failed"}]
    BY <1>27 DEF TypeOK
  <2>5. /\ on' \in BOOLEAN /\ stop' \in {"no", "waiting", "cancel", "done"}
        /\ crashed' \in BOOLEAN /\ faults' \in 0 .. MaxFaults
    BY <1>27 DEF TypeOK
  <2> QED BY <1>2, <1>27, <2>1, <2>2, <2>3, <2>4, <2>5, Zenon DEF TypeOK
<1>26. ASSUME NEW s \in left, LeftSends(s) \/ LeftGoesOn(s) \/ LeftIsOver(s) PROVE TypeOK'
  <2>1. /\ s \in Stream /\ s.until \in 0 .. Last /\ s.next \in 1 .. Last + 1 /\ s.half \in BOOLEAN
        /\ s.feed \in {"open", "ended"} /\ left \subseteq Stream
    BY StreamOf DEF TypeOK
  <2>2. HeaderNext(s) \/ NothingNext(s) => s.next + 1 \in 1 .. Last + 1
    BY <1>3, <2>1 DEF HeaderNext, NothingNext, Until
  <2>3. /\ [s EXCEPT !.half = TRUE] \in Stream /\ [s EXCEPT !.feed = "ended"] \in Stream
    BY <2>1 DEF Stream
  <2>4. HeaderNext(s) => [s EXCEPT !.next = @ + 1, !.half = FALSE] \in Stream
    BY <2>1, <2>2 DEF Stream
  <2>5. NothingNext(s) => [s EXCEPT !.next = @ + 1] \in Stream
    BY <2>1, <2>2 DEF Stream
  <2>6. left' \subseteq Stream
    <3>1. CASE LeftSends(s)
      BY <2>1, <2>3, <2>4, <3>1 DEF LeftSends
    <3>2. CASE LeftGoesOn(s)
      BY <2>1, <2>3, <2>5, <3>2 DEF LeftGoesOn
    <3>3. CASE LeftIsOver(s)
      BY <2>1, <3>3 DEF LeftIsOver
    <3> QED BY <1>26, <3>1, <3>2, <3>3
  <2>7. stream' = stream \/ stream' = FALSE
    BY <1>26 DEF LeftSends, LeftGoesOn, LeftIsOver
  <2>8. UNCHANGED <<pays, height, known, stored, hash, mode, pc, req, synced, feed, next, half, gap,
                    fetch, on, stop, crashed, faults>>
    BY <1>26 DEF LeftSends, LeftGoesOn, LeftIsOver, chain, account, worker, jobs
  <2> QED BY <1>27, <2>6, <2>7, <2>8
<1>20. ASSUME NEW b \in Blocks, Located(b) \/ LocatingFails(b) PROVE TypeOK'
  <2>1. hash' \in 0 .. height
    BY <1>3, <1>20 DEF Located, LocatingFails, account, TypeOK
  <2>2. fetch' \in [Blocks -> {"none", "asked", "delayed", "failed"}]
    <3>1. fetch \in [Blocks -> {"none", "asked", "delayed", "failed"}]
      BY DEF TypeOK
    <3>2. PICK f \in {"none", "asked", "delayed", "failed"} : fetch' = [fetch EXCEPT ![b] = f]
      BY <1>20 DEF Located, LocatingFails
    <3> QED BY <3>1, <3>2
  <2>3. UNCHANGED <<pays, height, known, stored, mode, pc, req, synced, stream, feed, next, half,
                    left, queue, gap, on, stop, crashed>>
    BY <1>20 DEF Located, LocatingFails, chain, account, worker, feeding, jobs
  <2>4. faults' \in 0 .. MaxFaults
    BY <1>20 DEF Located, LocatingFails, Fault, TypeOK
  <2> QED BY <2>1, <2>2, <2>3, <2>4 DEF TypeOK
<1>21. CASE Mine
  <2>1. fetch' \in [Blocks -> {"none", "asked", "delayed", "failed"}]
    BY <1>21 DEF Mine, TypeOK
  <2>2. height' \in Blocks /\ hash \in 0 .. height' /\ synced \in 0 .. height'
    BY <1>3, <1>21 DEF Mine, TypeOK
  <2> QED BY <1>21, <2>1, <2>2 DEF Mine, TypeOK, account, worker, feeding, jobs
<1>22. CASE Stop \/ StopGoesOn
  <2>1. PICK to \in {"waiting", "cancel"} : StopStep(to)
    BY <1>22 DEF Stop, StopGoesOn
  <2>2. stop' \in {"waiting", "cancel"} /\ on' \in BOOLEAN
    BY <2>1 DEF StopStep, TypeOK
  <2>3. UNCHANGED <<pays, height, known, stored, hash, mode, pc, req, synced, stream, feed, next,
                    half, left, queue, gap, fetch, crashed, faults>>
    BY <2>1 DEF StopStep, chain, account, worker, feeding, jobs
  <2> QED BY <2>2, <2>3 DEF TypeOK
<1>23. CASE StopCancels
  <2>1. feed' \in {"none", "open", "cancelled", "ended"} /\ stream' \in BOOLEAN
    BY <1>23 DEF StopCancels, TypeOK
  <2> QED BY <1>23, <2>1 DEF StopCancels, TypeOK, chain, account, worker, jobs
<1>24. CASE UNCHANGED vars
  BY <1>24 DEF vars, TypeOK, chain, account, worker, feeding, jobs
<1> QED
  BY <1>4, <1>5, <1>6, <1>7, <1>8, <1>9, <1>10, <1>11, <1>12, <1>13, <1>16, <1>18, <1>19, <1>20,
     <1>21, <1>22, <1>23, <1>24, <1>25, <1>26 DEF Next, Jobs, Streaming, Syncing, Stopping, Left

-----------------------------------------------------------------------------
(* The worker and its stream *)

LEMMA StreamStep ==
  ASSUME TypeOK, StreamInv, RequestInv, [Next]_vars
  PROVE  StreamInv'
<1> USE DEF StreamInv
<1>1. ASSUME NEW j \in queue.running,
             ProcessTransaction(j) \/ ProcessHeader(j) \/ CancelForGap(j)
      PROVE  StreamInv'
  <2>1. pc' = pc /\ stream' = stream
    BY <1>1 DEF ProcessTransaction, ProcessHeader, CancelForGap, worker
  <2>2. feed' = feed \/ (feed = "open" /\ feed' = "cancelled")
    BY <1>1 DEF ProcessTransaction, ProcessHeader, CancelForGap, feeding
  <2> QED BY <2>1, <2>2
<1>2. CASE ReceiveTransaction \/ ReceiveHeader \/ PassBlock \/ \E b \in Blocks : ReceiveNew(b)
  <2>1. pc' = pc /\ stream' = stream /\ feed' = feed
    BY <1>2 DEF ReceiveTransaction, ReceiveHeader, PassBlock, ReceiveNew, worker, feeding
  <2> QED BY <2>1
<1>3. CASE StreamEnds
  BY <1>3 DEF StreamEnds
<1>4. CASE ReadBest \/ Subscribed
  BY <1>4 DEF ReadBest, Subscribed, feeding
<1>5. ASSUME pc' \in {"best", "subscribe", "halted"}, feed' = "none", stream' = FALSE
      PROVE  StreamInv'
  BY <1>5
<1>6. CASE EndStream \/ Cancelled \/ \E error : Breaks(error)
  BY <1>5, <1>6, RestartEnds, RestartReq DEF Unfed
<1>7. ASSUME NEW error, BestFails(error) PROVE StreamInv'
  <2>1. pc = "best" /\ feed' = feed /\ ~stream'
    BY <1>7, RestartBest DEF BestFails, feeding
  <2>2. pc' \in {"best", "subscribe", "halted"}
    BY <1>7, RestartBest, RestartReq
  <2> QED BY <2>1, <2>2 DEF TypeOK
<1>11. ASSUME NEW j \in queue.running, JobThrows(j) PROVE StreamInv'
  <2>1. CASE pc \in {"stream", "ending"}
    BY <1>5, <1>11, <2>1, ThrowWorker, RestartReq DEF Unfed
  <2>2. CASE pc \notin {"stream", "ending"}
    BY <1>11, <2>2, ThrowWorker
  <2> QED BY <2>1, <2>2
<1>8. CASE Mine \/ Stop \/ StopGoesOn \/ StopCancels
  <2>1. pc' = pc /\ (stream' = stream \/ stream' = FALSE)
    BY <1>8 DEF Mine, Stop, StopGoesOn, StopStep, StopCancels, worker
  <2>2. feed' = feed \/ (feed = "open" /\ feed' = "cancelled")
    BY <1>8 DEF Mine, Stop, StopGoesOn, StopStep, StopCancels, feeding
  <2> QED BY <2>1, <2>2
<1>12. CASE Left
  <2>1. pc' = pc /\ feed' = feed /\ (stream' = stream \/ stream' = FALSE)
    BY <1>12 DEF Left, LeftSends, LeftGoesOn, LeftIsOver, worker
  <2> QED BY <2>1
<1>9. CASE \E b \in Blocks : Located(b) \/ LocatingFails(b)
  BY <1>9 DEF Located, LocatingFails, worker, feeding
<1>10. CASE UNCHANGED vars
  BY <1>10 DEF vars, worker, feeding
<1> QED
  BY <1>1, <1>2, <1>3, <1>4, <1>6, <1>7, <1>8, <1>9, <1>10, <1>11, <1>12
     DEF Next, Jobs, Streaming, Syncing, Stopping

\* The part of the invariant that is about the history's own range.
RangeInv == mode = "historical" /\ pc \in {"subscribe", "stream", "ending"} => req.until # 0

LEMMA LeftStep ==
  ASSUME TypeOK, StreamInv, LeftInv, RequestInv, RangeInv, [Next]_vars
  PROVE  LeftInv'
<1>1. ASSUME UNCHANGED <<mode, req, left>>, pc' = pc \/ (pc # "halted" /\ pc' # "best")
      PROVE  LeftInv'
  BY <1>1 DEF LeftInv
<1>2. ASSUME NEW s \in left, NEW t, t.until = s.until,
             left' = (left \ {s}) \cup {t} \/ left' = left \ {s}, UNCHANGED <<mode, pc, req>>
      PROVE  LeftInv'
  <2>1. left' \subseteq (left \ {s}) \cup {t}
    BY <1>2
  <2>2. mode' # "historical"
    BY <1>2 DEF LeftInv, TypeOK
  <2>3. \A u \in left' : u = t \/ (u \in left /\ u # s)
    BY <2>1
  <2>4. \A u \in left' : u.until = 0 => pc' = "halted"
    BY <1>2, <2>3 DEF LeftInv
  <2>5. \A u, v \in left' : (u.until = 0 <=> v.until = 0) => u = v
    BY <1>2, <2>3 DEF LeftInv
  <2>6. mode' = "incoming" => req'.until = 0 /\ pc' # "best"
    BY <1>2 DEF LeftInv
  <2> QED BY <2>2, <2>4, <2>5, <2>6 DEF LeftInv
<1>3. CASE Left
  <2> PICK s \in left : LeftSends(s) \/ LeftGoesOn(s) \/ LeftIsOver(s)
    BY <1>3 DEF Left
  <2>1. UNCHANGED <<mode, pc, req>>
    BY DEF LeftSends, LeftGoesOn, LeftIsOver, worker
  <2>2. s \in Stream
    BY DEF TypeOK
  <2>3. \A h : [s EXCEPT !.half = h].until = s.until
    BY <2>2 DEF Stream
  <2>4. \A n, h : [s EXCEPT !.next = n, !.half = h].until = s.until
    BY <2>2 DEF Stream
  <2>5. \A n : [s EXCEPT !.next = n].until = s.until
    BY <2>2 DEF Stream
  <2>6. \A f : [s EXCEPT !.feed = f].until = s.until
    BY <2>2 DEF Stream
  <2>7. \/ left' = left \/ left' = left \ {s}
        \/ left' = (left \ {s}) \cup {[s EXCEPT !.half = TRUE]}
        \/ left' = (left \ {s}) \cup {[s EXCEPT !.next = s.next + 1, !.half = FALSE]}
        \/ left' = (left \ {s}) \cup {[s EXCEPT !.next = s.next + 1]}
        \/ left' = (left \ {s}) \cup {[s EXCEPT !.feed = "ended"]}
    BY DEF LeftSends, LeftGoesOn, LeftIsOver
  <2>8. left' = left \/ \E t : t.until = s.until /\
          (left' = (left \ {s}) \cup {t} \/ left' = left \ {s})
    BY <2>3, <2>4, <2>5, <2>6, <2>7
  <2> QED BY <1>1, <1>2, <2>1, <2>8
<1>4. ASSUME Restarts, pc # "halted", left' = left PROVE LeftInv'
  <2>1. mode' = "historical" => mode = "historical"
    BY <1>4 DEF Restarts, Halt, Incoming
  <2>2. mode' = "incoming" => req'.until = 0
    BY <1>4, RestartReq DEF LeftInv
  <2>3. mode' = "incoming" => pc' # "best"
    BY <1>4 DEF Restarts, Historical, Halt, Incoming
  <2> QED BY <1>4, <2>1, <2>2, <2>3 DEF LeftInv
<1>5. CASE EndStream \/ Cancelled \/ \E error : Breaks(error)
  <2>1. pc # "halted"
    BY <1>5 DEF EndStream, Cancelled, Breaks
  <2> QED BY <1>4, <1>5, <2>1, RestartEnds
<1>6. ASSUME NEW error, BestFails(error) PROVE LeftInv'
  <2>1. pc # "halted" /\ left' = left
    BY <1>6 DEF BestFails, feeding
  <2> QED BY <1>4, <1>6, <2>1, RestartBest
<1>7. CASE ReadBest
  <2>1. left' = left /\ mode' = mode /\ pc = "best"
    BY <1>7 DEF ReadBest, feeding
  <2>2. mode = "historical" /\ left = {}
    BY <2>1 DEF LeftInv, TypeOK
  <2> QED BY <2>1, <2>2 DEF LeftInv
<1>8. CASE StreamEnds \/ Subscribed
  <2>1. UNCHANGED <<mode, req, left>> /\ pc # "halted" /\ pc' # "best"
    BY <1>8 DEF StreamEnds, Subscribed
  <2> QED BY <1>1, <2>1
<1>9. ASSUME NEW j \in queue.running, JobThrows(j) PROVE LeftInv'
  <2>1. CASE pc \in {"stream", "ending"}
    <3>1. /\ Restarts /\ mode' = "incoming" /\ (mode = "incoming" => pc' = "halted")
          /\ left' = left \/ left' = left \cup {Current}
      BY <1>9, <2>1, ThrowWorker
    <3>2. CASE left' = left
      BY <1>4, <2>1, <3>1, <3>2
    <3>3. CASE left' = left \cup {Current}
      <4>1. req'.until = 0 /\ pc' # "best"
        <5>1. req'.until = 0
          BY <3>1, RestartReq DEF LeftInv
        <5>2. pc' # "best"
          BY <3>1 DEF Restarts, Historical, Halt, Incoming
        <5> QED BY <5>1, <5>2
      <4>2. Current.until = req.until
        BY DEF Current
      <4>3. \A u \in left : u.until # 0
        BY <2>1 DEF LeftInv
      <4>4. CASE mode = "historical"
        <5>1. left' = {Current} /\ Current.until # 0
          BY <2>1, <3>3, <4>2, <4>4 DEF LeftInv, RangeInv
        <5> QED BY <3>1, <4>1, <5>1 DEF LeftInv
      <4>5. CASE mode = "incoming"
        <5>1. pc' = "halted" /\ Current.until = 0
          BY <3>1, <4>2, <4>5 DEF LeftInv
        <5>2. \A u, v \in left' : (u.until = 0 <=> v.until = 0) => u = v
          BY <3>3, <4>3, <5>1 DEF LeftInv
        <5> QED BY <3>1, <4>1, <5>1, <5>2 DEF LeftInv
      <4> QED BY <4>4, <4>5 DEF TypeOK
    <3> QED BY <3>1, <3>2, <3>3
  <2>2. CASE pc \notin {"stream", "ending"}
    BY <1>1, <1>9, <2>2, ThrowWorker
  <2> QED BY <2>1, <2>2
<1>10. CASE Jobs \/ ReceiveTransaction \/ ReceiveHeader \/ PassBlock \/ (\E b \in Blocks : ReceiveNew(b))
            \/ Mine \/ Stop \/ StopGoesOn \/ StopCancels
            \/ (\E b \in Blocks : Located(b) \/ LocatingFails(b)) \/ UNCHANGED vars
  <2>1. UNCHANGED <<mode, pc, req>>
    BY <1>10 DEF Jobs, ProcessTransaction, ProcessHeader, CancelForGap, ReceiveTransaction,
       ReceiveHeader, PassBlock, ReceiveNew, Mine, Stop, StopGoesOn, StopStep, StopCancels, Located,
       LocatingFails, vars, worker
  <2>2. left' = left
    BY <1>10 DEF Jobs, ProcessTransaction, ProcessHeader, CancelForGap, ReceiveTransaction,
       ReceiveHeader, PassBlock, ReceiveNew, Mine, Stop, StopGoesOn, StopStep, StopCancels, Located,
       LocatingFails, vars, feeding
  <2> QED BY <1>1, <2>1, <2>2
<1> QED
  BY <1>3, <1>5, <1>6, <1>7, <1>8, <1>9, <1>10 DEF Next, Streaming, Syncing, Stopping

LEMMA AccountStep ==
  ASSUME TypeOK, StreamInv, RequestInv, AccountInv, [Next]_vars
  PROVE  AccountInv'
<1> HIDE DEF Blocks
<1>1. Gap \in Nat /\ known \in Nat /\ stored \subseteq Blocks
  BY DEF TypeOK
<1>2. ASSUME NEW j \in queue.running, ProcessTransaction(j) PROVE AccountInv'
  <2>1. CASE Ours(j.chunk.block)
    <3>1. /\ stored' = stored \cup {j.chunk.block} /\ hash' = hash
          /\ known' = Larger(known, pays[j.chunk.block] + 1 + Gap)
          /\ fetch' = [fetch EXCEPT ![j.chunk.block] = "asked"]
      BY <1>2, <2>1 DEF ProcessTransaction, Import
    <3>2. pays[j.chunk.block] \in Nat
      BY <2>1, ChunkOf DEF Ours, TypeOK
    <3>3. known' >= Gap
      BY <1>1, <3>1, <3>2 DEF AccountInv, Larger
    <3>4. \A b \in Blocks : fetch'[b] # "none" => b \in stored'
      BY <3>1 DEF AccountInv, TypeOK
    <3>5. hash' # 0 => hash' \in stored'
      BY <3>1 DEF AccountInv
    <3>6. req' = req /\ pc' = pc
      BY <1>2 DEF ProcessTransaction, worker
    <3> QED BY <3>3, <3>4, <3>5, <3>6 DEF AccountInv
  <2>2. CASE ~Ours(j.chunk.block)
    BY <1>2, <2>2 DEF ProcessTransaction, AccountInv, worker
  <2> QED BY <2>1, <2>2
<1>3. ASSUME NEW j \in queue.running, ProcessHeader(j) \/ CancelForGap(j) PROVE AccountInv'
  BY <1>3 DEF ProcessHeader, CancelForGap, AccountInv, worker, account
<1>4. CASE ReceiveTransaction \/ ReceiveHeader \/ PassBlock \/ \E b \in Blocks : ReceiveNew(b)
  BY <1>4 DEF ReceiveTransaction, ReceiveHeader, PassBlock, ReceiveNew, AccountInv, worker, account
<1>5. CASE StreamEnds
  BY <1>5 DEF StreamEnds, AccountInv, account
<1>6. CASE ReadBest
  <2>1. req'.filter = known
    BY <1>6 DEF ReadBest
  <2> QED BY <1>6, <2>1 DEF ReadBest, AccountInv, account
<1>7. CASE Subscribed
  BY <1>7 DEF Subscribed, AccountInv, account
<1>8. ASSUME Restarts, UNCHANGED <<known, hash, fetch>>, stored \subseteq stored'
      PROVE  AccountInv'
  <2>1. \/ req'.filter = known
        \/ pc' \in {"best", "halted"}
    BY <1>8 DEF Restarts, Historical, Halt, Incoming
  <2> QED BY <1>8, <2>1 DEF AccountInv
<1>9. CASE EndStream \/ Cancelled \/ \E error : Breaks(error)
  <2>1. UNCHANGED <<known, stored, hash, fetch>>
    BY <1>9 DEF EndStream, Cancelled, Breaks, account
  <2> QED BY <1>8, <1>9, <2>1, RestartEnds
<1>10. ASSUME NEW error, BestFails(error) PROVE AccountInv'
  <2>1. UNCHANGED <<known, stored, hash, fetch>>
    BY <1>10 DEF BestFails, account
  <2> QED BY <1>8, <1>10, <2>1, RestartBest
<1>15. ASSUME NEW j \in queue.running, JobThrows(j) PROVE AccountInv'
  <2>1. UNCHANGED <<known, hash, fetch>> /\ stored \subseteq stored'
    BY <1>15 DEF JobThrows
  <2>2. Restarts \/ UNCHANGED <<pc, req>>
    BY <1>15, ThrowWorker
  <2> QED BY <1>8, <2>1, <2>2 DEF AccountInv
<1>16. CASE Left
  BY <1>16 DEF Left, LeftSends, LeftGoesOn, LeftIsOver, AccountInv, worker, account
<1>11. CASE Mine
  <2>1. \A b \in Blocks : fetch'[b] # "none" => fetch[b] # "none"
    BY <1>11 DEF Mine
  <2> QED BY <1>11, <2>1 DEF Mine, AccountInv, worker, account
<1>12. CASE Stop \/ StopGoesOn \/ StopCancels
  BY <1>12 DEF Stop, StopGoesOn, StopStep, StopCancels, AccountInv, worker, account
<1>13. ASSUME NEW b \in Blocks, Located(b) \/ LocatingFails(b) PROVE AccountInv'
  <2>1. \A a \in Blocks : fetch'[a] # "none" => fetch[a] # "none"
    BY <1>13 DEF Located, LocatingFails, TypeOK
  <2>2. hash' = hash \/ hash' = b
    BY <1>13 DEF Located, LocatingFails, account
  <2>3. b \in stored
    BY <1>13 DEF Located, LocatingFails, AccountInv
  <2>4. known' = known /\ stored' = stored /\ req' = req /\ pc' = pc
    BY <1>13 DEF Located, LocatingFails, account, worker
  <2> QED BY <2>1, <2>2, <2>3, <2>4 DEF AccountInv
<1>14. CASE UNCHANGED vars
  BY <1>14 DEF vars, AccountInv, worker, account
<1> QED
  BY <1>2, <1>3, <1>4, <1>5, <1>6, <1>7, <1>9, <1>10, <1>11, <1>12, <1>13, <1>14, <1>15, <1>16
     DEF Next, Jobs, Streaming, Syncing, Stopping

-----------------------------------------------------------------------------
(* The range asked for *)

LEMMA RequestStep ==
  ASSUME TypeOK, StreamInv, RequestInv, [Next]_vars
  PROVE  RequestInv'
<1> HIDE DEF Blocks
<1>1. /\ Last \in Nat /\ height \in Nat /\ height >= 1 /\ height <= Last
      /\ synced \in 0 .. height /\ hash \in 0 .. height /\ next \in Nat
      /\ req.from \in Nat /\ req.until \in Nat /\ req.best \in Nat
      /\ \A i \in DOMAIN req.outer : req.outer[i] \in Nat
  BY DEF TypeOK, Blocks
<1>2. ASSUME UNCHANGED <<height, req, pc, next, left>> PROVE RequestInv'
  BY <1>2 DEF RequestInv
<1>3. CASE Jobs \/ ReceiveTransaction \/ \E b \in Blocks : ReceiveNew(b)
  <2>1. UNCHANGED <<height, req, pc, next, left>>
    BY <1>3 DEF Jobs, ProcessTransaction, ProcessHeader, CancelForGap, ReceiveTransaction,
       ReceiveNew, chain, worker, feeding
  <2> QED BY <1>2, <2>1
<1>4. CASE ReceiveHeader \/ PassBlock
  <2>1. UNCHANGED <<height, req, pc, left>> /\ next' = next + 1
    BY <1>4 DEF ReceiveHeader, PassBlock, chain, worker
  <2>2. next <= height
    BY <1>1, <1>4 DEF ReceiveHeader, PassBlock, HeaderNext, NothingNext, Until, Current, RequestInv
  <2>3. next' <= height + 1
    BY <1>1, <2>1, <2>2
  <2> QED BY <2>1, <2>3 DEF RequestInv
<1>5. CASE StreamEnds
  BY <1>5 DEF StreamEnds, chain, RequestInv
<1>6. CASE ReadBest
  <2>1. /\ req'.from <= height /\ req'.until <= height /\ req'.best <= height /\ req'.from >= 1
    BY <1>1, <1>6 DEF ReadBest, Larger, RequestInv
  <2>2. req'.outer = req.outer
    BY <1>6 DEF ReadBest
  <2>3. UNCHANGED <<height, next, left>>
    BY <1>6 DEF ReadBest, chain, feeding
  <2> QED BY <2>1, <2>2, <2>3 DEF RequestInv
<1>7. CASE Subscribed
  BY <1>1, <1>7 DEF Subscribed, chain, RequestInv
<1>8. ASSUME Restarts, height' = height, next' \in {1, next},
             \A s \in left' : s \in left \/ s = Current
      PROVE  RequestInv'
  <2>1. /\ pc' \in {"best", "subscribe", "halted"}
        /\ req'.until <= height /\ req'.best <= height /\ req'.from <= height
        /\ \A i \in DOMAIN req'.outer : req'.outer[i] <= height
        /\ pc' = "subscribe" => req'.from >= 1
    BY <1>8, RestartReq
  <2>2. next' <= height + 1
    BY <1>1, <1>8 DEF RequestInv
  <2>3. \A s \in left' : s.until <= height /\ s.next <= height + 1
    BY <1>8 DEF RequestInv, Current
  <2> QED BY <1>8, <2>1, <2>2, <2>3 DEF RequestInv
<1>9. CASE EndStream \/ Cancelled \/ \E error : Breaks(error)
  <2>1. height' = height
    BY <1>9 DEF EndStream, Cancelled, Breaks, chain
  <2> QED BY <1>8, <1>9, <2>1, RestartEnds DEF Unfed
<1>10. ASSUME NEW error, BestFails(error) PROVE RequestInv'
  <2>1. UNCHANGED <<height, next, left>>
    BY <1>10 DEF BestFails, chain, feeding
  <2> QED BY <1>8, <1>10, <2>1, RestartBest
<1>11. ASSUME NEW j \in queue.running, JobThrows(j) PROVE RequestInv'
  <2>1. height' = height
    BY <1>11 DEF JobThrows, chain
  <2> QED BY <1>2, <1>8, <1>11, <2>1, ThrowWorker DEF Unfed
<1>12. CASE Left
  <2> PICK s \in left : LeftSends(s) \/ LeftGoesOn(s) \/ LeftIsOver(s)
    BY <1>12 DEF Left
  <2>1. UNCHANGED <<height, req, pc, next>>
    BY DEF LeftSends, LeftGoesOn, LeftIsOver, chain, worker
  <2>2. s \in Stream /\ s.next \in Nat /\ s.until \in Nat
    BY StreamOf
  <2>3. s.until <= height /\ s.next <= height + 1
    BY DEF RequestInv
  <2>4. HeaderNext(s) \/ NothingNext(s) => s.next + 1 <= height + 1
    BY <1>1, <2>2, <2>3 DEF HeaderNext, NothingNext, Until
  <2>5. \A t \in left' : t \in left \/ (t.until <= height /\ t.next <= height + 1)
    <3>1. CASE LeftSends(s)
      <4>1. [s EXCEPT !.half = TRUE].until = s.until /\ [s EXCEPT !.half = TRUE].next = s.next
        BY <2>2 DEF Stream
      <4> DEFINE t == [s EXCEPT !.next = @ + 1, !.half = FALSE]
      <4>2. t.until = s.until /\ t.next = s.next + 1
        BY <2>2 DEF Stream
      <4>3. \/ left' = left
            \/ left' = (left \ {s}) \cup {[s EXCEPT !.half = TRUE]}
            \/ HeaderNext(s) /\ left' = (left \ {s}) \cup {t}
        BY <3>1 DEF LeftSends
      <4> HIDE DEF t
      <4> QED BY <2>3, <2>4, <4>1, <4>2, <4>3
    <3>2. CASE LeftGoesOn(s)
      <4>1. [s EXCEPT !.feed = "ended"].until = s.until /\ [s EXCEPT !.feed = "ended"].next = s.next
        BY <2>2 DEF Stream
      <4> DEFINE t == [s EXCEPT !.next = @ + 1]
      <4>2. t.until = s.until /\ t.next = s.next + 1
        BY <2>2 DEF Stream
      <4>3. \/ left' = left \ {s}
            \/ left' = (left \ {s}) \cup {[s EXCEPT !.feed = "ended"]}
            \/ NothingNext(s) /\ left' = (left \ {s}) \cup {t}
        BY <3>2 DEF LeftGoesOn
      <4> HIDE DEF t
      <4> QED BY <2>3, <2>4, <4>1, <4>2, <4>3
    <3>3. CASE LeftIsOver(s)
      BY <3>3 DEF LeftIsOver
    <3> QED BY <3>1, <3>2, <3>3
  <2> QED BY <2>1, <2>5 DEF RequestInv
<1>14. CASE Mine
  <2>1. height' = height + 1 /\ UNCHANGED <<req, pc, next, left>>
    BY <1>14 DEF Mine, worker, feeding
  <2>2. \A s \in left : s.until \in Nat /\ s.next \in Nat
    BY StreamOf
  <2> QED BY <1>1, <2>1, <2>2 DEF RequestInv
<1>15. CASE Stop \/ StopGoesOn \/ StopCancels
  BY <1>2, <1>15 DEF Stop, StopGoesOn, StopStep, StopCancels, chain, worker, feeding
<1>16. CASE \E b \in Blocks : Located(b) \/ LocatingFails(b)
  BY <1>2, <1>16 DEF Located, LocatingFails, chain, worker, feeding
<1>17. CASE UNCHANGED vars
  BY <1>2, <1>17 DEF vars, chain, worker, feeding
<1> QED
  BY <1>3, <1>4, <1>5, <1>6, <1>7, <1>9, <1>10, <1>11, <1>12, <1>14, <1>15, <1>16, <1>17
     DEF Next, Streaming, Syncing, Stopping

LEMMA HeadersStep ==
  ASSUME TypeOK, QueueInv, RequestInv, HeadersInv, [Next]_vars
  PROVE  HeadersInv'
<1>1. queue \in QueueType /\ height \in Nat
  BY DEF TypeOK, QueueType
<1>2. height' \in Nat /\ height <= height'
  <2>1. height' = height \/ height' = height + 1
    <3>1. CASE Jobs \/ Streaming \/ StreamEnds \/ Syncing \/ Stopping \/ Mine \/ Stop
      BY <3>1 DEF Jobs, Streaming, Syncing, Stopping, ProcessTransaction, ProcessHeader,
         CancelForGap, ReceiveTransaction, ReceiveHeader, PassBlock, StreamEnds, ReadBest,
         Subscribed, EndStream, Cancelled, Mine, Stop, StopGoesOn, StopStep, StopCancels, chain
    <3>2. CASE \E b \in Blocks : ReceiveNew(b) \/ Located(b) \/ LocatingFails(b)
      BY <3>2 DEF ReceiveNew, Located, LocatingFails, chain
    <3>3. ASSUME NEW error, Breaks(error) \/ BestFails(error) PROVE height' = height
      BY <3>3 DEF Breaks, BestFails, chain
    <3>4. ASSUME NEW j \in queue.running, JobThrows(j) PROVE height' = height
      BY <3>4 DEF JobThrows, chain
    <3>5. CASE Left
      BY <3>5 DEF Left, LeftSends, LeftGoesOn, LeftIsOver, chain
    <3>6. CASE UNCHANGED vars
      BY <3>6 DEF vars, chain
    <3> QED BY <3>1, <3>2, <3>3, <3>4, <3>5, <3>6 DEF Next
  <2> QED BY <1>1, <2>1
<1>3. ASSUME NEW c, Takes(c), c.kind = "header" => c.block <= height PROVE HeadersInv'
  <2>1. \A j \in queue.running : j.at = "run" => j.by = "enqueued"
    BY <1>3 DEF Takes, Listening
  <2>2. c \in Chunk /\ c.block \in Nat
    BY <1>3 DEF Takes, Chunk
  <2>3. \/ /\ queue'.waiting = << >>
           /\ queue'.running = queue.running \cup {[chunk |-> c, by |-> "enqueued", at |-> "run"]}
        \/ queue'.waiting = Append(queue.waiting, c) /\ queue'.running = queue.running
    BY <1>1, <1>3, <2>1, Enqueued DEF Takes
  <2>4. \A j \in queue'.running : j.chunk = c \/ j \in queue.running
    BY <2>3
  <2>5. \A i \in DOMAIN queue'.waiting : queue'.waiting[i] = c \/
          (i \in DOMAIN queue.waiting /\ queue'.waiting[i] = queue.waiting[i])
    BY <1>1, <2>3 DEF QueueType
  <2>6. /\ \A i \in DOMAIN queue.waiting : queue.waiting[i].block \in Nat
        /\ \A j \in queue.running : j.chunk.block \in Nat
    BY ChunkOf, WaitingOf
  <2> QED BY <1>1, <1>2, <1>3, <2>2, <2>4, <2>5, <2>6 DEF HeadersInv
<1>4. ASSUME NEW j, Ends(j) \/ Turns(j) \/ Drops(j) PROVE HeadersInv'
  <2>1. j \in queue.running /\ \A l \in queue.running : l.at = "run" => l = j
    BY <1>4, OneRuns DEF Ends, Turns, Drops
  <2>2. \A l \in queue'.running : \/ \E m \in queue.running : l.chunk = m.chunk
                                  \/ \E i \in DOMAIN queue.waiting : l.chunk = queue.waiting[i]
    <3>1. CASE Ends(j)
      <4>1. \/ queue'.running = queue.running \ {j}
            \/ /\ queue.waiting # << >>
               /\ queue'.running = (queue.running \ {j}) \cup
                    {[chunk |-> Head(queue.waiting), by |-> "processed", at |-> "run"]}
        BY <1>1, <2>1, <3>1, Served DEF Ends
      <4>2. queue.waiting # << >> =>
              1 \in DOMAIN queue.waiting /\ Head(queue.waiting) = queue.waiting[1]
        BY <1>1 DEF QueueType
      <4> QED BY <4>1, <4>2
    <3>2. CASE Turns(j)
      <4>1. j \in Job
        BY <1>1, <2>1 DEF QueueType
      <4>2. [j EXCEPT !.at = "cancel"].chunk = j.chunk
        BY <4>1 DEF Job
      <4>3. queue'.running = (queue.running \ {j}) \cup {[j EXCEPT !.at = "cancel"]}
        BY <1>1, <2>1, <3>2, Cancels DEF Turns
      <4> QED BY <2>1, <4>2, <4>3
    <3>3. CASE Drops(j)
      BY <1>1, <2>1, <3>3, Thrown DEF Drops
    <3> QED BY <1>4, <3>1, <3>2, <3>3
  <2>3. \A i \in DOMAIN queue'.waiting :
          \E k \in DOMAIN queue.waiting : queue'.waiting[i] = queue.waiting[k]
    <3>1. \/ queue'.waiting = << >> \/ queue'.waiting = queue.waiting
          \/ queue.waiting # << >> /\ queue'.waiting = Tail(queue.waiting)
      BY <1>1, <1>4, <2>1, Served, Cancels, Thrown DEF Ends, Turns, Drops
    <3>2. ASSUME queue.waiting # << >>, queue'.waiting = Tail(queue.waiting),
                 NEW i \in DOMAIN queue'.waiting
          PROVE  i + 1 \in DOMAIN queue.waiting /\ queue'.waiting[i] = queue.waiting[i + 1]
      BY <1>1, <3>2 DEF QueueType
    <3> QED BY <3>1, <3>2
  <2>4. /\ \A i \in DOMAIN queue.waiting : queue.waiting[i].block \in Nat
        /\ \A l \in queue.running : l.chunk.block \in Nat
    BY ChunkOf, WaitingOf
  <2> QED BY <1>1, <1>2, <2>2, <2>3, <2>4 DEF HeadersInv
<1>5. CASE Renews
  BY <1>5 DEF Renews, NewQueue, HeadersInv
<1>6. CASE UNCHANGED queue
  <2>1. /\ \A i \in DOMAIN queue.waiting : queue.waiting[i].block \in Nat
        /\ \A l \in queue.running : l.chunk.block \in Nat
    BY ChunkOf, WaitingOf
  <2> QED BY <1>1, <1>2, <1>6, <2>1 DEF HeadersInv
<1>7. (Receives \/ LeftSend) /\ (\E c : Takes(c)) => \E c : Takes(c) /\ (c.kind = "header" => c.block <= height)
  <2>1. CASE ReceiveHeader
    <3>1. next <= height /\ next \in Blocks
      BY <2>1 DEF ReceiveHeader, HeaderNext, Current, Until, RequestInv, TypeOK
    <3>2. Takes([kind |-> "header", block |-> next])
      BY <2>1, <3>1 DEF ReceiveHeader, Takes, Chunk
    <3> QED BY <3>1, <3>2
  <2>2. CASE ReceiveTransaction
    <3>1. next \in Blocks
      BY <2>2 DEF ReceiveTransaction, TransactionNext, Current, Until, RequestInv, TypeOK
    <3>2. Takes([kind |-> "tx", block |-> next])
      BY <2>2, <3>1 DEF ReceiveTransaction, Takes, Chunk
    <3> QED BY <3>2
  <2>3. ASSUME NEW b \in Blocks, ReceiveNew(b)
        PROVE  \E c : Takes(c) /\ (c.kind = "header" => c.block <= height)
    <3>1. Takes([kind |-> "tx", block |-> b])
      BY <2>3 DEF ReceiveNew, Takes, Chunk
    <3> QED BY <3>1
  <2>4. ASSUME NEW s \in left, LeftSends(s)
        PROVE  \E c : Takes(c) /\ (c.kind = "header" => c.block <= height)
    <3>1. s.next \in Nat /\ s.next >= 1 /\ s.until \in Nat /\ s.until <= height /\ height <= Last
      BY StreamOf DEF RequestInv, TypeOK
    <3>2. TransactionNext(s) \/ HeaderNext(s) => s.next \in Blocks /\ s.next <= height
      BY <1>1, <3>1 DEF TransactionNext, HeaderNext, Until
    <3>3. PICK k \in {"tx", "header"}, b \in Blocks :
            Enqueue([kind |-> k, block |-> b]) /\ (k = "header" => b <= height)
      BY <2>4, <3>2 DEF LeftSends
    <3>4. Takes([kind |-> k, block |-> b])
      BY <2>4, <3>3 DEF LeftSends, Takes, Chunk
    <3> QED BY <3>3, <3>4
  <2> QED BY <2>1, <2>2, <2>3, <2>4 DEF Receives, LeftSend
<1> QED BY <1>3, <1>4, <1>5, <1>6, <1>7, QueueFrame

-----------------------------------------------------------------------------
(* The order of the past *)

LEMMA SentIs ==
  /\ \A b \in Blocks : Sent(b) \in Chunk /\ Sent(b).block = b /\ Sent(b).kind = "tx"
  /\ \A c \in Chunk : c.kind = "tx" => c = Sent(c.block)
  /\ \A b, h \in Blocks : Sent(b) = Sent(h) => b = h
  BY DEF Sent, Chunk

LEMMA TailOf ==
  ASSUME NEW S, NEW s \in Seq(S), s # << >>
  PROVE  /\ Len(s) \in Nat /\ Len(s) >= 1 /\ Head(s) = s[1]
         /\ Len(Tail(s)) = Len(s) - 1
         /\ \A i \in 1 .. Len(s) - 1 : Tail(s)[i] = s[i + 1]
  OBVIOUS

\* A job that ends has stored its transaction if it pays an address of the start;
\* the first chunk that waits takes its place.
LEMMA OrderEnds ==
  ASSUME TypeOK, QueueInv, InOrder, NEW j, Ends(j),
         pays' = pays, next' = next, half' = half, feed' = "open" => feed = "open",
         \/ stored' = stored
         \/ j.at = "run" /\ j.chunk.kind = "tx" /\ stored' = stored \cup {j.chunk.block},
         \A b \in Blocks : Initial(b) /\ j.at = "run" /\ j.chunk = Sent(b) => b \in stored'
  PROVE  InOrder'
<1> HIDE DEF Blocks
<1> DEFINE w == queue.waiting
<1>1. j \in queue.running /\ \A l \in queue.running : l.at = "run" => l = j
  BY OneRuns DEF Ends
<1>2. w \in Seq(Chunk) /\ queue'.waiting \in Seq(Chunk)
  <2>1. queue' \in QueueType
    BY QueueStep
  <2> QED BY <2>1 DEF QueueType, TypeOK
<1>3. \/ w = << >> /\ queue'.waiting = << >> /\ queue'.running = queue.running \ {j}
      \/ /\ w # << >> /\ queue'.waiting = Tail(w)
         /\ queue'.running = (queue.running \ {j}) \cup
              {[chunk |-> Head(w), by |-> "processed", at |-> "run"]}
  BY <1>1, Served DEF Ends, TypeOK, QueueType
<1>4. /\ w # << >> => Len(w) >= 1 /\ Len(queue'.waiting) = Len(w) - 1 /\ Head(w) = w[1]
      /\ w = << >> => Len(w) = 0 /\ Len(queue'.waiting) = 0
      /\ Len(w) \in Nat
  <2>1. CASE w = << >>
    BY <1>3, <2>1
  <2>2. CASE w # << >>
    BY <1>2, <1>3, <2>2, TailOf
  <2> QED BY <2>1, <2>2
<1>5. \A i \in 1 .. Len(queue'.waiting) : i + 1 \in 1 .. Len(w) /\ queue'.waiting[i] = w[i + 1]
  <2>1. CASE w = << >>
    BY <1>4, <2>1
  <2>2. CASE w # << >>
    <3>1. /\ queue'.waiting = Tail(w) /\ Len(queue'.waiting) = Len(w) - 1 /\ Len(w) \in Nat
      BY <1>3, <1>4, <2>2
    <3>2. \A i \in 1 .. Len(w) - 1 : Tail(w)[i] = w[i + 1]
      BY <1>2, <2>2, TailOf
    <3> QED BY <3>1, <3>2
  <2> QED BY <2>1, <2>2
<1>6. \A c : Runs(c)' => w # << >> /\ c = w[1]
  BY <1>1, <1>3, <1>4 DEF Runs
<1>7. \A c : w # << >> /\ c = w[1] => Runs(c)'
  <2> SUFFICES ASSUME NEW c, w # << >>, c = w[1] PROVE Runs(c)'
    OBVIOUS
  <2> DEFINE l == [chunk |-> c, by |-> "processed", at |-> "run"]
  <2>1. l \in queue'.running
    BY <1>3, <1>4
  <2>2. l.chunk = c /\ l.at = "run"
    OBVIOUS
  <2> QED BY <2>1, <2>2 DEF Runs
<1>8. ASSUME NEW b \in Blocks, Initial(b), NEW n \in 0 .. Len(w), b \in stored \/ Ahead(b, n)
      PROVE  b \in stored' \/ (n > 0 /\ Ahead(b, n - 1)')
  <2>1. CASE b \in stored
    BY <2>1
  <2>2. CASE Runs(Sent(b))
    <3>1. j.at = "run" /\ j.chunk = Sent(b)
      BY <1>1, <2>2 DEF Runs
    <3> QED BY <1>8, <3>1
  <2>3. ASSUME NEW i \in 1 .. n, w[i] = Sent(b)
        PROVE  n > 0 /\ Ahead(b, n - 1)'
    <3>1. CASE i = 1
      <4>1. w # << >> /\ Sent(b) = w[1]
        BY <1>4, <2>3, <3>1
      <4>2. Runs(Sent(b))'
        BY <1>7, <4>1 DEF Sent
      <4> QED BY <3>1, <4>2 DEF Ahead
    <3>2. CASE i > 1
      <4>1. i - 1 \in 1 .. Len(queue'.waiting) /\ i - 1 \in 1 .. n - 1
        BY <1>4, <3>2
      <4>2. queue'.waiting[i - 1] = Sent(b)
        BY <1>5, <2>3, <4>1
      <4> QED BY <4>1, <4>2 DEF Ahead, Sent
    <3> QED BY <3>1, <3>2
  <2> QED BY <1>8, <2>1, <2>2, <2>3 DEF Ahead
<1>9. \A b : Initial(b)' <=> Initial(b)
  BY DEF Initial
<1>10. StoredInOrder'
  <2> SUFFICES ASSUME NEW b \in Blocks, NEW h \in stored', Initial(b), b < h PROVE b \in stored'
    BY <1>9 DEF StoredInOrder
  <2>1. CASE h \in stored
    BY <2>1 DEF InOrder, StoredInOrder
  <2>2. CASE h \notin stored
    <3>1. h = j.chunk.block /\ j.at = "run" /\ j.chunk.kind = "tx" /\ j.chunk \in Chunk /\ h \in Blocks
      BY <1>1, <2>2, ChunkOf
    <3>2. Runs(Sent(h))
      BY <1>1, <3>1, SentIs DEF Runs
    <3> QED BY <3>1, <3>2 DEF InOrder, RunsInOrder
  <2> QED BY <2>1, <2>2
<1>11. RunsInOrder'
  <2> SUFFICES ASSUME NEW b \in Blocks, NEW h \in Blocks, Initial(b), b < h, Runs(Sent(h))'
               PROVE  b \in stored'
    BY <1>9 DEF RunsInOrder, Sent
  <2>1. w # << >> /\ w[1] = Sent(h)
    BY <1>6 DEF Sent
  <2>2. b \in stored \/ Ahead(b, 0)
    BY <1>4, <2>1 DEF InOrder, WaitsInOrder
  <2> QED BY <1>4, <1>8, <2>2
<1>12. WaitsInOrder'
  <2> SUFFICES ASSUME NEW b \in Blocks, NEW h \in Blocks, NEW i \in 1 .. Len(queue'.waiting),
                      Initial(b), b < h, queue'.waiting[i] = Sent(h)
               PROVE  b \in stored' \/ Ahead(b, i - 1)'
    BY <1>9 DEF WaitsInOrder, Sent
  <2>1. w[i + 1] = Sent(h) /\ i + 1 \in 1 .. Len(w)
    BY <1>5
  <2>2. b \in stored \/ Ahead(b, i)
    BY <1>4, <2>1 DEF InOrder, WaitsInOrder
  <2> QED BY <1>4, <1>8, <2>1, <2>2
<1>13. StreamInOrder'
  <2> SUFFICES ASSUME feed' = "open", NEW b \in Blocks, Initial(b), b < next \/ (half /\ b = next)
               PROVE  b \in stored' \/ Ahead(b, Len(queue.waiting))'
    BY <1>9 DEF StreamInOrder
  <2>1. b \in stored \/ Ahead(b, Len(w))
    BY DEF InOrder, StreamInOrder
  <2>2. Len(w) > 0 => Len(queue'.waiting) = Len(w) - 1
    BY <1>4
  <2> QED BY <1>4, <1>8, <2>1, <2>2
<1> QED BY <1>10, <1>11, <1>12, <1>13 DEF InOrder

\* A transaction that ends the stream has been stored; the others wait for it.
LEMMA OrderTurns ==
  ASSUME TypeOK, QueueInv, InOrder, NEW j, Turns(j),
         pays' = pays, next' = next, half' = half, feed' = feed,
         j.chunk.kind = "tx", stored' = stored \cup {j.chunk.block}
  PROVE  InOrder'
<1> HIDE DEF Blocks
<1>1. j \in queue.running /\ j.at = "run" /\ \A l \in queue.running : l.at = "run" => l = j
  BY OneRuns DEF Turns
<1>2. queue'.waiting = queue.waiting /\ \A l \in queue'.running : l.at # "run"
  BY <1>1, Cancels DEF Turns, TypeOK, QueueType
<1>3. \A c : ~Runs(c)'
  BY <1>2 DEF Runs
<1>4. \A b : Initial(b)' <=> Initial(b)
  BY DEF Initial
<1>5. j.chunk = Sent(j.chunk.block) /\ j.chunk.block \in Blocks
  BY <1>1, ChunkOf, SentIs
<1>6. Runs(Sent(j.chunk.block))
  BY <1>1, <1>5 DEF Runs
<1>7. ASSUME NEW b \in Blocks, NEW n, b \in stored \/ Ahead(b, n)
      PROVE  b \in stored' \/ Ahead(b, n)'
  <2>1. Runs(Sent(b)) => b \in stored'
    BY <1>1, <1>5, SentIs DEF Runs
  <2> QED BY <1>2, <1>7, <2>1 DEF Ahead, Sent
<1>8. StoredInOrder'
  BY <1>4, <1>5, <1>6 DEF InOrder, StoredInOrder, RunsInOrder
<1>9. RunsInOrder'
  BY <1>3 DEF RunsInOrder, Sent
<1>10. WaitsInOrder'
  <2> SUFFICES ASSUME NEW b \in Blocks, NEW h \in Blocks, NEW i \in 1 .. Len(queue.waiting),
                      Initial(b), b < h, queue.waiting[i] = Sent(h)
               PROVE  b \in stored' \/ Ahead(b, i - 1)'
    BY <1>2, <1>4 DEF WaitsInOrder, Sent
  <2>1. b \in stored \/ Ahead(b, i - 1)
    BY DEF InOrder, WaitsInOrder
  <2> QED BY <1>7, <2>1
<1>11. StreamInOrder'
  <2> SUFFICES ASSUME feed = "open", NEW b \in Blocks, Initial(b), b < next \/ (half /\ b = next)
               PROVE  b \in stored' \/ Ahead(b, Len(queue.waiting))'
    BY <1>4 DEF StreamInOrder
  <2>1. b \in stored \/ Ahead(b, Len(queue.waiting))
    BY DEF InOrder, StreamInOrder
  <2>2. CASE Runs(Sent(b))
    BY <1>1, <1>5, <2>2, SentIs DEF Runs
  <2>3. CASE \E i \in 1 .. Len(queue.waiting) : queue.waiting[i] = Sent(b)
    BY <1>2, <2>3 DEF Ahead, Sent
  <2> QED BY <2>1, <2>2, <2>3 DEF Ahead
<1> QED BY <1>8, <1>9, <1>10, <1>11 DEF InOrder

\* What the stream sends comes after all it has sent.
LEMMA OrderTakes ==
  ASSUME TypeOK, QueueInv, InOrder, NEW c, Takes(c), feed = "open",
         pays' = pays, stored' = stored,
         \/ c = Sent(next) /\ next \in Blocks /\ next' = next
         \/ c.kind = "header" /\ half /\ next' = next + 1 /\ ~half'
  PROVE  InOrder'
<1> HIDE DEF Blocks
<1> DEFINE w == queue.waiting
           new == [chunk |-> c, by |-> "enqueued", at |-> "run"]
<1>1. c \in Chunk /\ w \in Seq(Chunk) /\ feed = "open"
      /\ \A j \in queue.running : j.at = "run" => j.by = "enqueued"
  BY DEF Takes, Listening, TypeOK
<1>2. \/ /\ w = << >> /\ queue'.waiting = << >>
         /\ \A j \in queue.running : j.at # "run"
         /\ queue'.running = queue.running \cup {new}
      \/ queue'.waiting = Append(w, c) /\ queue'.running = queue.running
  BY <1>1, Enqueued DEF Takes, TypeOK, QueueType
<1>3. new.chunk = c /\ new.at = "run"
  OBVIOUS
<1>4. Len(w) \in Nat /\ next \in Nat /\ \A b \in Blocks : b \in Nat
  BY <1>1 DEF TypeOK, Blocks
<1>5. \A b : Initial(b)' <=> Initial(b)
  BY DEF Initial
<1>6. ASSUME NEW b \in Blocks, Initial(b), b < next \/ (half /\ b = next)
      PROVE  b \in stored \/ Ahead(b, Len(w))
  BY <1>1, <1>6 DEF InOrder, StreamInOrder
<1>7. \A h \in Blocks : c = Sent(h) => h = next
  BY SentIs
<1>8. StoredInOrder'
  BY <1>5 DEF InOrder, StoredInOrder
<1>9. CASE w = << >> /\ queue'.waiting = << >> /\ (\A j \in queue.running : j.at # "run")
           /\ queue'.running = queue.running \cup {new}
  <2>1. \A x : ~Runs(x)
    BY <1>9 DEF Runs
  <2>2. \A x : Runs(x)' <=> x = c
    BY <1>3, <1>9 DEF Runs
  <2>3. \A b, n : n = 0 => ~Ahead(b, n)
    BY <2>1 DEF Ahead
  <2>4. RunsInOrder'
    <3> SUFFICES ASSUME NEW b \in Blocks, NEW h \in Blocks, Initial(b), b < h, Runs(Sent(h))'
                 PROVE  b \in stored
      BY <1>5 DEF RunsInOrder, Sent
    <3>1. c = Sent(h)
      BY <2>2 DEF Sent
    <3>2. b < next
      BY <1>7, <3>1
    <3> QED BY <1>6, <1>9, <2>3, <3>2
  <2>5. WaitsInOrder'
    BY <1>9 DEF WaitsInOrder, Sent
  <2>6. StreamInOrder'
    <3> SUFFICES ASSUME NEW b \in Blocks, Initial(b), b < next' \/ (half' /\ b = next')
                 PROVE  b \in stored \/ Ahead(b, Len(queue.waiting))'
      BY <1>5 DEF StreamInOrder
    <3>1. CASE b < next \/ (half /\ b = next)
      BY <1>6, <1>9, <2>3, <3>1
    <3>2. CASE c = Sent(b)
      <4>1. Runs(Sent(b))'
        BY <2>2, <3>2 DEF Sent
      <4> QED BY <4>1 DEF Ahead, Sent
    <3> QED BY <1>4, <3>1, <3>2
  <2> QED BY <1>8, <2>4, <2>5, <2>6 DEF InOrder
<1>10. CASE queue'.waiting = Append(w, c) /\ queue'.running = queue.running
  <2>1. \A x : Runs(x)' <=> Runs(x)
    BY <1>10 DEF Runs
  <2>2. /\ Len(queue'.waiting) = Len(w) + 1
        /\ \A i \in 1 .. Len(w) : queue'.waiting[i] = w[i]
        /\ queue'.waiting[Len(w) + 1] = c
    BY <1>1, <1>10
  <2>3. ASSUME NEW b \in Blocks, NEW n \in 0 .. Len(w), Ahead(b, n)
        PROVE  Ahead(b, n)'
    <3>1. CASE Runs(Sent(b))
      <4>1. Runs(Sent(b))'
        BY <2>1, <3>1 DEF Sent
      <4> QED BY <4>1 DEF Ahead
    <3>2. ASSUME NEW i \in 1 .. n, w[i] = Sent(b) PROVE Ahead(b, n)'
      <4>1. queue'.waiting[i] = Sent(b)
        BY <1>4, <2>2, <3>2
      <4> QED BY <4>1 DEF Ahead, Sent
    <3> QED BY <2>3, <3>1, <3>2 DEF Ahead
  <2>4. RunsInOrder'
    <3> SUFFICES ASSUME NEW b \in Blocks, NEW h \in Blocks, Initial(b), b < h, Runs(Sent(h))'
                 PROVE  b \in stored
      BY <1>5 DEF RunsInOrder, Sent
    <3>1. Runs(Sent(h))
      BY <2>1 DEF Sent
    <3> QED BY <3>1 DEF InOrder, RunsInOrder
  <2>5. WaitsInOrder'
    <3> SUFFICES ASSUME NEW b \in Blocks, NEW h \in Blocks, NEW i \in 1 .. Len(w) + 1,
                        Initial(b), b < h, queue'.waiting[i] = Sent(h)
                 PROVE  b \in stored \/ Ahead(b, i - 1)'
      BY <1>5, <2>2 DEF WaitsInOrder, Sent
    <3>1. i - 1 \in 0 .. Len(w)
      BY <1>4
    <3>2. b \in stored \/ Ahead(b, i - 1)
      <4>1. CASE i \in 1 .. Len(w)
        BY <2>2, <4>1 DEF InOrder, WaitsInOrder
      <4>2. CASE i = Len(w) + 1
        <5>1. c = Sent(h)
          BY <2>2, <4>2
        <5>2. b < next /\ i - 1 = Len(w)
          BY <1>4, <1>7, <4>2, <5>1
        <5> QED BY <1>6, <5>2
      <4> QED BY <1>4, <4>1, <4>2
    <3> QED BY <2>3, <3>1, <3>2
  <2>6. StreamInOrder'
    <3> SUFFICES ASSUME NEW b \in Blocks, Initial(b), b < next' \/ (half' /\ b = next')
                 PROVE  b \in stored \/ Ahead(b, Len(queue.waiting))'
      BY <1>5 DEF StreamInOrder
    <3>1. CASE b < next \/ (half /\ b = next)
      <4>1. CASE b \in stored
        BY <4>1
      <4>2. CASE Ahead(b, Len(w))
        <5>1. Runs(Sent(b))' \/ \E i \in 1 .. Len(w) : queue'.waiting[i] = Sent(b)
          BY <1>4, <2>1, <2>2, <4>2 DEF Ahead, Sent
        <5>2. 1 .. Len(w) \subseteq 1 .. Len(queue'.waiting)
          BY <1>4, <2>2
        <5> QED BY <5>1, <5>2 DEF Ahead, Sent
      <4> QED BY <1>6, <3>1, <4>1, <4>2
    <3>2. CASE c = Sent(b)
      <4>1. Len(w) + 1 \in 1 .. Len(queue'.waiting) /\ queue'.waiting[Len(w) + 1] = Sent(b)
        BY <1>4, <2>2, <3>2
      <4> QED BY <4>1 DEF Ahead, Sent
    <3> QED BY <1>4, <3>1, <3>2
  <2> QED BY <1>8, <2>4, <2>5, <2>6 DEF InOrder
<1> QED BY <1>2, <1>9, <1>10

\* Steps that neither store nor process.
LEMMA OrderStays ==
  ASSUME InOrder, pays' = pays, stored' = stored, queue' = queue,
         feed' = "open" =>
           /\ feed = "open"
           /\ \A b \in Blocks : Initial(b) /\ (b < next' \/ (half' /\ b = next')) =>
                b < next \/ (half /\ b = next)
  PROVE  InOrder'
<1>1. \A b : Initial(b)' <=> Initial(b)
  BY DEF Initial
<1>2. StoredInOrder' /\ RunsInOrder' /\ WaitsInOrder'
  BY <1>1 DEF InOrder, StoredInOrder, RunsInOrder, WaitsInOrder, Ahead, Runs, Sent
<1>3. StreamInOrder'
  BY <1>1 DEF InOrder, StreamInOrder, Ahead, Runs, Sent
<1> QED BY <1>2, <1>3 DEF InOrder

\* An address of the start is in every filter.
LEMMA AlwaysMatches ==
  ASSUME AccountInv, TypeOK, pc \in {"subscribe", "stream", "ending"}, NEW b \in Blocks, Initial(b)
  PROVE  Matches(Current, b) /\ pays[b] # Foreign
BY DEF AccountInv, TypeOK, Initial, Matches, Current, Foreign

\* Payments to the addresses of the start are taken for ours.
LEMMA InitialOurs ==
  ASSUME AccountInv, TypeOK, NEW b \in Blocks, Initial(b)
  PROVE  Ours(b)
BY DEF AccountInv, TypeOK, Initial, Ours, Foreign

\* Only a job that throws leaves the queue with an error.
LEMMA ThrewStep ==
  ASSUME TypeOK, QueueInv, [Next]_vars, ~queue.threw, ~Throws
  PROVE  ~queue'.threw
<1>1. queue \in QueueType
  BY DEF TypeOK, QueueType
<1>2. ASSUME NEW c, Takes(c) PROVE queue'.threw = queue.threw
  BY <1>1, <1>2, Enqueued DEF Takes, Listening
<1>3. ASSUME NEW j, Ends(j) \/ Turns(j) PROVE queue'.threw = queue.threw
  <2>1. j \in queue.running /\ \A l \in queue.running : l.at = "run" => l = j
    BY <1>3, OneRuns DEF Ends, Turns
  <2> QED BY <1>1, <1>3, <2>1, Served, Cancels DEF Ends, Turns
<1>4. CASE Renews
  BY <1>4 DEF Renews, NewQueue
<1> QED BY <1>2, <1>3, <1>4, QueueFrame

\* What the past's sync does while its queue is in order
LEMMA OrderStep ==
  ASSUME IInv, [Next]_vars, mode' = "historical", mode = "historical", InOrder, ~Throws
  PROVE  InOrder'
<1> USE DEF IInv
<1> HIDE DEF Blocks
<1>1. ASSUME NEW s \in left PROVE FALSE
  BY <1>1 DEF LeftInv
<1>2. ASSUME NEW j \in queue.running, ProcessTransaction(j) PROVE InOrder'
  <2>1. /\ pays' = pays /\ next' = next /\ half' = half /\ feed' = feed
        /\ j.at = "run" /\ j.chunk.kind = "tx"
    BY <1>2 DEF ProcessTransaction, chain, feeding
  <2>2. j.chunk = Sent(j.chunk.block) /\ j.chunk.block \in Blocks
    BY <2>1, ChunkOf, SentIs
  <2>3. CASE Ours(j.chunk.block)
    <3>1. stored' = stored \cup {j.chunk.block}
      BY <1>2, <2>3 DEF ProcessTransaction, Import
    <3>2. \A b \in Blocks : j.chunk = Sent(b) => b \in stored'
      BY <2>2, <3>1, SentIs
    <3>3. Ends(j) \/ Turns(j)
      BY <1>2, <2>1 DEF ProcessTransaction, Ends, Turns
    <3> QED BY <2>1, <3>1, <3>2, <3>3, OrderEnds, OrderTurns
  <2>4. CASE ~Ours(j.chunk.block)
    <3>1. stored' = stored /\ Ends(j)
      BY <1>2, <2>1, <2>4 DEF ProcessTransaction, Ends
    <3>2. \A b \in Blocks : Initial(b) /\ j.chunk = Sent(b) => b \in stored'
      BY <2>2, <2>4, InitialOurs, SentIs
    <3> QED BY <2>1, <3>1, <3>2, OrderEnds
  <2> QED BY <2>3, <2>4
<1>3. ASSUME NEW j \in queue.running, ProcessHeader(j) PROVE InOrder'
  <2>1. /\ pays' = pays /\ next' = next /\ half' = half /\ feed' = feed /\ stored' = stored
        /\ j.chunk.kind = "header" /\ Ends(j)
    BY <1>3 DEF ProcessHeader, Ends, chain, feeding
  <2>2. \A b \in Blocks : j.chunk # Sent(b)
    BY <2>1, SentIs
  <2> QED BY <2>1, <2>2, OrderEnds
<1>4. ASSUME NEW j \in queue.running, CancelForGap(j) PROVE InOrder'
  <2>1. /\ pays' = pays /\ next' = next /\ half' = half /\ stored' = stored
        /\ feed' = "open" => feed = "open"
        /\ j.at = "cancel"
    BY <1>4 DEF CancelForGap, chain, account
  <2>2. Ends(j) \/ queue' = queue
    BY <1>4 DEF CancelForGap, Ends
  <2> QED BY <2>1, <2>2, OrderEnds, OrderStays
<1>5. CASE ReceiveTransaction
  <2>1. next \in Blocks /\ feed = "open"
    BY <1>5 DEF ReceiveTransaction, TransactionNext, Current, Until, RequestInv, TypeOK, Blocks
  <2>2. /\ pays' = pays /\ stored' = stored /\ next' = next
        /\ Takes(Sent(next))
    BY <1>5, <2>1 DEF ReceiveTransaction, Takes, Chunk, Sent, chain, account
  <2> QED BY <2>1, <2>2, OrderTakes
<1>6. CASE ReceiveHeader
  <2>1. req.until # 0 /\ feed = "open"
    BY <1>6 DEF ReceiveHeader, StreamInv, PastInv
  <2>2. half
    BY <1>6, <2>1 DEF ReceiveHeader, HeaderNext, Current
  <2> DEFINE c == [kind |-> "header", block |-> next]
  <2>3. next \in Blocks
    BY <1>6 DEF ReceiveHeader, HeaderNext, Current, Until, RequestInv, TypeOK, Blocks
  <2>4. /\ pays' = pays /\ stored' = stored /\ next' = next + 1 /\ ~half'
        /\ c.kind = "header" /\ Takes(c)
    BY <1>6, <2>3 DEF ReceiveHeader, Takes, Chunk, chain, account
  <2> QED BY <2>1, <2>2, <2>4, OrderTakes
<1>7. CASE PassBlock
  <2>1. feed = "open" /\ ~half /\ (Matches(Current, next) => pays[next] = Foreign)
        /\ next \in Blocks /\ next \in Nat
    BY <1>7 DEF PassBlock, NothingNext, Until, Current, RequestInv, TypeOK, Blocks
  <2>2. ~Initial(next)
    BY <2>1, AlwaysMatches DEF StreamInv
  <2>3. /\ pays' = pays /\ stored' = stored /\ queue' = queue /\ feed' = feed
        /\ next' = next + 1 /\ half' = half
    BY <1>7 DEF PassBlock, chain, account, jobs
  <2>4. \A b \in Blocks : Initial(b) /\ b < next' => b < next
    BY <2>1, <2>2, <2>3 DEF Blocks
  <2> QED BY <2>1, <2>3, <2>4, OrderStays
<1>8. ASSUME NEW b \in Blocks, ReceiveNew(b) PROVE InOrder'
  <2>1. pc = "stream" /\ req.until = 0
    BY <1>8 DEF ReceiveNew, NewFor, Current, StreamInv
  <2> QED BY <2>1 DEF PastInv
<1>9. CASE Subscribed
  <2>1. /\ pays' = pays /\ stored' = stored /\ next' = req.from /\ ~half'
        /\ queue'.waiting = << >> /\ queue'.running = {}
    BY <1>9 DEF Subscribed, NewQueue, chain, account
  <2>2. \A b : Initial(b)' <=> Initial(b)
    BY <2>1 DEF Initial
  <2>3. \A c : ~Runs(c)'
    BY <2>1 DEF Runs
  <2>4. StoredInOrder'
    BY <2>1, <2>2 DEF InOrder, StoredInOrder
  <2>5. RunsInOrder' /\ WaitsInOrder'
    BY <2>1, <2>3 DEF RunsInOrder, WaitsInOrder, Sent
  <2>6. StreamInOrder'
    BY <2>1, <2>2 DEF StreamInOrder, PastInv, RequestInOrder
  <2> QED BY <2>4, <2>5, <2>6 DEF InOrder
<1>10. CASE StreamEnds \/ EndStream \/ Cancelled \/ \E error : Breaks(error)
  <2>1. pays' = pays /\ stored' = stored /\ queue' = queue /\ feed' # "open"
    BY <1>10 DEF StreamEnds, EndStream, Cancelled, Breaks, Unfed, chain, account, jobs
  <2> QED BY <2>1, OrderStays
<1>11. CASE ReadBest \/ Mine \/ Stop \/ StopGoesOn \/ StopCancels \/ (\E error : BestFails(error))
            \/ (\E b \in Blocks : Located(b) \/ LocatingFails(b)) \/ UNCHANGED vars
  <2>1. /\ pays' = pays /\ stored' = stored /\ queue' = queue /\ next' = next /\ half' = half
    BY <1>11 DEF ReadBest, BestFails, Mine, Stop, StopGoesOn, StopStep, StopCancels, Located,
       LocatingFails, vars, chain, account, feeding, jobs
  <2>2. feed' = "open" => feed = "open"
    BY <1>11 DEF ReadBest, BestFails, Mine, Stop, StopGoesOn, StopStep, StopCancels, Located,
       LocatingFails, vars, feeding
  <2> QED BY <2>1, <2>2, OrderStays
<1> QED
  BY <1>1, <1>2, <1>3, <1>4, <1>5, <1>6, <1>7, <1>8, <1>9, <1>10, <1>11
     DEF Next, Jobs, Streaming, Syncing, Stopping, Left, Throws

\* A job that throws in the past without ending its sync is the last of its queue.
LEMMA OrderThrows ==
  ASSUME IInv, mode = "historical", mode' = "historical", NEW j \in queue.running, JobThrows(j)
  PROVE  PastOrder'
<1> USE DEF IInv
<1> HIDE DEF Blocks
<1>1. j.at = "run" /\ queue' = Threw(queue, j) /\ pays' = pays
  BY DEF JobThrows, chain
<1>2. InOrder
  BY <1>1 DEF PastInv, PastOrder, NoneRuns
<1>3. feed' = "none"
  <2>1. pc \notin {"stream", "ending"} /\ feed' = feed
    BY ThrowWorker
  <2> QED BY <2>1 DEF StreamInv, TypeOK
<1>4. queue'.threw /\ NoneRuns'
  <2>1. \A l \in queue.running : l.at = "run" => l = j
    BY <1>1, OneRuns
  <2>2. queue \in QueueType
    BY DEF TypeOK, QueueType
  <2>3. queue'.threw /\ (\A l \in queue'.running : l.at # "run") /\ queue' \in QueueType
    BY <1>1, <2>1, <2>2, Thrown
  <2>4. \A l \in queue'.running : l.at = "cancel"
    BY <2>3 DEF QueueType, Job
  <2> QED BY <2>3, <2>4 DEF NoneRuns
<1>5. StoredInOrder'
  <2> SUFFICES ASSUME NEW b \in Blocks, NEW h \in stored', Initial(b), b < h PROVE b \in stored'
    BY <1>1 DEF StoredInOrder, Initial
  <2>1. CASE h \in stored
    BY <1>2, <2>1 DEF InOrder, StoredInOrder, JobThrows
  <2>2. CASE h \notin stored
    <3>1. j.chunk.kind = "tx" /\ h = j.chunk.block /\ stored \subseteq stored'
      BY <2>2 DEF JobThrows
    <3>2. j.chunk = Sent(h) /\ h \in Blocks
      BY <3>1, ChunkOf, SentIs
    <3>3. Runs(Sent(h))
      BY <1>1, <3>2 DEF Runs
    <3> QED BY <1>2, <3>1, <3>2, <3>3 DEF InOrder, RunsInOrder
  <2> QED BY <2>1, <2>2
<1> QED BY <1>3, <1>4, <1>5 DEF PastOrder

\* Nothing more is stored from the queue of a job that has thrown.
LEMMA OrderThrew ==
  ASSUME IInv, [Next]_vars, mode = "historical", mode' = "historical", queue.threw
  PROVE  PastOrder'
<1> USE DEF IInv
<1> HIDE DEF Blocks
<1>1. StoredInOrder /\ feed = "none" /\ pc \notin {"stream", "ending"} /\ ~stream
  BY DEF PastInv, PastOrder, StreamInv, TypeOK
<1>2. \A j \in queue.running : j.at = "cancel"
  BY DEF PastInv, PastOrder, NoneRuns
<1>3. ASSUME UNCHANGED <<pays, stored, queue>>, feed' = "none" PROVE PastOrder'
  BY <1>1, <1>2, <1>3 DEF PastOrder, StoredInOrder, Initial, NoneRuns
<1>4. ASSUME NEW j \in queue.running, CancelForGap(j) PROVE PastOrder'
  <2>1. UNCHANGED <<pays, stored, queue>> /\ feed' = feed
    BY <1>1, <1>4 DEF CancelForGap, chain, account
  <2> QED BY <1>1, <1>3, <2>1
<1>5. ASSUME NEW j \in queue.running, ProcessTransaction(j) \/ ProcessHeader(j) \/ JobThrows(j)
      PROVE  FALSE
  BY <1>2, <1>5 DEF ProcessTransaction, ProcessHeader, JobThrows
<1>6. CASE ReceiveTransaction \/ ReceiveHeader \/ PassBlock \/ StreamEnds \/ EndStream \/ Cancelled
           \/ (\E b \in Blocks : ReceiveNew(b)) \/ Left
  BY <1>1, <1>6 DEF ReceiveTransaction, ReceiveHeader, PassBlock, StreamEnds, EndStream, Cancelled,
     ReceiveNew, Left, LeftInv
<1>7. CASE Subscribed
  <2>1. /\ pays' = pays /\ stored' = stored /\ next' = req.from /\ ~half' /\ ~queue'.threw
        /\ queue'.waiting = << >> /\ queue'.running = {} /\ pc = "subscribe"
    BY <1>7 DEF Subscribed, NewQueue, chain, account
  <2>2. \A b : Initial(b)' <=> Initial(b)
    BY <2>1 DEF Initial
  <2>3. \A c : ~Runs(c)'
    BY <2>1 DEF Runs
  <2>4. StoredInOrder'
    BY <1>1, <2>1, <2>2 DEF StoredInOrder
  <2>5. RunsInOrder' /\ WaitsInOrder'
    BY <2>1, <2>3 DEF RunsInOrder, WaitsInOrder, Sent
  <2>6. StreamInOrder'
    BY <2>1, <2>2 DEF StreamInOrder, PastInv, RequestInOrder
  <2> QED BY <2>1, <2>4, <2>5, <2>6 DEF PastOrder, InOrder
<1>8. CASE ReadBest \/ Mine \/ Stop \/ StopGoesOn \/ StopCancels
           \/ (\E error : Breaks(error) \/ BestFails(error))
           \/ (\E b \in Blocks : Located(b) \/ LocatingFails(b)) \/ UNCHANGED vars
  <2>1. UNCHANGED <<pays, stored, queue>>
    BY <1>8 DEF ReadBest, Breaks, BestFails, Mine, Stop, StopGoesOn, StopStep, StopCancels, Located,
       LocatingFails, vars, chain, account, jobs
  <2>2. feed' = "none"
    BY <1>1, <1>8 DEF ReadBest, Breaks, Unfed, BestFails, Mine, Stop, StopGoesOn, StopStep,
       StopCancels, Located, LocatingFails, vars, feeding
  <2> QED BY <1>3, <2>1, <2>2
<1> QED
  BY <1>4, <1>5, <1>6, <1>7, <1>8 DEF Next, Jobs, Streaming, Syncing, Stopping

\* The part of PastInv that is about the worker.
WorkerInv ==
  mode = "historical" =>
    /\ synced = 0
    /\ pc \in {"subscribe", "stream", "ending"} => req.until # 0
    /\ RequestInOrder

LEMMA WorkerStep ==
  ASSUME IInv, [Next]_vars
  PROVE  WorkerInv'
<1> USE DEF IInv
<1> HIDE DEF Blocks
<1> SUFFICES ASSUME mode' = "historical" PROVE WorkerInv'
  BY DEF WorkerInv
<1>1. /\ height \in Nat /\ height >= 1 /\ synced \in Nat /\ req.from \in Nat
      /\ \A b \in Blocks : b \in Nat /\ b >= 1
      /\ stored \subseteq Blocks
  BY DEF TypeOK, Blocks
<1>2. mode = "historical" => /\ synced = 0
                             /\ pc \in {"subscribe", "stream", "ending"} => req.until # 0
                             /\ RequestInOrder /\ StoredInOrder
  BY DEF PastInv, PastOrder, InOrder
<1>3. ASSUME UNCHANGED <<pays, mode, req, synced>>, stored \subseteq stored',
             \/ pc' = pc \/ pc' = "halted"
             \/ pc' \in {"stream", "ending"} /\ pc \in {"subscribe", "stream", "ending"}
      PROVE  WorkerInv'
  BY <1>2, <1>3 DEF WorkerInv, RequestInOrder, Initial
<1>4. ASSUME NEW j \in queue.running,
             ProcessTransaction(j) \/ ProcessHeader(j) \/ CancelForGap(j)
      PROVE  WorkerInv'
  <2>1. UNCHANGED <<pays, mode, req, synced, pc>>
    BY <1>4 DEF ProcessTransaction, ProcessHeader, CancelForGap, chain, worker
  <2>2. stored' = stored \/ stored' = stored \cup {j.chunk.block}
    BY <1>4 DEF ProcessTransaction, Import, ProcessHeader, CancelForGap, account
  <2> QED BY <1>3, <2>1, <2>2
<1>5. CASE ReceiveTransaction \/ ReceiveHeader \/ PassBlock \/ (\E b \in Blocks : ReceiveNew(b))
           \/ Mine \/ Stop \/ StopGoesOn \/ StopCancels
           \/ (\E b \in Blocks : Located(b) \/ LocatingFails(b)) \/ UNCHANGED vars
  <2>1. UNCHANGED <<pays, mode, req, synced, pc, stored>>
    BY <1>5 DEF ReceiveTransaction, ReceiveHeader, PassBlock, ReceiveNew, Mine, Stop, StopGoesOn,
       StopStep, StopCancels, Located, LocatingFails, vars, chain, account, worker
  <2> QED BY <1>3, <2>1
<1>12. ASSUME NEW s \in left, LeftSends(s) \/ LeftGoesOn(s) \/ LeftIsOver(s) PROVE WorkerInv'
  <2>1. UNCHANGED <<pays, mode, req, synced, pc, stored>>
    BY <1>12 DEF LeftSends, LeftGoesOn, LeftIsOver, chain, account, worker
  <2> QED BY <1>3, <2>1
<1>6. CASE StreamEnds \/ Subscribed
  <2>1. UNCHANGED <<pays, mode, req, synced, stored>>
    BY <1>6 DEF StreamEnds, Subscribed, chain, account
  <2>2. pc' \in {"stream", "ending"} /\ pc \in {"subscribe", "stream", "ending"}
    BY <1>6 DEF StreamEnds, Subscribed
  <2> QED BY <1>3, <2>1, <2>2
<1>7. CASE ReadBest
  <2>1. UNCHANGED <<pays, mode, synced, stored>>
    BY <1>7 DEF ReadBest, chain, account
  <2>2. synced = 0
    BY <1>2, <2>1
  <2>3. req'.until >= 1 /\ (req'.from = req.from \/ req'.from = 1)
    BY <1>1, <1>7, <2>2 DEF ReadBest, Larger, RequestInv
  <2>4. req'.until # 0
    BY <2>3
  <2>5. RequestInOrder'
    BY <1>1, <1>2, <2>1, <2>3 DEF RequestInOrder, Initial
  <2> QED BY <2>1, <2>2, <2>4, <2>5 DEF WorkerInv
<1>8. ASSUME Restarts, UNCHANGED <<pays, stored>> PROVE WorkerInv'
  <2>1. ASSUME NEW o, Historical(o), UNCHANGED synced, mode = "historical" PROVE WorkerInv'
    <3>1. req'.from = hash /\ pc' = "best"
      BY <2>1 DEF Historical
    <3>2. hash = 0 \/ hash \in stored
      BY DEF AccountInv
    <3>3. RequestInOrder'
      BY <1>1, <1>2, <1>8, <2>1, <3>1, <3>2 DEF RequestInOrder, StoredInOrder, Initial
    <3> QED BY <1>2, <2>1, <3>1, <3>3 DEF WorkerInv
  <2>2. CASE Halt
    <3>1. UNCHANGED <<mode, req, synced>> /\ pc' = "halted"
      BY <2>2 DEF Halt
    <3> QED BY <1>3, <1>8, <3>1
  <2> QED BY <1>8, <2>1, <2>2 DEF Restarts, Incoming
<1>9. CASE EndStream \/ Cancelled \/ \E error : Breaks(error)
  <2>1. pays' = pays /\ stored' = stored
    BY <1>9 DEF EndStream, Cancelled, Breaks, chain, account
  <2> QED BY <1>8, <1>9, <2>1, RestartEnds
<1>10. ASSUME NEW error, BestFails(error) PROVE WorkerInv'
  <2>1. pays' = pays /\ stored' = stored
    BY <1>10 DEF BestFails, chain, account
  <2> QED BY <1>8, <1>10, <2>1, RestartBest
<1>11. ASSUME NEW j \in queue.running, JobThrows(j) PROVE WorkerInv'
  <2>1. UNCHANGED <<mode, pc, req, synced>>
    BY <1>11, ThrowWorker
  <2>2. pays' = pays /\ stored \subseteq stored'
    BY <1>11 DEF JobThrows, chain
  <2> QED BY <1>3, <2>1, <2>2
<1> QED
  BY <1>4, <1>5, <1>6, <1>7, <1>9, <1>10, <1>11, <1>12
     DEF Next, Jobs, Streaming, Syncing, Stopping, Left

\* No step goes back to the past.
LEMMA PastIsOver ==
  ASSUME TypeOK, StreamInv, RequestInv, [Next]_vars, mode' = "historical"
  PROVE  mode = "historical"
<1>1. CASE Restarts
  BY <1>1 DEF Restarts, Incoming, Halt
<1>2. CASE mode' = mode
  BY <1>2
<1>3. CASE EndStream \/ Cancelled \/ (\E error : Breaks(error) \/ BestFails(error))
  BY <1>1, <1>3, RestartEnds, RestartBest
<1>4. ASSUME NEW j \in queue.running, JobThrows(j) PROVE mode = "historical"
  BY <1>1, <1>2, <1>4, ThrowWorker
<1>5. CASE Jobs \/ Streaming \/ StreamEnds \/ ReadBest \/ Subscribed
  BY <1>2, <1>5 DEF Jobs, Streaming, ProcessTransaction, ProcessHeader, CancelForGap,
     ReceiveTransaction, ReceiveHeader, PassBlock, StreamEnds, ReadBest, Subscribed, worker
<1>7. ASSUME NEW s \in left, LeftSends(s) \/ LeftGoesOn(s) \/ LeftIsOver(s) PROVE mode' = mode
  BY <1>7 DEF LeftSends, LeftGoesOn, LeftIsOver, worker
<1>6. CASE Stopping \/ Mine \/ Stop \/ UNCHANGED vars
           \/ \E b \in Blocks : ReceiveNew(b) \/ Located(b) \/ LocatingFails(b)
  BY <1>2, <1>6 DEF Stopping, ReceiveNew, Located, LocatingFails, Mine, Stop, StopGoesOn, StopStep,
     StopCancels, vars, worker
<1> QED BY <1>2, <1>3, <1>4, <1>5, <1>6, <1>7 DEF Next, Syncing, Left

-----------------------------------------------------------------------------
(* The invariant *)

LEMMA InitIInv == Init => IInv
<1> SUFFICES ASSUME Init PROVE IInv
  OBVIOUS
<1>1. TypeOK
  <2>1. queue \in QueueType
    BY DEF Init, NewQueue, QueueType
  <2>2. req \in [from : 0 .. Last, until : 0 .. Last, filter : Nat, best : 0 .. Last,
                 outer : Seq(0 .. Last)]
    BY DEF Init
  <2>3. next \in 1 .. Last + 1 /\ 0 \in 0 .. height /\ height \in Blocks /\ Gap \in Nat
    BY DEF Init
  <2>4. fetch \in [Blocks -> {"none", "asked", "delayed", "failed"}] /\ 0 \in 0 .. MaxFaults
    BY DEF Init
  <2> QED BY <2>1, <2>2, <2>3, <2>4 DEF Init, TypeOK, QueueType
<1>2. StreamInv /\ LeftInv /\ AccountInv
  BY DEF Init, StreamInv, LeftInv, AccountInv
<1>3. queue.waiting = << >> /\ queue.running = {} /\ queue.ear /\ ~queue.threw
  BY DEF Init, NewQueue
<1>4. QueueInv /\ HeadersInv
  BY <1>3 DEF QueueInv, HeadersInv
<1>5. RequestInv
  BY DEF Init, RequestInv
<1>6. PastInv
  BY <1>3 DEF Init, PastInv, PastOrder, InOrder, StoredInOrder, RunsInOrder, WaitsInOrder, StreamInOrder,
     RequestInOrder, Runs
<1> QED BY <1>1, <1>2, <1>4, <1>5, <1>6 DEF IInv

LEMMA StepIInv ==
  ASSUME IInv, [Next]_vars
  PROVE  IInv'
<1> USE DEF IInv
<1>1. TypeOK' /\ StreamInv' /\ AccountInv' /\ RequestInv' /\ HeadersInv'
  BY TypeStep, StreamStep, AccountStep, RequestStep, HeadersStep
<1>4. LeftInv'
  BY LeftStep DEF PastInv, RangeInv
<1>2. QueueInv'
  <2>1. \/ \E c : Takes(c)
        \/ \E j : Ends(j) \/ Turns(j) \/ Drops(j)
        \/ Renews
        \/ UNCHANGED queue
    BY QueueFrame
  <2> QED BY <2>1, QueueStep
<1>3. PastInv'
  <2>1. ASSUME mode' = "historical" PROVE PastOrder'
    <3>1. mode = "historical"
      BY <2>1, PastIsOver
    <3>2. CASE queue.threw
      BY <2>1, <3>1, <3>2, OrderThrew
    <3>3. CASE ~queue.threw /\ Throws
      BY <2>1, <3>1, <3>3, OrderThrows DEF Throws
    <3>4. CASE ~queue.threw /\ ~Throws
      BY <2>1, <3>1, <3>4, OrderStep, ThrewStep DEF PastInv, PastOrder
    <3> QED BY <3>2, <3>3, <3>4
  <2> QED BY <2>1, WorkerStep DEF PastInv, WorkerInv
<1> QED BY <1>1, <1>2, <1>3, <1>4

\* The conjunction of types, streams, queue, ranges, account and order is inductive.
LEMMA InductiveInv == Spec => []IInv
BY InitIInv, StepIInv, PTL DEF Spec

\* Every variable keeps its type: what is asked for lies within the chain, whatever
\* the calls nested in each other have read.
THEOREM TypeCorrect == Spec => []TypeOK
BY InductiveInv, PTL DEF IInv

\* "Limited to one stream at the same time": whoever subscribes has no stream of his
\* own, however the one before ended.  A stream that a job's error has left may still
\* send: none while the past is synced, then one of the past at most, and beside it an
\* incoming one only when the worker has halted.
THEOREM OneStreamOnly == Spec => []OneStream
<1>1. IInv => OneStream
  BY DEF IInv, TypeOK, StreamInv, LeftInv, OneStream
<1> QED BY InductiveInv, <1>1, PTL

\* The queue's listeners start one chunk at a time, whatever jobs throw and whichever
\* streams feed it, and leave none behind unless a job has thrown.
THEOREM ChunksOneByOne == Spec => []OneChunkAtATime
<1>1. IInv => OneChunkAtATime
  BY DEF IInv, QueueInv, OneChunkAtATime
<1> QED BY InductiveInv, <1>1, PTL

\* The block a historical sync starts from again lies behind no payment that the
\* account does not have, to any address there was from the start.
THEOREM NothingPassed == Spec => []NoPaymentPassed
<1>1. IInv => NoPaymentPassed
  <2> SUFFICES ASSUME IInv, mode = "historical", NEW b \in 1 .. hash, pays[b] \in 0 .. Gap - 1
               PROVE  b \in stored
    BY DEF NoPaymentPassed
  <2>1. hash \in 0 .. Last /\ b \in Blocks
    BY DEF IInv, TypeOK
  <2>2. hash \in stored
    BY <2>1 DEF IInv, AccountInv
  <2>3. b = hash \/ b < hash
    BY <2>1
  <2> QED BY <2>1, <2>2, <2>3 DEF IInv, PastInv, PastOrder, InOrder, StoredInOrder, Initial
<1> QED BY InductiveInv, <1>1, PTL

=============================================================================
