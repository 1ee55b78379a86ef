----------------------------- MODULE ResultWaits -----------------------------
(***************************************************************************)
(* DAPI's calls that wait for the result of a state transition             *)
(* (packages/dapi): each listens for the result, asks Tenderdash for one   *)
(* there may be already, waits for the next block, without which Drive     *)
(* proves nothing of it, and has a timeout racing all of that.  Events     *)
(* come over one websocket, which is opened again when it breaks.          *)
(*                                                                         *)
(* Tenderdash and Drive are external.  A block's events are published when *)
(* Drive has committed it, those of blocks and of results without an order *)
(* between them; results are indexed some time later.  Drive's queries see *)
(* the block before the last one.                                          *)
(***************************************************************************)
EXTENDS Integers, FiniteSets

CONSTANTS
  Calls,      \* calls of waitForStateTransitionResult
  Txs,        \* state transitions
  MaxHeight,  \* bound: the last block
  MaxFaults   \* bound: broken connections and failing requests

ASSUME WaitsAssumption == MaxHeight \in Nat \ {0} /\ MaxFaults \in Nat

Heights == 1 .. MaxHeight

VARIABLES
  height,         \* Tenderdash's last block
  block,          \* the blocks of the transactions, 0 before
  invalid,        \* transactions with an error for a result
  indexed,        \* transactions whose results Tenderdash finds
  ws, reopens,    \* WsClient: its websocket, timers that open a new one
  subscribed,     \* Tenderdash knows this connection's queries
  blocks, results,\* events on their way
  up,             \* DAPI's process
  currentHeight,  \* waitForHeight's
  tx,             \* the transaction of a call
  query, task,    \* getExistingTransactionResult; the promise of the result
  topic, ear,     \* calls listening for their result; heights listened for, or 0
  timer,          \* calls whose timeout is still to come
  answer, proof,  \* what the caller gets, and the block the proof is of
  lost, late,     \* ghosts: results whose events were lost; calls that came after
                  \* the event and before the index
  faults

tenderdash == <<height, block, invalid, indexed>>
client == <<ws, reopens, subscribed, up>>
events == <<blocks, results, lost>>
calls == <<tx, query, task, topic, ear, timer, answer, proof>>
vars == <<tenderdash, client, events, currentHeight, calls, late, faults>>

TypeOK ==
  /\ height \in 0 .. MaxHeight /\ block \in [Txs -> 0 .. MaxHeight - 1]
  /\ invalid \subseteq Txs /\ indexed \subseteq {t \in Txs : block[t] > 0}
  /\ ws \in {"connecting", "open", "closed"} /\ reopens \in Nat
  /\ subscribed \in BOOLEAN /\ up \in BOOLEAN
  /\ blocks \subseteq 1 .. height /\ results \subseteq Txs
  /\ currentHeight \in 0 .. height
  /\ tx \in [Calls -> Txs]
  /\ query \in [Calls -> {"none", "asked", "answered"}]
  /\ task \in [Calls -> {"none", "result", "height", "settled"}]
  /\ topic \subseteq Calls /\ ear \in [Calls -> 0 .. MaxHeight] /\ timer \subseteq Calls
  /\ answer \in [Calls -> {"none", "proving", "ok", "error", "deadline", "rejected"}]
  /\ proof \in [Calls -> 0 .. MaxHeight]
  /\ lost \subseteq Txs /\ late \subseteq Calls /\ faults \in 0 .. MaxFaults

\* DAPI serves when its listener has subscribed for the first time.
Init ==
  /\ height = 0 /\ block = [t \in Txs |-> 0] /\ invalid \in SUBSET Txs /\ indexed = {}
  /\ ws = "open" /\ reopens = 0 /\ subscribed = TRUE /\ up = TRUE
  /\ blocks = {} /\ results = {} /\ currentHeight = 0
  /\ tx \in [Calls -> Txs]
  /\ query = [c \in Calls |-> "none"] /\ task = [c \in Calls |-> "none"]
  /\ topic = {} /\ ear = [c \in Calls |-> 0] /\ timer = {}
  /\ answer = [c \in Calls |-> "none"] /\ proof = [c \in Calls |-> 0]
  /\ lost = {} /\ late = {} /\ faults = 0

Fault == faults < MaxFaults /\ faults' = faults + 1

-----------------------------------------------------------------------------
(* Tenderdash *)

\* A block and its events.  Bound: the last block has no transactions, nor does a
\* block without its successor tell a reader anything.
NextBlock(S) ==
  /\ height < MaxHeight /\ height' = height + 1
  /\ S \subseteq {t \in Txs : block[t] = 0} /\ (height' = MaxHeight => S = {})
  /\ block' = [t \in Txs |-> IF t \in S THEN height' ELSE block[t]]
  /\ IF subscribed
     THEN blocks' = blocks \cup {height'} /\ results' = results \cup S /\ UNCHANGED lost
     ELSE lost' = lost \cup S /\ UNCHANGED <<blocks, results>>
  /\ UNCHANGED <<invalid, indexed, client, currentHeight, calls, late, faults>>

Index(t) ==
  /\ block[t] > 0 /\ t \notin indexed
  /\ indexed' = indexed \cup {t}
  /\ UNCHANGED <<height, block, invalid, client, events, currentHeight, calls, late, faults>>

-----------------------------------------------------------------------------
(* A call *)

\* The answer stays what it was first.
Answer(S, a) == [c \in Calls |-> IF c \in S /\ answer[c] = "none" THEN a ELSE answer[c]]

\* Faulty: the block of the result will do.
ProvableAtOnce(t) == block[t]

\* The block whose commitment makes the result provable.
Provable(t) == block[t] + 1

\* The results of the calls S are there: errors are answered, for the others the
\* call waits for the height.  A promise settles once.
Resolve(S) ==
  LET resolved == {c \in S : task[c] = "result"}
      failed == {c \in resolved : tx[c] \in invalid}
      reached == {c \in resolved \ failed : currentHeight >= Provable(tx[c])}
      waiting == resolved \ (failed \cup reached)
  IN  /\ task' = [c \in Calls |-> IF c \in waiting THEN "height"
                                  ELSE IF c \in resolved THEN "settled" ELSE task[c]]
      /\ ear' = [c \in Calls |-> IF c \in waiting THEN Provable(tx[c]) ELSE ear[c]]
      /\ answer' = [c \in Calls |-> IF c \in failed THEN Answer(failed, "error")[c]
                                    ELSE Answer(reached, "proving")[c]]

\* The handler attaches the listener and sends the query in one go.
Start(c) ==
  /\ query[c] = "none"
  /\ query' = [query EXCEPT ![c] = "asked"] /\ task' = [task EXCEPT ![c] = "result"]
  /\ topic' = topic \cup {c} /\ timer' = timer \cup {c}
  /\ late' = IF block[tx[c]] > 0 /\ tx[c] \notin results \cup indexed
             THEN late \cup {c} ELSE late
  /\ UNCHANGED <<tenderdash, client, events, currentHeight, tx, ear, answer, proof, faults>>

Answered(c) ==
  /\ query[c] = "asked" /\ query' = [query EXCEPT ![c] = "answered"]
  /\ UNCHANGED <<tenderdash, client, events, currentHeight, tx, timer, proof, late>>

\* getExistingTransactionResult
Found(c) ==
  /\ Answered(c) /\ tx[c] \in indexed
  /\ topic' = topic \ {c} /\ Resolve({c})
  /\ UNCHANGED faults

\* Faulty: the listener is detached whatever the answer.
NotFoundDetaches(c) ==
  /\ Answered(c) /\ tx[c] \notin indexed
  /\ topic' = topic \ {c}
  /\ UNCHANGED <<task, ear, answer, faults>>

NotFound(c) ==
  /\ Answered(c) /\ tx[c] \notin indexed
  /\ UNCHANGED <<task, topic, ear, answer, faults>>

\* Any other error: the race for the result is lost, the listener stays.
QueryFails(c) ==
  /\ Answered(c) /\ Fault
  /\ IF task[c] = "result"
     THEN task' = [task EXCEPT ![c] = "settled"] /\ answer' = Answer({c}, "rejected")
     ELSE UNCHANGED <<task, answer>>
  /\ UNCHANGED <<topic, ear>>

\* Faulty: a result stops the clock.
TimeoutWithoutResult(c) ==
  /\ c \in timer /\ timer' = timer \ {c}
  /\ topic' = topic \ {c}
  /\ answer' = IF task[c] = "result" THEN Answer({c}, "deadline") ELSE answer
  /\ UNCHANGED <<tenderdash, client, events, currentHeight, tx, query, task, ear, proof, late,
                 faults>>

\* The result's listener goes; the height's does not.
Timeout(c) ==
  /\ c \in timer /\ timer' = timer \ {c}
  /\ topic' = topic \ {c}
  /\ answer' = Answer({c}, "deadline")
  /\ UNCHANGED <<tenderdash, client, events, currentHeight, tx, query, task, ear, proof, late,
                 faults>>

\* fetchProofForStateTransition: Drive answers with the block before its last one.
FetchProof(c) ==
  /\ answer[c] = "proving" /\ answer' = [answer EXCEPT ![c] = "ok"]
  /\ proof' = [proof EXCEPT ![c] = height - 1]
  /\ UNCHANGED <<tenderdash, client, events, currentHeight, tx, query, task, topic, ear, timer,
                 late, faults>>

-----------------------------------------------------------------------------
(* BlockchainListener *)

\* Each listener takes itself off.
DeliverResult(t) ==
  LET heard == {c \in topic : tx[c] = t}
  IN  /\ t \in results /\ results' = results \ {t}
      /\ topic' = topic \ heard /\ Resolve(heard)
      /\ UNCHANGED <<tenderdash, client, blocks, lost, currentHeight, tx, query, timer, proof,
                     late, faults>>

\* Faulty: a listener that has heard its height stays.
DeliverBlockKeeps(h) ==
  LET heard == {c \in Calls : ear[c] \in 1 .. h}
  IN  /\ h \in blocks /\ (\A b \in blocks : h <= b) /\ blocks' = blocks \ {h}
      /\ currentHeight' = h /\ ear' = ear
      /\ task' = [c \in Calls |-> IF c \in heard THEN "settled" ELSE task[c]]
      /\ answer' = Answer(heard, "proving")
      /\ UNCHANGED <<tenderdash, client, results, lost, tx, query, topic, timer, proof, late,
                     faults>>

\* waitForHeight's own listener comes first, then those of the calls.
DeliverBlock(h) ==
  LET heard == {c \in Calls : ear[c] \in 1 .. h}
  IN  /\ h \in blocks /\ (\A b \in blocks : h <= b) /\ blocks' = blocks \ {h}
      /\ currentHeight' = h
      /\ ear' = [c \in Calls |-> IF c \in heard THEN 0 ELSE ear[c]]
      /\ task' = [c \in Calls |-> IF c \in heard THEN "settled" ELSE task[c]]
      /\ answer' = Answer(heard, "proving")
      /\ UNCHANGED <<tenderdash, client, results, lost, tx, query, topic, timer, proof, late,
                     faults>>

-----------------------------------------------------------------------------
(* WsClient *)

\* What is on its way does not arrive.
Disconnected ==
  /\ subscribed' = FALSE /\ blocks' = {} /\ results' = {} /\ lost' = lost \cup results
  /\ UNCHANGED <<tenderdash, currentHeight, calls, late>>

\* 'close' of an open connection: not for good, unless it was a normal one.
Closed(normal) ==
  /\ ws = "open" /\ Fault
  /\ ws' = "closed" /\ reopens' = IF normal THEN reopens ELSE reopens + 1
  /\ Disconnected /\ UNCHANGED up

\* Faulty: a refused connection is not tried again.
RefusedGivesUp ==
  /\ ws = "connecting" /\ Fault
  /\ ws' = "closed"
  /\ Disconnected /\ UNCHANGED <<up, reopens>>

\* 'error' with ECONNREFUSED, then 'close': each opens again later.
Refused ==
  /\ ws = "connecting" /\ Fault
  /\ ws' = "closed" /\ reopens' = reopens + 2
  /\ Disconnected /\ UNCHANGED up

\* Another error ends the process (scripts/api.js).
Fatal ==
  /\ ws # "closed" /\ Fault
  /\ ws' = "closed" /\ up' = FALSE
  /\ Disconnected /\ UNCHANGED reopens

\* open, which drops the websocket there is
Reopen ==
  /\ reopens > 0 /\ reopens' = reopens - 1
  /\ ws' = "connecting"
  /\ Disconnected /\ UNCHANGED <<up, faults>>

\* 'open': every query is subscribed to again.
Opened ==
  /\ ws = "connecting" /\ ws' = "open" /\ subscribed' = TRUE
  /\ UNCHANGED <<tenderdash, reopens, up, events, currentHeight, calls, late, faults>>

-----------------------------------------------------------------------------
Deliver == (\E h \in Heights : DeliverBlock(h)) \/ \E t \in Txs : DeliverResult(t)

Serve(c) == Found(c) \/ NotFound(c) \/ FetchProof(c)

Next ==
  /\ up
  /\ \/ \E S \in SUBSET Txs : NextBlock(S)
     \/ \E t \in Txs : Index(t)
     \/ \E c \in Calls : Start(c) \/ Serve(c) \/ QueryFails(c) \/ Timeout(c)
     \/ Deliver
     \/ \E normal \in BOOLEAN : Closed(normal)
     \/ Refused \/ Fatal \/ Reopen \/ Opened

\* Timers fire, requests are answered, events arrive, and the chain goes on.
FairSpec ==
  /\ Init /\ [][Next]_vars
  /\ WF_vars(up /\ Deliver) /\ WF_vars(up /\ (Reopen \/ Opened))
  /\ WF_vars(up /\ \E S \in SUBSET Txs : NextBlock(S))
  /\ \A c \in Calls : WF_vars(up /\ Serve(c)) /\ WF_vars(up /\ Timeout(c))

Spec == Init /\ [][Next]_vars

-----------------------------------------------------------------------------
\* The proof a caller gets is of a block that has its transition: that is what the
\* wait for the next height is for.
ProofShowsResult ==
  \A c \in Calls : answer[c] = "ok" => block[tx[c]] \in 1 .. proof[c]

\* A call that waits for a result will hear of it: it is not there yet, or on its
\* way to the call's listener, or the query will find it.  Those that hear nothing
\* came between the event and the index, or the event was lost with a connection.
NoResultMissed ==
  \A c \in Calls : task[c] = "result" /\ answer[c] = "none" =>
    LET t == tx[c]
    IN  \/ query[c] = "asked" /\ t \in indexed
        \/ (block[t] = 0 \/ t \in results) /\ c \in topic
        \/ c \in late \/ t \in lost

\* Nobody listens without somebody who takes the listener off: a timer, or a block
\* still to come.
NoListenerForgotten ==
  /\ topic \subseteq timer
  /\ \A c \in Calls : ear[c] # 0 => ear[c] > currentHeight

\* Every call is answered.
CallsAnswered ==
  \A c \in Calls :
    (query[c] # "none") ~> (answer[c] \notin {"none", "proving"} \/ ~up)

\* The connection comes back, unless it was closed in the normal way.
ComesBack == (reopens > 0) ~> (ws = "open" \/ ~up)
=============================================================================
