-------------------------- MODULE ResultWaitsProofs --------------------------
(***************************************************************************)
(* Proofs about ResultWaits for every number of calls, transitions, blocks *)
(* and faults.  A block that was announced is above the current height, so *)
(* a call that waits for a height hears of it; and whoever fetches a proof *)
(* does so after the block that makes the result provable.                 *)
(***************************************************************************)
EXTENDS ResultWaits, TLAPS

\* Blocks, and what is on its way of them.
ChainInv ==
  /\ \A t \in Txs : block[t] <= height
  /\ \A t \in results : block[t] > 0
  /\ \A h \in blocks : currentHeight < h

\* What a call waits for, and what it has.
WaitsInv ==
  /\ \A c \in Calls : ear[c] # 0 => block[tx[c]] > 0 /\ ear[c] = Provable(tx[c])
  /\ \A c \in Calls : answer[c] = "proving" => block[tx[c]] > 0 /\ Provable(tx[c]) <= height

IInv ==
  /\ TypeOK /\ ChainInv /\ WaitsInv
  /\ ProofShowsResult /\ NoListenerForgotten /\ NoResultMissed

USE WaitsAssumption DEF Heights

-----------------------------------------------------------------------------
(* Lemmas about the promises *)

\* What Resolve leaves: the types, and heights and proofs waited for with reason.
LEMMA Resolved ==
  ASSUME IInv, NEW S \in SUBSET Calls, \A c \in S : block[tx[c]] > 0, Resolve(S)
  PROVE  /\ task' \in [Calls -> {"none", "result", "height", "settled"}]
         /\ ear' \in [Calls -> 0 .. MaxHeight]
         /\ answer' \in [Calls -> {"none", "proving", "ok", "error", "deadline", "rejected"}]
         /\ \A c \in Calls : ear'[c] # 0 =>
              block[tx[c]] > 0 /\ ear'[c] = Provable(tx[c]) /\ currentHeight < ear'[c]
         /\ \A c \in Calls : answer'[c] = "proving" =>
              block[tx[c]] > 0 /\ Provable(tx[c]) <= height
         /\ \A c \in Calls : answer'[c] = "ok" => answer[c] = "ok"
         /\ \A c \in S : task'[c] # "result"
         /\ \A c \in Calls : task'[c] = "result" => task[c] = "result"
         /\ \A c \in Calls : answer'[c] = "none" => answer[c] = "none"
<1> DEFINE resolved == {c \in S : task[c] = "result"}
           failed == {c \in resolved : tx[c] \in invalid}
           reached == {c \in resolved \ failed : currentHeight >= Provable(tx[c])}
           waiting == resolved \ (failed \cup reached)
<1>1. /\ task' = [c \in Calls |-> IF c \in waiting THEN "height"
                                  ELSE IF c \in resolved THEN "settled" ELSE task[c]]
      /\ ear' = [c \in Calls |-> IF c \in waiting THEN Provable(tx[c]) ELSE ear[c]]
      /\ answer' = [c \in Calls |->
                      IF c \in failed THEN (IF answer[c] = "none" THEN "error" ELSE answer[c])
                      ELSE IF c \in reached /\ answer[c] = "none" THEN "proving" ELSE answer[c]]
  <2>1. \A c \in failed : c \in Calls
    OBVIOUS
  <2> QED BY <2>1 DEF Resolve, Answer
<1>2. \A c \in Calls : /\ block[tx[c]] \in 0 .. MaxHeight - 1
                       /\ Provable(tx[c]) = block[tx[c]] + 1
                       /\ ear[c] \in 0 .. MaxHeight
                       /\ currentHeight \in 0 .. height /\ height \in 0 .. MaxHeight
  BY DEF IInv, TypeOK, Provable
<1>3. \A c \in waiting : /\ c \in Calls /\ block[tx[c]] > 0 /\ currentHeight < Provable(tx[c])
                         /\ Provable(tx[c]) \in 1 .. MaxHeight
  BY <1>2
<1>4. \A c \in reached : c \in Calls /\ block[tx[c]] > 0 /\ Provable(tx[c]) <= height
  BY <1>2
<1>5. \A c \in Calls : ear[c] # 0 =>
        block[tx[c]] > 0 /\ ear[c] = Provable(tx[c]) /\ currentHeight < ear[c]
  BY DEF IInv, WaitsInv, NoListenerForgotten
<1>6. \A c \in Calls : answer[c] = "proving" => block[tx[c]] > 0 /\ Provable(tx[c]) <= height
  BY DEF IInv, WaitsInv
<1>7. /\ task \in [Calls -> {"none", "result", "height", "settled"}]
      /\ answer \in [Calls -> {"none", "proving", "ok", "error", "deadline", "rejected"}]
      /\ \A c \in S : c \in Calls
  BY DEF IInv, TypeOK
<1> HIDE DEF resolved, failed, reached, waiting
<1>a. \A c \in S : task[c] = "result" => c \in resolved
  BY DEF resolved
<1>b. waiting \subseteq resolved
  BY DEF waiting
<1>8. task' \in [Calls -> {"none", "result", "height", "settled"}]
  BY <1>1, <1>7
<1>9. ear' \in [Calls -> 0 .. MaxHeight]
  BY <1>1, <1>2, <1>3
<1>10. answer' \in [Calls -> {"none", "proving", "ok", "error", "deadline", "rejected"}]
  BY <1>1, <1>7
<1>11. \A c \in Calls : ear'[c] # 0 =>
         block[tx[c]] > 0 /\ ear'[c] = Provable(tx[c]) /\ currentHeight < ear'[c]
  BY <1>1, <1>3, <1>5
<1>12. \A c \in Calls : answer'[c] = "proving" =>
         block[tx[c]] > 0 /\ Provable(tx[c]) <= height
  BY <1>1, <1>4, <1>6
<1>13. /\ \A c \in Calls : answer'[c] = "ok" => answer[c] = "ok"
       /\ \A c \in Calls : answer'[c] = "none" => answer[c] = "none"
  BY <1>1
<1>14. /\ \A c \in S : task'[c] # "result"
       /\ \A c \in Calls : task'[c] = "result" => task[c] = "result"
  BY <1>1, <1>7, <1>a, <1>b
<1> QED BY <1>8, <1>9, <1>10, <1>11, <1>12, <1>13, <1>14

\* A promise that settles otherwise.
LEMMA Answers ==
  ASSUME TypeOK, NEW S \in SUBSET Calls, NEW a \in {"proving", "error", "deadline", "rejected"}
  PROVE  /\ Answer(S, a) \in
              [Calls -> {"none", "proving", "ok", "error", "deadline", "rejected"}]
         /\ \A c \in Calls : /\ Answer(S, a)[c] = "none" => answer[c] = "none" /\ c \notin S
                             /\ Answer(S, a)[c] = "ok" => answer[c] = "ok"
                             /\ Answer(S, a)[c] = "proving" =>
                                  answer[c] = "proving" \/ (c \in S /\ a = "proving")
  BY DEF Answer, TypeOK

-----------------------------------------------------------------------------
(* Initial states *)

LEMMA InitIInv == Init => IInv
<1> SUFFICES ASSUME Init PROVE IInv
  OBVIOUS
<1>1. TypeOK /\ ChainInv /\ WaitsInv
  BY DEF Init, TypeOK, ChainInv, WaitsInv
<1>2. ProofShowsResult /\ NoListenerForgotten /\ NoResultMissed
  BY DEF Init, ProofShowsResult, NoListenerForgotten, NoResultMissed
<1> QED BY <1>1, <1>2 DEF IInv

-----------------------------------------------------------------------------
(* Tenderdash *)

LEMMA NextBlockIInv == ASSUME IInv, NEW S \in SUBSET Txs, NextBlock(S) PROVE IInv'
<1>0. TypeOK /\ height' = height + 1 /\ height' \in 1 .. MaxHeight
  BY DEF IInv, TypeOK, NextBlock
<1>1. block' \in [Txs -> 0 .. MaxHeight - 1] /\ \A t \in Txs : block'[t] <= height'
  BY <1>0 DEF NextBlock, IInv, ChainInv, TypeOK
<1>2. /\ \A t \in Txs : block[t] > 0 => block'[t] = block[t]
      /\ \A t \in S : block'[t] > 0
      /\ \A t \in Txs : block'[t] = 0 => block[t] = 0
      /\ \A t \in Txs : t \notin S => block'[t] = block[t]
  BY <1>0 DEF NextBlock, TypeOK
<1>3. UNCHANGED <<invalid, indexed, client, currentHeight, calls, late, faults>>
  BY DEF NextBlock
<1>4. \/ blocks' = blocks \cup {height'} /\ results' = results \cup S /\ lost' = lost
      \/ lost' = lost \cup S /\ blocks' = blocks /\ results' = results
  BY DEF NextBlock
<1>a. height \in 0 .. MaxHeight /\ blocks \subseteq 1 .. height /\ results \subseteq Txs
      /\ currentHeight \in 0 .. height /\ lost \subseteq Txs
  BY DEF IInv, TypeOK
<1>b. /\ blocks' \subseteq 1 .. height' /\ results' \subseteq Txs /\ lost' \subseteq Txs
      /\ currentHeight' \in 0 .. height'
  <2>2. ASSUME NEW b \in blocks' PROVE b \in 1 .. height'
    <3>1. b \in blocks \/ b = height'
      BY <1>4
    <3>2. height' = height + 1 /\ height \in Nat
      BY <1>0, <1>a
    <3>3. b \in blocks => b \in 1 .. height
      BY <1>a
    <3> QED BY <3>1, <3>2, <3>3
  <2> QED BY <1>0, <1>3, <1>4, <1>a, <2>2
<1>c. indexed' \subseteq {t \in Txs : block'[t] > 0}
  BY <1>0, <1>2, <1>3 DEF TypeOK
<1>5. TypeOK'
  BY <1>0, <1>1, <1>3, <1>b, <1>c DEF TypeOK, client, calls
<1>6. ChainInv'
  <2>1. ASSUME NEW b \in blocks' PROVE currentHeight' < b
    <3>1. b \in blocks \/ b = height'
      BY <1>4
    <3>2. height' = height + 1 /\ height \in Nat /\ currentHeight \in 0 .. height
      BY <1>0, <1>a
    <3>3. b \in blocks => currentHeight < b
      BY DEF IInv, ChainInv
    <3> QED BY <1>3, <3>1, <3>2, <3>3
  <2>2. \A t \in results' : block'[t] > 0
    BY <1>2, <1>4, <1>a DEF IInv, ChainInv
  <2> QED BY <1>1, <2>1, <2>2 DEF ChainInv
<1>7. \A c \in Calls : tx[c] \in Txs /\ tx'[c] = tx[c]
  BY <1>0, <1>3 DEF TypeOK, calls
<1>8. WaitsInv'
  BY <1>0, <1>2, <1>3, <1>7 DEF IInv, WaitsInv, Provable, calls, TypeOK
<1>9. ProofShowsResult'
  BY <1>0, <1>2, <1>3, <1>7 DEF IInv, ProofShowsResult, calls, TypeOK
<1>10. NoListenerForgotten'
  BY <1>3 DEF IInv, NoListenerForgotten, calls
<1>11. NoResultMissed'
  BY <1>2, <1>3, <1>4, <1>7 DEF IInv, NoResultMissed, calls
<1> QED BY <1>5, <1>6, <1>8, <1>9, <1>10, <1>11 DEF IInv

LEMMA IndexIInv == ASSUME IInv, NEW t \in Txs, Index(t) PROVE IInv'
<1>1. /\ block[t] > 0 /\ indexed' = indexed \cup {t}
      /\ UNCHANGED <<height, block, invalid, client, events, currentHeight, calls, late, faults>>
  BY DEF Index
<1>2. TypeOK'
  BY <1>1 DEF IInv, TypeOK, client, events, calls
<1>3. ChainInv' /\ WaitsInv'
  BY <1>1 DEF IInv, ChainInv, WaitsInv, Provable, events, calls
<1>4. ProofShowsResult' /\ NoListenerForgotten'
  BY <1>1 DEF IInv, ProofShowsResult, NoListenerForgotten, calls
<1>5. NoResultMissed'
  BY <1>1 DEF IInv, NoResultMissed, events, calls
<1> QED BY <1>2, <1>3, <1>4, <1>5 DEF IInv

-----------------------------------------------------------------------------
(* A call *)

LEMMA StartIInv == ASSUME IInv, NEW c \in Calls, Start(c) PROVE IInv'
<1> USE DEF Start
<1>1. TypeOK'
  BY DEF IInv, TypeOK, tenderdash, client, events
<1>2. ChainInv' /\ WaitsInv'
  BY DEF IInv, ChainInv, WaitsInv, Provable, events, tenderdash
<1>3. ProofShowsResult' /\ NoListenerForgotten'
  BY DEF IInv, ProofShowsResult, NoListenerForgotten, tenderdash
<1>4. NoResultMissed'
  BY DEF IInv, NoResultMissed, TypeOK, events, tenderdash
<1> QED BY <1>1, <1>2, <1>3, <1>4 DEF IInv

LEMMA FoundIInv == ASSUME IInv, NEW c \in Calls, Found(c) PROVE IInv'
<1>0. /\ query[c] = "asked" /\ query' = [query EXCEPT ![c] = "answered"]
      /\ tx[c] \in indexed /\ topic' = topic \ {c} /\ Resolve({c})
      /\ UNCHANGED <<tenderdash, client, events, currentHeight, tx, timer, proof, late, faults>>
  BY DEF Found, Answered
<1>1. block[tx[c]] > 0
  BY <1>0 DEF IInv, TypeOK
<1>2. /\ task' \in [Calls -> {"none", "result", "height", "settled"}]
      /\ ear' \in [Calls -> 0 .. MaxHeight]
      /\ answer' \in [Calls -> {"none", "proving", "ok", "error", "deadline", "rejected"}]
      /\ \A d \in Calls : ear'[d] # 0 =>
           block[tx[d]] > 0 /\ ear'[d] = Provable(tx[d]) /\ currentHeight < ear'[d]
      /\ \A d \in Calls : answer'[d] = "proving" =>
           block[tx[d]] > 0 /\ Provable(tx[d]) <= height
      /\ \A d \in Calls : answer'[d] = "ok" => answer[d] = "ok"
      /\ task'[c] # "result"
      /\ \A d \in Calls : task'[d] = "result" => task[d] = "result"
      /\ \A d \in Calls : answer'[d] = "none" => answer[d] = "none"
  BY <1>0, <1>1, Resolved
<1>3. TypeOK'
  BY <1>0, <1>2 DEF IInv, TypeOK, tenderdash, client, events
<1>4. ChainInv' /\ WaitsInv'
  BY <1>0, <1>2 DEF IInv, ChainInv, WaitsInv, Provable, events, tenderdash
<1>5. ProofShowsResult' /\ NoListenerForgotten'
  BY <1>0, <1>2 DEF IInv, ProofShowsResult, NoListenerForgotten, tenderdash
<1>6. NoResultMissed'
  BY <1>0, <1>2 DEF IInv, NoResultMissed, TypeOK, events, tenderdash
<1> QED BY <1>3, <1>4, <1>5, <1>6 DEF IInv

LEMMA NotFoundIInv == ASSUME IInv, NEW c \in Calls, NotFound(c) PROVE IInv'
<1> USE DEF NotFound, Answered
<1>1. TypeOK'
  BY DEF IInv, TypeOK, tenderdash, client, events
<1>2. ChainInv' /\ WaitsInv'
  BY DEF IInv, ChainInv, WaitsInv, Provable, events, tenderdash
<1>3. ProofShowsResult' /\ NoListenerForgotten'
  BY DEF IInv, ProofShowsResult, NoListenerForgotten, tenderdash
<1>4. NoResultMissed'
  BY DEF IInv, NoResultMissed, TypeOK, events, tenderdash
<1> QED BY <1>1, <1>2, <1>3, <1>4 DEF IInv

LEMMA QueryFailsIInv == ASSUME IInv, NEW c \in Calls, QueryFails(c) PROVE IInv'
<1>0. /\ query[c] = "asked" /\ query' = [query EXCEPT ![c] = "answered"]
      /\ UNCHANGED <<tenderdash, client, events, currentHeight, tx, timer, proof, late,
                     topic, ear>>
      /\ faults' \in 0 .. MaxFaults
      /\ \/ /\ task[c] = "result" /\ task' = [task EXCEPT ![c] = "settled"]
            /\ answer' = Answer({c}, "rejected")
         \/ task[c] # "result" /\ task' = task /\ answer' = answer
  BY DEF QueryFails, Answered, Fault, IInv, TypeOK
<1>1. /\ answer' \in [Calls -> {"none", "proving", "ok", "error", "deadline", "rejected"}]
      /\ \A d \in Calls : /\ answer'[d] = "none" => answer[d] = "none"
                          /\ answer'[d] = "ok" => answer[d] = "ok"
                          /\ answer'[d] = "proving" => answer[d] = "proving"
  <2>1. TypeOK /\ {c} \in SUBSET Calls
    BY DEF IInv
  <2>2. CASE answer' = answer
    BY <2>1, <2>2 DEF TypeOK
  <2>3. CASE answer' = Answer({c}, "rejected")
    BY <2>1, <2>3, Answers
  <2> QED BY <1>0, <2>2, <2>3
<1>2. TypeOK'
  BY <1>0, <1>1 DEF IInv, TypeOK, tenderdash, client, events
<1>3. ChainInv' /\ WaitsInv'
  BY <1>0, <1>1 DEF IInv, ChainInv, WaitsInv, Provable, events, tenderdash
<1>4. ProofShowsResult' /\ NoListenerForgotten'
  BY <1>0, <1>1 DEF IInv, ProofShowsResult, NoListenerForgotten, tenderdash
<1>5. NoResultMissed'
  BY <1>0, <1>1 DEF IInv, NoResultMissed, TypeOK, events, tenderdash
<1> QED BY <1>2, <1>3, <1>4, <1>5 DEF IInv

LEMMA TimeoutIInv == ASSUME IInv, NEW c \in Calls, Timeout(c) PROVE IInv'
<1>0. /\ timer' = timer \ {c} /\ topic' = topic \ {c} /\ answer' = Answer({c}, "deadline")
      /\ UNCHANGED <<tenderdash, client, events, currentHeight, tx, query, task, ear, proof, late,
                     faults>>
  BY DEF Timeout
<1>1. /\ answer' \in [Calls -> {"none", "proving", "ok", "error", "deadline", "rejected"}]
      /\ \A d \in Calls : /\ answer'[d] = "none" => answer[d] = "none" /\ d # c
                          /\ answer'[d] = "ok" => answer[d] = "ok"
                          /\ answer'[d] = "proving" => answer[d] = "proving"
  <2>1. TypeOK /\ {c} \in SUBSET Calls
    BY DEF IInv
  <2> QED BY <1>0, <2>1, Answers
<1>2. TypeOK'
  BY <1>0, <1>1 DEF IInv, TypeOK, tenderdash, client, events
<1>3. ChainInv' /\ WaitsInv'
  BY <1>0, <1>1 DEF IInv, ChainInv, WaitsInv, Provable, events, tenderdash
<1>4. ProofShowsResult' /\ NoListenerForgotten'
  BY <1>0, <1>1 DEF IInv, ProofShowsResult, NoListenerForgotten, tenderdash
<1>5. NoResultMissed'
  BY <1>0, <1>1 DEF IInv, NoResultMissed, events, tenderdash
<1> QED BY <1>2, <1>3, <1>4, <1>5 DEF IInv

LEMMA FetchProofIInv == ASSUME IInv, NEW c \in Calls, FetchProof(c) PROVE IInv'
<1>0. /\ answer[c] = "proving" /\ answer' = [answer EXCEPT ![c] = "ok"]
      /\ proof' = [proof EXCEPT ![c] = height - 1]
      /\ UNCHANGED <<tenderdash, client, events, currentHeight, tx, query, task, topic, ear, timer,
                     late, faults>>
  BY DEF FetchProof
<1>1. block[tx[c]] \in 1 .. height - 1 /\ height - 1 \in 0 .. MaxHeight
  BY <1>0 DEF IInv, TypeOK, WaitsInv, Provable
<1>2. TypeOK'
  BY <1>0, <1>1 DEF IInv, TypeOK, tenderdash, client, events
<1>3. ChainInv' /\ WaitsInv'
  BY <1>0 DEF IInv, TypeOK, ChainInv, WaitsInv, Provable, events, tenderdash
<1>4. ProofShowsResult'
  BY <1>0, <1>1 DEF IInv, TypeOK, ProofShowsResult, tenderdash
<1>5. NoListenerForgotten' /\ NoResultMissed'
  BY <1>0 DEF IInv, TypeOK, NoListenerForgotten, NoResultMissed, events, tenderdash
<1> QED BY <1>2, <1>3, <1>4, <1>5 DEF IInv

-----------------------------------------------------------------------------
(* The listener *)

LEMMA DeliverResultIInv == ASSUME IInv, NEW t \in Txs, DeliverResult(t) PROVE IInv'
<1> DEFINE heard == {c \in topic : tx[c] = t}
<1>0. /\ t \in results /\ results' = results \ {t}
      /\ topic' = topic \ heard /\ Resolve(heard)
      /\ UNCHANGED <<tenderdash, client, blocks, lost, currentHeight, tx, query, timer, proof,
                     late, faults>>
  BY DEF DeliverResult
<1>1. heard \in SUBSET Calls /\ \A c \in heard : block[tx[c]] > 0
  BY <1>0 DEF IInv, TypeOK, ChainInv
<1>2. /\ task' \in [Calls -> {"none", "result", "height", "settled"}]
      /\ ear' \in [Calls -> 0 .. MaxHeight]
      /\ answer' \in [Calls -> {"none", "proving", "ok", "error", "deadline", "rejected"}]
      /\ \A d \in Calls : ear'[d] # 0 =>
           block[tx[d]] > 0 /\ ear'[d] = Provable(tx[d]) /\ currentHeight < ear'[d]
      /\ \A d \in Calls : answer'[d] = "proving" =>
           block[tx[d]] > 0 /\ Provable(tx[d]) <= height
      /\ \A d \in Calls : answer'[d] = "ok" => answer[d] = "ok"
      /\ \A c \in heard : task'[c] # "result"
      /\ \A d \in Calls : task'[d] = "result" => task[d] = "result"
      /\ \A d \in Calls : answer'[d] = "none" => answer[d] = "none"
  <2> HIDE DEF heard
  <2> QED BY <1>0, <1>1, Resolved
<1>3. TypeOK'
  BY <1>0, <1>2 DEF IInv, TypeOK, tenderdash, client
<1>4. ChainInv' /\ WaitsInv'
  BY <1>0, <1>2 DEF IInv, ChainInv, WaitsInv, Provable, tenderdash
<1>5. ProofShowsResult' /\ NoListenerForgotten'
  BY <1>0, <1>2 DEF IInv, ProofShowsResult, NoListenerForgotten, tenderdash
<1>6. NoResultMissed'
  BY <1>0, <1>2 DEF IInv, NoResultMissed, TypeOK, tenderdash
<1> QED BY <1>3, <1>4, <1>5, <1>6 DEF IInv

LEMMA DeliverBlockIInv == ASSUME IInv, NEW h \in Heights, DeliverBlock(h) PROVE IInv'
<1> DEFINE heard == {c \in Calls : ear[c] \in 1 .. h}
<1>0. /\ h \in blocks /\ (\A b \in blocks : h <= b) /\ blocks' = blocks \ {h}
      /\ currentHeight' = h
      /\ ear' = [c \in Calls |-> IF c \in heard THEN 0 ELSE ear[c]]
      /\ task' = [c \in Calls |-> IF c \in heard THEN "settled" ELSE task[c]]
      /\ answer' = Answer(heard, "proving")
      /\ UNCHANGED <<tenderdash, client, results, lost, tx, query, topic, timer, proof, late,
                     faults>>
  BY DEF DeliverBlock
<1>1. h \in 1 .. height /\ heard \in SUBSET Calls /\ TypeOK
  BY <1>0 DEF IInv, TypeOK
<1>2. /\ answer' \in [Calls -> {"none", "proving", "ok", "error", "deadline", "rejected"}]
      /\ \A c \in Calls : /\ answer'[c] = "none" => answer[c] = "none" /\ c \notin heard
                          /\ answer'[c] = "ok" => answer[c] = "ok"
                          /\ answer'[c] = "proving" => answer[c] = "proving" \/ c \in heard
  <2> HIDE DEF heard
  <2> QED BY <1>0, <1>1, Answers
<1>3. \A c \in heard : block[tx[c]] > 0 /\ Provable(tx[c]) <= height
  BY <1>1 DEF IInv, WaitsInv, TypeOK, Provable
<1>4. TypeOK'
  BY <1>0, <1>1, <1>2 DEF TypeOK, tenderdash, client
<1>5. ChainInv'
  BY <1>0, <1>1 DEF IInv, ChainInv, TypeOK, tenderdash
<1>6. WaitsInv'
  BY <1>0, <1>2, <1>3 DEF IInv, WaitsInv, Provable, tenderdash
<1>7. ProofShowsResult'
  BY <1>0, <1>2 DEF IInv, ProofShowsResult, tenderdash
<1>8. NoListenerForgotten'
  BY <1>0, <1>1 DEF IInv, NoListenerForgotten, TypeOK
<1>9. NoResultMissed'
  BY <1>0, <1>2 DEF IInv, NoResultMissed, TypeOK, tenderdash
<1> QED BY <1>4, <1>5, <1>6, <1>7, <1>8, <1>9 DEF IInv

-----------------------------------------------------------------------------
(* The websocket *)

\* Whatever else the connection does, its events go with it.
LEMMA DisconnectedIInv ==
  ASSUME IInv, Disconnected, up' \in BOOLEAN, reopens' \in Nat, faults' \in 0 .. MaxFaults,
         ws' \in {"connecting", "open", "closed"}
  PROVE  IInv'
<1> USE DEF Disconnected
<1>1. TypeOK'
  BY DEF IInv, TypeOK, tenderdash, calls
<1>2. ChainInv' /\ WaitsInv'
  BY DEF IInv, ChainInv, WaitsInv, Provable, tenderdash, calls
<1>3. ProofShowsResult' /\ NoListenerForgotten'
  BY DEF IInv, ProofShowsResult, NoListenerForgotten, tenderdash, calls
<1>4. NoResultMissed'
  BY DEF IInv, NoResultMissed, tenderdash, calls
<1> QED BY <1>1, <1>2, <1>3, <1>4 DEF IInv

LEMMA WsClientIInv ==
  ASSUME IInv, (\E normal \in BOOLEAN : Closed(normal)) \/ Refused \/ Fatal \/ Reopen
  PROVE  IInv'
<1>1. up \in BOOLEAN /\ reopens \in Nat /\ faults \in 0 .. MaxFaults
  BY DEF IInv, TypeOK
<1>2. CASE \E normal \in BOOLEAN : Closed(normal)
  BY <1>1, <1>2, DisconnectedIInv DEF Closed, Fault
<1>3. CASE Refused
  BY <1>1, <1>3, DisconnectedIInv DEF Refused, Fault
<1>4. CASE Fatal
  <2>1. /\ Disconnected /\ ws' = "closed" /\ reopens' \in Nat /\ faults' \in 0 .. MaxFaults
        /\ up' = FALSE
    BY <1>1, <1>4 DEF Fatal, Fault
  <2>2. up' \in BOOLEAN
    BY <2>1
  <2> QED BY <2>1, <2>2, DisconnectedIInv
<1>5. CASE Reopen
  BY <1>1, <1>5, DisconnectedIInv DEF Reopen
<1> QED BY <1>2, <1>3, <1>4, <1>5

LEMMA OpenedIInv == ASSUME IInv, Opened PROVE IInv'
<1> USE DEF Opened
<1>1. TypeOK'
  BY DEF IInv, TypeOK, tenderdash, events, calls
<1>2. ChainInv' /\ WaitsInv'
  BY DEF IInv, ChainInv, WaitsInv, Provable, tenderdash, events, calls
<1>3. ProofShowsResult' /\ NoListenerForgotten' /\ NoResultMissed'
  BY DEF IInv, ProofShowsResult, NoListenerForgotten, NoResultMissed, tenderdash, events, calls
<1> QED BY <1>1, <1>2, <1>3 DEF IInv

LEMMA StutterIInv == ASSUME IInv, UNCHANGED vars PROVE IInv'
<1> USE DEF vars, tenderdash, client, events, calls
<1>1. TypeOK'
  BY DEF IInv, TypeOK
<1>2. ChainInv' /\ WaitsInv'
  BY DEF IInv, ChainInv, WaitsInv, Provable
<1>3. ProofShowsResult' /\ NoListenerForgotten' /\ NoResultMissed'
  BY DEF IInv, ProofShowsResult, NoListenerForgotten, NoResultMissed
<1> QED BY <1>1, <1>2, <1>3 DEF IInv

-----------------------------------------------------------------------------
LEMMA StepIInv == IInv /\ [Next]_vars => IInv'
<1> SUFFICES ASSUME IInv, [Next]_vars PROVE IInv'
  OBVIOUS
<1>1. CASE \E S \in SUBSET Txs : NextBlock(S)
  BY <1>1, NextBlockIInv
<1>2. CASE \E t \in Txs : Index(t)
  BY <1>2, IndexIInv
<1>3. CASE \E c \in Calls : Start(c) \/ Serve(c) \/ QueryFails(c) \/ Timeout(c)
  BY <1>3, StartIInv, FoundIInv, NotFoundIInv, FetchProofIInv, QueryFailsIInv, TimeoutIInv
     DEF Serve
<1>4. CASE Deliver
  BY <1>4, DeliverBlockIInv, DeliverResultIInv DEF Deliver
<1>5. CASE (\E normal \in BOOLEAN : Closed(normal)) \/ Refused \/ Fatal \/ Reopen
  BY <1>5, WsClientIInv
<1>6. CASE Opened
  BY <1>6, OpenedIInv
<1>7. CASE UNCHANGED vars
  BY <1>7, StutterIInv
<1> QED BY <1>1, <1>2, <1>3, <1>4, <1>5, <1>6, <1>7 DEF Next

\* The invariant of every reachable state.
THEOREM Invariance == Spec => []IInv
<1> QED BY InitIInv, StepIInv, PTL DEF Spec

\* Every variable keeps its type: no height is heard of before it is there.
THEOREM TypeCorrect == Spec => []TypeOK
<1>1. IInv => TypeOK
  BY DEF IInv
<1> QED BY <1>1, Invariance, PTL

\* A proof handed to a caller is of a block with the caller's transition
\* (waitForTransactionToBeProvable waits for the block after it).
THEOREM ProofsShowResults == Spec => []ProofShowsResult
<1>1. IInv => ProofShowsResult
  BY DEF IInv
<1> QED BY <1>1, Invariance, PTL

\* A call hears of its result unless the event fell between its query and the index
\* or was lost with a connection (waitForTransactionResult, getExistingTransactionResult).
THEOREM ResultsAreHeard == Spec => []NoResultMissed
<1>1. IInv => NoResultMissed
  BY DEF IInv
<1> QED BY <1>1, Invariance, PTL

\* Every listener has a timer or a block to come that takes it off the emitter
\* (waitForTransactionToBeProvable, waitForHeight).
THEOREM ListenersGo == Spec => []NoListenerForgotten
<1>1. IInv => NoListenerForgotten
  BY DEF IInv
<1> QED BY <1>1, Invariance, PTL
=============================================================================
