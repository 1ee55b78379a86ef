------------------------- MODULE CoreChainLocksProofs -------------------------
(***************************************************************************)
(* Proofs about CoreChainLocks for every chain, limit and initial height.  *)
(* Whatever Drive knows of locks is below Core's own; an update's target   *)
(* is locked; and the lists end where the last update ended, never above   *)
(* what the next block asks for.                                           *)
(***************************************************************************)
EXTENDS CoreChainLocks, TLAPS

\* Chain locks seen, under way or committed are locked in Core.
LocksInv ==
  /\ latest <= coreLock /\ answer <= coreLock /\ saved <= coreLock
  /\ \A n \in DOMAIN zmq : zmq[n] <= coreLock
  /\ pc \notin {"down", "asking", "ensuring", "initial"} => Initial <= coreLock

\* What the steps between two blocks leave to the next one.
HeaderInv ==
  /\ saved # 0 => saved >= Initial
  /\ pc \in {"asking", "ensuring", "initial", "connected", "uninitialized"} => header = saved
  /\ pc = "waiting" => request = "beginBlock"
  /\ pc \in {"waiting", "updating", "fetching", "open"} /\ request = "beginBlock"
       => target = header /\ header >= Initial /\ header >= saved
  /\ pc \in {"updating", "fetching"} =>
       /\ Initial <= target /\ target <= coreLock
       /\ request = "info" => target = saved
       /\ request = "initChain" => target = Initial
  /\ pc = "open" => request = "beginBlock" /\ header <= coreLock

\* The lists and the height they were requested for.
ListsInv ==
  /\ pc \in {"asking", "ensuring", "initial", "connected", "uninitialized"} => sml = NoLists
  /\ sml = NoLists => requested = 1
  /\ sml # NoLists => /\ requested = sml.to /\ 1 < sml.to /\ sml.from <= sml.to
                      /\ sml.to <= coreLock
                      /\ \/ sml.to <= Initial
                         \/ sml.to <= saved
                         \/ pc = "open" /\ sml.to <= header
                         \/ pc = "down"
  /\ pc = "fetching" => requested = 1 \/ requested < target
  /\ pc = "open" => sml # NoLists /\ sml.from <= header /\ header <= sml.to

IInv == TypeOK /\ LocksInv /\ HeaderInv /\ ListsInv

USE CoreAssumption DEF Heights

-----------------------------------------------------------------------------
(* The messages on the socket *)

\* A new lock is above all the others.
LEMMA LocksAppended ==
  ASSUME NEW s \in Seq(Heights), NEW h \in Heights, NEW l \in Heights, l <= h,
         \A n \in DOMAIN s : s[n] <= l
  PROVE  Append(s, h) \in Seq(Heights) /\ \A n \in DOMAIN Append(s, h) : Append(s, h)[n] <= h
<1>1. DOMAIN Append(s, h) = 1 .. Len(s) + 1 /\ DOMAIN s = 1 .. Len(s) /\ Len(s) \in Nat
  OBVIOUS
<1>2. \A n \in 1 .. Len(s) : Append(s, h)[n] = s[n] /\ s[n] \in Heights
  OBVIOUS
<1>3. Append(s, h)[Len(s) + 1] = h /\ Append(s, h) \in Seq(Heights)
  OBVIOUS
<1> QED BY <1>1, <1>2, <1>3

\* Taking the first message leaves locks that Core has.
LEMMA LocksTaken ==
  ASSUME NEW s \in Seq(Heights), s # << >>, NEW l \in Heights, \A n \in DOMAIN s : s[n] <= l
  PROVE  /\ Head(s) \in Heights /\ Head(s) <= l /\ Tail(s) \in Seq(Heights)
         /\ \A n \in DOMAIN Tail(s) : Tail(s)[n] <= l
<1>1. Len(s) \in Nat /\ 1 <= Len(s) /\ DOMAIN s = 1 .. Len(s) /\ Head(s) = s[1]
  OBVIOUS
<1>2. Tail(s) \in Seq(Heights) /\ DOMAIN Tail(s) = 1 .. Len(s) - 1
  BY <1>1
<1>3. \A n \in 1 .. Len(s) - 1 : Tail(s)[n] = s[n + 1]
  BY <1>1
<1> QED BY <1>1, <1>2, <1>3

-----------------------------------------------------------------------------
(* Core's steps and faults *)

LEMMA CoreStep ==
  ASSUME IInv, NewBlock \/ NewLock \/ LoseLock \/ Crash
  PROVE  IInv'
<1> USE DEF IInv
<1>1. CASE NewBlock
  BY <1>1 DEF NewBlock, TypeOK, LocksInv, HeaderInv, ListsInv
<1>2. CASE NewLock
  <2> PICK h \in coreLock + 1 .. coreBlocks + 1 :
        /\ h <= MaxCore /\ coreLock' = h
        /\ zmq' = IF pc = "down" THEN zmq ELSE Append(zmq, h)
    BY <1>2 DEF NewLock
  <2>1. UNCHANGED <<coreBlocks, pc, answer, latest, request, header, saved, requested,
                    target, sml, faults>>
    BY <1>2 DEF NewLock
  <2>2. h \in Heights /\ coreLock <= h
    BY DEF TypeOK
  <2>3. Append(zmq, h) \in Seq(Heights) /\ \A n \in DOMAIN Append(zmq, h) : Append(zmq, h)[n] <= h
    BY <2>2, LocksAppended DEF TypeOK, LocksInv
  <2>4. \A n \in DOMAIN zmq : zmq[n] \in Heights
    BY DEF TypeOK
  <2>5. zmq' \in Seq(Heights) /\ \A n \in DOMAIN zmq' : zmq'[n] <= h
    <3>1. CASE pc = "down"
      BY <2>2, <2>4, <3>1 DEF TypeOK, LocksInv
    <3>2. CASE pc # "down"
      BY <2>3, <3>2
    <3> QED BY <3>1, <3>2
  <2>6. TypeOK'
    BY <2>1, <2>2, <2>5 DEF TypeOK
  <2>7. LocksInv'
    BY <2>1, <2>2, <2>5 DEF TypeOK, LocksInv
  <2>8. HeaderInv' /\ ListsInv'
    BY <2>1, <2>2 DEF TypeOK, HeaderInv, ListsInv, Lists, NoLists
  <2> QED BY <2>6, <2>7, <2>8
<1>3. CASE LoseLock
  <2>1. /\ zmq # << >> /\ zmq' = Tail(zmq) /\ faults' \in 0 .. MaxFaults
        /\ UNCHANGED <<core, pc, answer, latest, request, header, saved, requested, target, sml>>
    BY <1>3 DEF LoseLock, Fault, TypeOK
  <2>2. Tail(zmq) \in Seq(Heights) /\ \A n \in DOMAIN Tail(zmq) : Tail(zmq)[n] <= coreLock
    BY <2>1, LocksTaken DEF TypeOK, LocksInv
  <2> QED BY <2>1, <2>2 DEF TypeOK, LocksInv, HeaderInv, ListsInv, core
<1>4. CASE Crash
  <2>1. /\ pc' = "down" /\ zmq' = << >> /\ faults' \in 0 .. MaxFaults
        /\ UNCHANGED <<core, answer, latest, request, header, saved, requested, target, sml>>
    BY <1>4 DEF Crash, Die, Fault, TypeOK
  <2> QED BY <2>1 DEF TypeOK, LocksInv, HeaderInv, ListsInv, core, Steps
<1> QED BY <1>1, <1>2, <1>3, <1>4

-----------------------------------------------------------------------------
(* The start *)

LEMMA StartStep ==
  ASSUME IInv, Start \/ AskCore \/ EnsureBlock \/ FirstLock \/ Listen
  PROVE  IInv'
<1> USE DEF IInv
<1>1. CASE Start
  BY <1>1 DEF Start, TypeOK, LocksInv, HeaderInv, ListsInv, Lists, NoLists, Steps, core
<1>2. CASE AskCore
  BY <1>2 DEF AskCore, TypeOK, LocksInv, HeaderInv, ListsInv, Steps, core
<1>3. CASE EnsureBlock
  BY <1>3 DEF EnsureBlock, TypeOK, LocksInv, HeaderInv, ListsInv, Steps, core
<1>4. CASE FirstLock
  BY <1>4 DEF FirstLock, TypeOK, LocksInv, HeaderInv, ListsInv, Steps, core
<1>5. CASE Listen
  BY <1>5 DEF Listen, TypeOK, LocksInv, HeaderInv, ListsInv, Steps, core
<1> QED BY <1>1, <1>2, <1>3, <1>4, <1>5

\* A wait that ends ends at a lock of the header's height.
LEMMA ReceiveStep ==
  ASSUME IInv, ReceiveLock
  PROVE  IInv'
<1> USE DEF IInv
<1>1. /\ zmq # << >> /\ latest' = Head(zmq) /\ zmq' = Tail(zmq)
      /\ pc' = IF pc = "waiting" /\ latest' >= header THEN "updating" ELSE pc
      /\ UNCHANGED <<core, answer, request, header, saved, requested, target, sml, faults>>
  BY DEF ReceiveLock, Reached
<1>2. /\ latest' \in Heights /\ latest' <= coreLock /\ zmq' \in Seq(Heights)
      /\ \A n \in DOMAIN zmq' : zmq'[n] <= coreLock
  BY <1>1, LocksTaken DEF TypeOK, LocksInv
<1>3. TypeOK'
  BY <1>1, <1>2 DEF TypeOK, Steps, core
<1>4. LocksInv'
  BY <1>1, <1>2 DEF LocksInv, core
<1>5. HeaderInv'
  BY <1>1, <1>2 DEF TypeOK, HeaderInv, core
<1>6. ListsInv'
  BY <1>1 DEF ListsInv, core
<1> QED BY <1>3, <1>4, <1>5, <1>6

-----------------------------------------------------------------------------
(* Requests *)

LEMMA RequestStep ==
  ASSUME IInv, Info \/ InitChain \/ BeginBlock \/ Commit
  PROVE  IInv'
<1> USE DEF IInv
<1>1. CASE Info
  <2>1. /\ pc = "connected" /\ pc' = IF header = 0 THEN "uninitialized" ELSE "updating"
        /\ request' = "info" /\ target' = header
        /\ UNCHANGED <<core, zmq, answer, latest, header, saved, requested, sml, faults>>
    BY <1>1 DEF Info
  <2>2. TypeOK'
    BY <2>1 DEF TypeOK, Steps, core
  <2>3. LocksInv' /\ ListsInv'
    BY <2>1 DEF LocksInv, ListsInv, core
  <2>4. HeaderInv'
    BY <2>1 DEF TypeOK, LocksInv, HeaderInv, core
  <2> QED BY <2>2, <2>3, <2>4
<1>2. CASE InitChain
  BY <1>2 DEF InitChain, TypeOK, LocksInv, HeaderInv, ListsInv, Steps, core
<1>3. CASE BeginBlock
  <2> PICK h \in Initial .. MaxCore :
        /\ saved <= h /\ header' = h /\ target' = h
        /\ pc' = IF latest >= h THEN "updating" ELSE "waiting"
    BY <1>3 DEF BeginBlock
  <2>1. /\ pc = "ready" /\ request' = "beginBlock"
        /\ UNCHANGED <<core, zmq, answer, latest, saved, requested, sml, faults>>
    BY <1>3 DEF BeginBlock
  <2>2. TypeOK'
    BY <2>1 DEF TypeOK, Steps, core
  <2>3. LocksInv' /\ ListsInv'
    BY <2>1 DEF LocksInv, ListsInv, core
  <2>4. HeaderInv'
    BY <2>1 DEF TypeOK, LocksInv, HeaderInv, core
  <2> QED BY <2>2, <2>3, <2>4
<1>4. CASE Commit
  <2>1. /\ pc = "open" /\ pc' = "ready" /\ saved' = header
        /\ UNCHANGED <<core, zmq, answer, latest, request, header, requested, target, sml, faults>>
    BY <1>4 DEF Commit
  <2>2. TypeOK' /\ LocksInv'
    BY <2>1 DEF TypeOK, LocksInv, HeaderInv, Steps, core
  <2>3. HeaderInv'
    BY <2>1 DEF TypeOK, HeaderInv, core
  <2>4. ListsInv'
    BY <2>1 DEF TypeOK, HeaderInv, ListsInv, Lists, NoLists, core
  <2> QED BY <2>2, <2>3, <2>4
<1> QED BY <1>1, <1>2, <1>3, <1>4

-----------------------------------------------------------------------------
(* Updates of the lists *)

LEMMA AnsweredStep == Answered = IF request = "beginBlock" THEN "open" ELSE "ready"
BY DEF Answered

LEMMA UpdateStep ==
  ASSUME IInv, Update
  PROVE  IInv'
<1> USE DEF IInv
<1>1. /\ pc = "updating"
      /\ UNCHANGED <<core, zmq, answer, latest, request, header, saved, target, faults>>
  BY DEF Update
<1>2. CASE StartOver /\ pc' = "fetching"
  <2>1. requested' = 1 /\ sml' = NoLists
    BY <1>2 DEF StartOver
  <2> QED BY <1>1, <1>2, <2>1 DEF TypeOK, LocksInv, HeaderInv, ListsInv, Lists, NoLists, Steps, core
<1>3. CASE /\ UNCHANGED <<requested, sml>>
           /\ pc' = IF requested # 1 /\ UpToDate THEN Answered ELSE "fetching"
  <2>1. pc' \in {"open", "ready", "fetching"} /\ (pc' = "open" => request = "beginBlock")
    BY <1>3, AnsweredStep
  <2>2. TypeOK' /\ LocksInv'
    BY <1>1, <1>3, <2>1 DEF TypeOK, LocksInv, Steps, core
  <2>3. HeaderInv'
    BY <1>1, <1>3, <2>1 DEF TypeOK, HeaderInv, core
  <2>4. CASE requested # 1 /\ UpToDate
    <3>1. requested >= target /\ sml # NoLists
      BY <2>4 DEF UpToDate, ListsInv
    <3>2. pc' = IF request = "beginBlock" THEN "open" ELSE "ready"
      BY <1>3, <2>4, AnsweredStep
    <3> QED BY <1>1, <1>3, <2>2, <2>3, <3>1, <3>2 DEF TypeOK, HeaderInv, ListsInv, Lists, core
  <2>5. CASE ~(requested # 1 /\ UpToDate)
    BY <1>1, <1>3, <2>2, <2>3, <2>5 DEF UpToDate, TypeOK, ListsInv, Lists, core
  <2> QED BY <2>4, <2>5
<1> QED BY <1>2, <1>3 DEF Update

LEMMA FetchedStep ==
  ASSUME IInv, Fetched \/ FetchFails
  PROVE  IInv'
<1> USE DEF IInv
<1>1. CASE Fetched
  <2>1. /\ pc = "fetching" /\ ApplyDiffs
        /\ pc' = IF request = "beginBlock" THEN "open" ELSE "ready"
        /\ UNCHANGED <<core, zmq, answer, latest, request, header, saved, target, faults>>
    BY <1>1, AnsweredStep DEF Fetched
  <2>2. requested' = target /\ sml'.to = target
    BY <2>1 DEF ApplyDiffs
  <2>3. Initial <= target /\ target <= coreLock
    BY <2>1 DEF HeaderInv
  <2>4. sml' \in Lists /\ sml'.from <= target /\ sml' # NoLists
    <3>1. sml' = [from |-> sml'.from, to |-> target] /\ sml'.from \in Heights /\ sml'.from <= target
      BY <2>1, <2>3 DEF ApplyDiffs, TypeOK, ListsInv, Lists, NoLists
    <3> QED BY <2>3, <3>1 DEF TypeOK, Lists, NoLists
  <2>5. TypeOK' /\ LocksInv'
    BY <2>1, <2>2, <2>4 DEF TypeOK, LocksInv, Steps, core
  <2>6. HeaderInv'
    BY <2>1, <2>3 DEF TypeOK, HeaderInv, core
  <2>7. ListsInv'
    BY <2>1, <2>2, <2>3, <2>4 DEF TypeOK, HeaderInv, ListsInv, Lists, core
  <2> QED BY <2>5, <2>6, <2>7
<1>2. CASE FetchFails
  <2>1. /\ pc' = "down" /\ zmq' = << >>
        /\ UNCHANGED <<core, answer, latest, request, header, saved, requested, target, sml, faults>>
    BY <1>2 DEF FetchFails, Die
  <2> QED BY <2>1 DEF TypeOK, LocksInv, HeaderInv, ListsInv, core, Steps
<1> QED BY <1>1, <1>2

-----------------------------------------------------------------------------
(* Theorems *)

LEMMA InductiveInvariant == Spec => []IInv
<1>1. Init => IInv
  BY DEF Init, IInv, TypeOK, LocksInv, HeaderInv, ListsInv, Lists, NoLists, Steps
<1>2. IInv /\ [Next]_vars => IInv'
  <2> SUFFICES ASSUME IInv, [Next]_vars PROVE IInv'
    OBVIOUS
  <2>1. CASE Next
    BY <2>1, CoreStep, StartStep, ReceiveStep, RequestStep, UpdateStep, FetchedStep
       DEF Next, Progress
  <2>2. CASE UNCHANGED vars
    BY <2>2 DEF vars, core, IInv, TypeOK, LocksInv, HeaderInv, ListsInv
  <2> QED BY <2>1, <2>2
<1> QED BY <1>1, <1>2, PTL DEF Spec

\* Every variable keeps its type: requested heights and lists stay within
\* Core's chain.
THEOREM TypeCorrect == Spec => []TypeOK
<1>1. IInv => TypeOK
  BY DEF IInv
<1> QED BY <1>1, InductiveInvariant, PTL

\* beginBlock leaves the masternode list of its header's Core height in place.
THEOREM ListForBlock == Spec => []BlockHasList
<1>1. IInv => BlockHasList
  BY DEF IInv, TypeOK, ListsInv, Lists, BlockHasList
<1> QED BY <1>1, InductiveInvariant, PTL

\* The lists hold nothing that Core might still reorganise away.
THEOREM ListsAreFinal == Spec => []FinalizedLists
<1>1. IInv => FinalizedLists
  BY DEF IInv, ListsInv, FinalizedLists
<1> QED BY <1>1, InductiveInvariant, PTL

\* Initial diffs go into a new store, later ones continue the old one.
THEOREM FetchesFit == Spec => []FetchFitsStore
<1>1. IInv => FetchFitsStore
  BY DEF IInv, ListsInv, FetchFitsStore
<1> QED BY <1>1, InductiveInvariant, PTL

=============================================================================
