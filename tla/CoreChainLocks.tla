---------------------------- MODULE CoreChainLocks ----------------------------
(***************************************************************************)
(* How Drive follows Dash Core (packages/js-drive/lib/core and             *)
(* scripts/abci.js): the latest chain lock, which comes from a call at the *)
(* start and from ZMQ messages after that, beginBlock's wait for the chain *)
(* lock of its header, and the simplified masternode lists, which are      *)
(* fetched diff by diff up to that height.                                 *)
(*                                                                         *)
(* Core is external: it processes blocks, learns chain locks, the one of a *)
(* block possibly before the block, and publishes them on a socket whose   *)
(* messages may be lost.  Heights are Core's.  Drive handles one request   *)
(* at a time; Tenderdash restarting alone is left to BlockExecution.       *)
(***************************************************************************)
EXTENDS Integers, Sequences

CONSTANTS
  Limit,    \* smlMaxListsLimit
  Initial,  \* initialCoreChainLockedHeight
  MaxCore,  \* bound: Core's last block
  Faults, MaxFaults \* bound: faults of a behaviour, and their kinds

ASSUME CoreAssumption ==
  /\ Limit \in Nat /\ Initial \in Nat /\ MaxCore \in Nat /\ MaxFaults \in Nat
  /\ 0 < Limit /\ Limit < Initial /\ Initial <= MaxCore

Heights == 0 .. MaxCore

\* The masternode lists from one height to another; the store before its first.
NoLists == [from |-> 0, to |-> 0]
Lists == [from : Heights, to : Heights]

VARIABLES
  coreBlocks, \* Core's last block
  coreLock,   \* Core's best chain lock, 0 without one
  zmq,        \* chain locks on their way to Drive
  pc,         \* what the process is at
  answer,     \* the chain lock Core answered with at the start, 0 without one
  latest,     \* latestCoreChainLock
  request,    \* the handler that updates the lists
  header,     \* coreChainLockedHeight of the header in the context
  saved,      \* the same of the last committed block
  requested,  \* latestRequestedHeight: 1 means first block
  target,     \* the height an update fetches diffs up to
  sml,        \* simplifiedMasternodeList
  faults

core == <<coreBlocks, coreLock>>
vars == <<core, zmq, pc, answer, latest, request, header, saved, requested, target, sml, faults>>

Steps == {"down", "asking", "ensuring", "initial", "connected", "uninitialized", "ready",
          "waiting", "updating", "fetching", "open"}

TypeOK ==
  /\ coreBlocks \in Heights /\ coreLock \in Heights /\ zmq \in Seq(Heights)
  /\ pc \in Steps /\ request \in {"info", "initChain", "beginBlock"}
  /\ answer \in Heights /\ latest \in Heights
  /\ header \in Heights /\ saved \in Heights /\ target \in Heights
  /\ requested \in Heights /\ sml \in Lists /\ faults \in 0 .. MaxFaults

Init ==
  /\ coreBlocks = 0 /\ coreLock = 0 /\ zmq = << >>
  /\ pc = "down" /\ request = "info" /\ answer = 0 /\ latest = 0
  /\ header = 0 /\ saved = 0 /\ requested = 1 /\ target = 0 /\ sml = NoLists
  /\ faults = 0

Fault(f) == f \in Faults /\ faults < MaxFaults /\ faults' = faults + 1

-----------------------------------------------------------------------------
(* Core *)

NewBlock ==
  /\ coreBlocks < MaxCore
  /\ coreBlocks' = coreBlocks + 1
  /\ UNCHANGED <<coreLock, zmq, pc, answer, latest, request, header, saved, requested,
                 target, sml, faults>>

\* Locks go on for ever: the model's last one is not the one that an older
\* answer of the start replaces.
Overwritten == pc = "asking" \/ (pc = "ensuring" /\ answer # 0)

\* A block's lock may come before the block; it is published to subscribers.
NewLock ==
  /\ \E h \in coreLock + 1 .. coreBlocks + 1 :
       /\ h <= MaxCore /\ (h = MaxCore => ~Overwritten)
       /\ coreLock' = h
       /\ zmq' = IF pc = "down" THEN zmq ELSE Append(zmq, h)
  /\ UNCHANGED <<coreBlocks, pc, answer, latest, request, header, saved, requested,
                 target, sml, faults>>

\* The socket drops a message; the model's last lock comes through.
LoseLock ==
  /\ zmq # << >> /\ Head(zmq) < MaxCore /\ Fault("loss")
  /\ zmq' = Tail(zmq)
  /\ UNCHANGED <<core, pc, answer, latest, request, header, saved, requested, target, sml>>

-----------------------------------------------------------------------------
(* Faulty variants of what follows, for the mutation runs *)

\* The listener resolves with the next chain lock, whatever its height.
ReachedByAny(h) == TRUE

\* A wait begins even if the height was reached.
BeginBlockAlwaysWaits ==
  /\ pc = "ready"
  /\ \E h \in Initial .. MaxCore : saved <= h /\ header' = h /\ target' = h
  /\ request' = "beginBlock" /\ pc' = "waiting"
  /\ UNCHANGED <<core, zmq, answer, latest, saved, requested, sml, faults>>

\* The old lists are kept when they are too old to go on from.
StartOverKeepsLists == target - requested > Limit /\ requested' = 1 /\ sml' = sml

\* The diffs are taken for known.
UpToDateUpToLimit == target - requested <= Limit

\* The height is advanced by what was asked for instead of set.
ApplyAdvances ==
  /\ sml' = [from |-> target - Limit, to |-> target]
  /\ requested' = requested + target

-----------------------------------------------------------------------------
(* The start of the process *)

Die == pc' = "down" /\ zmq' = << >>

Crash ==
  /\ pc # "down" /\ Fault("crash")
  /\ Die
  /\ UNCHANGED <<core, answer, latest, request, header, saved, requested, target, sml>>

\* The context comes back from disk, Drive subscribes, then asks Core.
Start ==
  /\ pc = "down"
  /\ pc' = "asking" /\ header' = saved
  /\ latest' = 0 /\ answer' = 0 /\ requested' = 1 /\ sml' = NoLists
  /\ UNCHANGED <<core, zmq, request, saved, target, faults>>

\* getBestChainLock: its answer is handled after messages that overtake it.
AskCore ==
  /\ pc = "asking"
  /\ answer' = coreLock
  /\ pc' = "ensuring"
  /\ UNCHANGED <<core, zmq, latest, request, header, saved, requested, target, sml, faults>>

\* ensureBlock: the block is there or its message is awaited; the answer then
\* replaces whatever lock came in between.
EnsureBlock ==
  /\ pc = "ensuring" /\ answer # 0
  /\ coreBlocks >= answer
  /\ latest' = answer
  /\ pc' = "initial"
  /\ UNCHANGED <<core, zmq, answer, request, header, saved, requested, target, sml, faults>>

\* There was no lock: the first one from the socket is awaited.
FirstLock ==
  /\ pc = "ensuring" /\ answer = 0
  /\ latest # 0
  /\ pc' = "initial"
  /\ UNCHANGED <<core, zmq, answer, latest, request, header, saved, requested, target, sml,
                 faults>>

\* The server listens once the initial height is locked.
Listen ==
  /\ pc = "initial" /\ latest >= Initial
  /\ pc' = "connected"
  /\ UNCHANGED <<core, zmq, answer, latest, request, header, saved, requested, target, sml,
                 faults>>

\* waitForChainLockedHeight's condition.
Reached(h) == latest' >= h

\* A message updates the latest lock and ends a wait for its height.
ReceiveLock ==
  /\ pc # "down" /\ zmq # << >>
  /\ latest' = Head(zmq) /\ zmq' = Tail(zmq)
  /\ pc' = IF pc = "waiting" /\ Reached(header) THEN "updating" ELSE pc
  /\ UNCHANGED <<core, answer, request, header, saved, requested, target, sml, faults>>

-----------------------------------------------------------------------------
(* Requests *)

\* infoHandler: the lists follow the context's header, if there is one.
Info ==
  /\ pc = "connected"
  /\ pc' = IF header = 0 THEN "uninitialized" ELSE "updating"
  /\ request' = "info" /\ target' = header
  /\ UNCHANGED <<core, zmq, answer, latest, header, saved, requested, sml, faults>>

InitChain ==
  /\ pc = "uninitialized"
  /\ pc' = "updating"
  /\ request' = "initChain" /\ target' = Initial
  /\ UNCHANGED <<core, zmq, answer, latest, header, saved, requested, sml, faults>>

\* The header is set before the wait for its lock; the network's locks may be
\* ahead of this node's, and blocks never go back to an older one.
BeginBlock ==
  /\ pc = "ready"
  /\ \E h \in Initial .. MaxCore :
       /\ saved <= h
       /\ header' = h /\ target' = h
       /\ pc' = IF latest >= h THEN "updating" ELSE "waiting"
  /\ request' = "beginBlock"
  /\ UNCHANGED <<core, zmq, answer, latest, saved, requested, sml, faults>>

\* What follows an update.
Answered ==
  CASE request = "beginBlock" -> "open"
    [] OTHER                  -> "ready"

\* updateSimplifiedMasternodeList: lists that are too old are dropped.
StartOver == target - requested > Limit /\ requested' = 1 /\ sml' = NoLists

UpToDate == requested >= target

Update ==
  /\ pc = "updating"
  /\ \/ StartOver /\ pc' = "fetching"
     \/ /\ target - requested <= Limit
        /\ UNCHANGED <<requested, sml>>
        /\ pc' = IF requested # 1 /\ UpToDate THEN Answered ELSE "fetching"
  /\ UNCHANGED <<core, zmq, answer, latest, request, header, saved, target, faults>>

\* The diffs, the first one up to Limit heights below if all are new, go into a
\* new store or one by one into the old one, which keeps the last ones.
ApplyDiffs ==
  /\ sml' = [from |-> IF sml # NoLists /\ sml.from >= target - Limit THEN sml.from
                      ELSE IF sml = NoLists /\ requested # 1 THEN requested
                      ELSE target - Limit,
             to |-> target]
  /\ requested' = target

\* All diffs have come.
Fetched ==
  /\ pc = "fetching" /\ coreBlocks >= target
  /\ ApplyDiffs
  /\ pc' = Answered
  /\ UNCHANGED <<core, zmq, answer, latest, request, header, saved, target, faults>>

\* Core does not know a block: the handler throws and the process ends.
FetchFails ==
  /\ pc = "fetching" /\ coreBlocks < target
  /\ Die
  /\ UNCHANGED <<core, answer, latest, request, header, saved, requested, target, sml, faults>>

\* The rest of the block.
Commit ==
  /\ pc = "open"
  /\ saved' = header
  /\ pc' = "ready"
  /\ UNCHANGED <<core, zmq, answer, latest, request, header, requested, target, sml, faults>>

Progress ==
  \/ Start \/ AskCore \/ EnsureBlock \/ FirstLock \/ Listen
  \/ Info \/ InitChain \/ BeginBlock \/ Update \/ Fetched \/ FetchFails \/ Commit

Next == Progress \/ NewBlock \/ NewLock \/ ReceiveLock \/ LoseLock \/ Crash

Spec == Init /\ [][Next]_vars

\* Core goes on with its chain, the supervisor restarts the process, Node.js
\* runs its callbacks and Tenderdash sends its requests.
Fairness ==
  WF_vars(NewBlock) /\ WF_vars(NewLock) /\ WF_vars(ReceiveLock) /\ WF_vars(Progress)

FairSpec == Spec /\ Fairness

-----------------------------------------------------------------------------
(* Properties *)

\* A block runs with the masternode list of its header's Core height.
BlockHasList == pc = "open" => header \in sml.from .. sml.to /\ sml # NoLists

\* Lists are only taken up to chain locked heights, so that no reorganisation
\* of Core's chain makes them wrong, through restarts and lost messages.
FinalizedLists == sml # NoLists => sml.to <= coreLock

\* What is being fetched fits the store: the initial diffs a new one, the
\* diffs since the last request the one that ends there.
FetchFitsStore ==
  pc = "fetching" => IF requested = 1 THEN sml = NoLists
                                      ELSE sml # NoLists /\ sml.to = requested

\* Chain locks and blocks come, at the latest after a restart: every wait for
\* them ends, and Drive is ready for the next block again and again.
KeepsServing == []<>(pc = "ready")
=============================================================================
