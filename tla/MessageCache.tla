---------------------------- MODULE MessageCache ----------------------------
(***************************************************************************)
(* The cache of judged messages (core/messagePersist.go).  Every message   *)
(* that got a verdict is stored by its queue id, and an index on its       *)
(* Message-Id finds it again when feedback about it comes in.  Goroutines  *)
(* call Set at any time; a ticker runs prune, which looks for old entries  *)
(* under the read lock and deletes them under the write lock, with the     *)
(* cache unlocked in between.                                              *)
(*                                                                         *)
(* A Go map reads as its zero value where it has no entry, so the maps are *)
(* functions on all ids: size 0 (a nil slice) for a message that is not    *)
(* cached, the empty string for an id that is not indexed.                 *)
(***************************************************************************)
EXTENDS Integers, FiniteSets

CONSTANTS
  QueueIds,      \* the queue ids the MTA gives
  EmptyQueueId,  \* the empty string, which is none of them
  MsgIds,        \* the Message-Ids seen; two messages may share one
  NoMsgId,       \* no entry in msgIdRevIdx
  MaxEntrySize,  \* of one message
  MaxSize,       \* of all the messages cached: 512 MB, whatever the directive
                 \* message-cache-size says
  Retention,     \* the age from which prune may delete, 300 seconds
  MaxClock       \* bound: the clock stops there

ASSUME CacheAssumption ==
  /\ IsFiniteSet(QueueIds)
  /\ EmptyQueueId \notin QueueIds
  /\ NoMsgId \notin MsgIds
  /\ MaxEntrySize \in Nat \ {0}
  /\ MaxSize \in Nat \ {0}
  /\ Retention \in Nat
  /\ MaxClock \in Nat

VARIABLES
  cache,       \* the size of the message cached, its content being abstracted
  age,         \* when it was stored
  msgIdIdx,    \* from Message-Ids to queue ids
  msgIdRevIdx, \* from queue ids to Message-Ids
  size,        \* the sum of the sizes, as the code keeps it
  clock,       \* time.Now().Unix()
  pruning,     \* where prune is
  cutoff,      \* what prune computed from the clock
  prunable     \* the queue ids prune collected and did not delete yet

entryVars == <<cache, age, msgIdIdx, msgIdRevIdx, size>>
pruneVars == <<pruning, cutoff, prunable>>
vars == <<entryVars, clock, pruneVars>>

Cached == {q \in QueueIds : cache[q] # 0}

Init ==
  /\ cache = [q \in QueueIds |-> 0]
  /\ age = [q \in QueueIds |-> 0]
  /\ msgIdIdx = [m \in MsgIds |-> EmptyQueueId]
  /\ msgIdRevIdx = [q \in QueueIds |-> NoMsgId]
  /\ size = 0
  /\ clock = 0
  /\ pruning = "idle"
  /\ cutoff = 0
  /\ prunable = {}
-----------------------------------------------------------------------------
(* _del, whose caller holds the write lock.  The index entry of the        *)
(* message's id goes, whichever message it leads to by now.                *)

\* Mutant of IndexWithout: the entry stays.
IndexKept(q) == msgIdIdx

IndexWithout(q) ==
  IF q \in Cached /\ msgIdRevIdx[q] \in MsgIds
  THEN [msgIdIdx EXCEPT ![msgIdRevIdx[q]] = EmptyQueueId]
  ELSE msgIdIdx

SizeWithout(q) == IF q \in Cached THEN size - cache[q] ELSE size

\* Mutant of Set: the old message is deleted after the new one was indexed.
SetThenDelete(q, m, n) ==
  /\ pruning # "deleting"
  /\ n <= MaxEntrySize
  /\ size + n <= MaxSize
  /\ cache' = [cache EXCEPT ![q] = n]
  /\ age' = [age EXCEPT ![q] = clock]
  /\ msgIdIdx' = [k \in MsgIds |->
       IF q \in Cached /\ k = msgIdRevIdx[q] THEN EmptyQueueId
       ELSE IF k = m THEN q ELSE msgIdIdx[k]]
  /\ msgIdRevIdx' = [msgIdRevIdx EXCEPT ![q] = m]
  /\ size' = SizeWithout(q) + n
  /\ UNCHANGED <<clock, pruneVars>>

\* Set(queueId, msgId, msg), msg being of size n.  One that is too big, or
\* for which there is no room, is not stored; the room that an older message
\* with the same queue id takes is not considered.
Set(q, m, n) ==
  /\ pruning # "deleting"
  /\ n <= MaxEntrySize
  /\ size + n <= MaxSize
  /\ cache' = [cache EXCEPT ![q] = n]
  /\ age' = [age EXCEPT ![q] = clock]
  /\ msgIdIdx' = [IndexWithout(q) EXCEPT ![m] = q]
  /\ msgIdRevIdx' = [msgIdRevIdx EXCEPT ![q] = m]
  /\ size' = SizeWithout(q) + n
  /\ UNCHANGED <<clock, pruneVars>>

\* prune reads the size without a lock, and gives up below half the capacity.
PruneStart ==
  /\ pruning = "idle"
  /\ size >= MaxSize \div 2
  /\ cutoff' = clock - Retention
  /\ pruning' = "scanning"
  /\ UNCHANGED <<entryVars, clock, prunable>>

\* Mutant of PruneScan: it collects the young ones.
PruneScanYoung ==
  /\ pruning = "scanning"
  /\ prunable' = {q \in Cached : age[q] > cutoff}
  /\ pruning' = IF prunable' = {} THEN "idle" ELSE "locking"
  /\ UNCHANGED <<entryVars, clock, cutoff>>

\* Under the read lock.
PruneScan ==
  /\ pruning = "scanning"
  /\ prunable' = {q \in Cached : age[q] < cutoff}
  /\ pruning' = IF prunable' = {} THEN "idle" ELSE "locking"
  /\ UNCHANGED <<entryVars, clock, cutoff>>

PruneLock ==
  /\ pruning = "locking"
  /\ pruning' = "deleting"
  /\ UNCHANGED <<entryVars, clock, cutoff, prunable>>

PruneDelete(q) ==
  /\ pruning = "deleting"
  /\ q \in prunable
  /\ prunable' = prunable \ {q}
  /\ cache' = [cache EXCEPT ![q] = 0]
  /\ age' = [age EXCEPT ![q] = 0]
  /\ msgIdIdx' = IndexWithout(q)
  /\ msgIdRevIdx' = [msgIdRevIdx EXCEPT ![q] = NoMsgId]
  /\ size' = SizeWithout(q)
  /\ UNCHANGED <<clock, pruning, cutoff>>

PruneUnlock ==
  /\ pruning = "deleting"
  /\ prunable = {}
  /\ pruning' = "idle"
  /\ UNCHANGED <<entryVars, clock, cutoff, prunable>>

Prune ==
  \/ PruneStart \/ PruneScan \/ PruneLock \/ PruneUnlock
  \/ \E q \in QueueIds : PruneDelete(q)

Tick ==
  /\ clock < MaxClock
  /\ clock' = clock + 1
  /\ UNCHANGED <<entryVars, pruneVars>>

Next ==
  \/ \E q \in QueueIds, m \in MsgIds, n \in 1 .. MaxEntrySize + 1 : Set(q, m, n)
  \/ Prune
  \/ Tick

Spec == Init /\ [][Next]_vars

(***************************************************************************)
(* The ticker of messagePersistStart runs prune every 30 seconds for as    *)
(* long as the program lives.  No message has to arrive.                   *)
(***************************************************************************)
FairSpec == Spec /\ WF_vars(Prune)
-----------------------------------------------------------------------------
\* GetByMessageId: an id that is not indexed reads the cache at "".
Lookup(m) ==
  IF msgIdIdx[m] \in Cached THEN {msgIdIdx[m]} ELSE {}

(* Every variable has its type.                                            *)
TypeOK ==
  /\ cache \in [QueueIds -> 0 .. MaxEntrySize]
  /\ age \in [QueueIds -> 0 .. MaxClock]
  /\ msgIdIdx \in [MsgIds -> QueueIds \cup {EmptyQueueId}]
  /\ msgIdRevIdx \in [QueueIds -> MsgIds \cup {NoMsgId}]
  /\ size \in Int
  /\ clock \in 0 .. MaxClock
  /\ pruning \in {"idle", "scanning", "locking", "deleting"}
  /\ cutoff \in Int
  /\ prunable \in SUBSET QueueIds

(* The four maps agree: an index entry leads to a message that is cached   *)
(* and was stored under that very Message-Id, however the sets and the two *)
(* halves of prune interleave.  Feedback is never applied to the wrong     *)
(* message, and nothing that was pruned is still indexed.                  *)
IndexCoherent ==
  /\ \A m \in MsgIds :
       msgIdIdx[m] # EmptyQueueId =>
         msgIdIdx[m] \in Cached /\ msgIdRevIdx[msgIdIdx[m]] = m
  /\ \A q \in QueueIds : q \in Cached <=> msgIdRevIdx[q] # NoMsgId

\* One token for every unit of every message cached, c being their sizes.
UnitsOf(c) == {u \in QueueIds \X (1 .. MaxEntrySize) : u[2] <= c[u[1]]}

(* The counter is exactly what the messages take, so it never wraps below  *)
(* zero (it is unsigned), and they never take more than the capacity.      *)
SizeExact == size = Cardinality(UnitsOf(cache)) /\ size <= MaxSize

(* The maps agree, and the counter with them.                              *)
CacheCoherent == IndexCoherent /\ SizeExact

(* A message that is cached stays findable by its Message-Id, unless       *)
(* another message with the same id is stored or deleted: only then is the *)
(* index entry taken from it.                                              *)
FindableUnlessShared ==
  [][\A q \in QueueIds : \A m \in MsgIds :
       Lookup(m) = {q} /\ Lookup(m)' # {q} /\ q \in Cached' /\ msgIdRevIdx'[q] = m =>
         \E p \in QueueIds \ {q} : m \in {msgIdRevIdx[p], msgIdRevIdx'[p]}]_vars

Stale(q) == q \in Cached /\ age[q] < clock - Retention

(* A cache that is half full gets rid of every message that is older than  *)
(* the retention: a refused Set is not refused forever.                    *)
StaleIsPruned ==
  \A q \in QueueIds :
    Stale(q) /\ size >= MaxSize \div 2 ~> ~Stale(q) \/ size < MaxSize \div 2
=============================================================================
