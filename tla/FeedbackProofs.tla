--------------------------- MODULE FeedbackProofs ----------------------------
(***************************************************************************)
(* Proofs about MessageCache and about Feedback.                           *)
(*                                                                         *)
(* The message cache keeps its four maps and its size counter consistent,  *)
(* for any number of messages, sizes and interleavings of Set and prune.   *)
(* What is learnt from bounces is what was reported, and nothing is done   *)
(* about a bounce that is not on record, for any number of processes,      *)
(* instances and bounces.  What makes this inductive is that every call,   *)
(* wherever it is, says what is true of its bounce from then on, and that  *)
(* a call is only ever passed on by a process that it is for.              *)
(***************************************************************************)
EXTENDS Feedback, FiniteSetTheorems, TLAPS

(* Every step of the specification keeps every variable in its type.       *)
THEOREM TypeCorrect == Spec => []TypeOK
<1>1. Init => TypeOK
  BY CacheAssumption DEF Init, TypeOK
<1>2. TypeOK /\ [Next]_vars => TypeOK'
  <2> SUFFICES ASSUME TypeOK, [Next]_vars
               PROVE  TypeOK'
    OBVIOUS
  <2> USE CacheAssumption DEF TypeOK
  <2>1. ASSUME NEW q \in QueueIds, NEW m \in MsgIds,
               NEW n \in 1 .. MaxEntrySize + 1, Set(q, m, n)
        PROVE  TypeOK'
    <3>1. n \in 0 .. MaxEntrySize
      BY <2>1 DEF Set
    <3>2. IndexWithout(q) \in [MsgIds -> QueueIds \cup {EmptyQueueId}]
      BY DEF IndexWithout
    <3>3. SizeWithout(q) \in Int
      BY DEF SizeWithout
    <3>4. QED
      BY <2>1, <3>1, <3>2, <3>3 DEF Set, pruneVars
  <2>2. ASSUME NEW q \in QueueIds, PruneDelete(q)
        PROVE  TypeOK'
    <3>1. IndexWithout(q) \in [MsgIds -> QueueIds \cup {EmptyQueueId}]
      BY DEF IndexWithout
    <3>2. SizeWithout(q) \in Int
      BY DEF SizeWithout
    <3>3. QED
      BY <2>2, <3>1, <3>2 DEF PruneDelete
  <2>3. CASE PruneStart
    BY <2>3 DEF PruneStart, entryVars
  <2>4. CASE PruneScan
    BY <2>4 DEF PruneScan, entryVars, Cached
  <2>5. CASE PruneLock \/ PruneUnlock
    BY <2>5 DEF PruneLock, PruneUnlock, entryVars
  <2>6. CASE Tick
    BY <2>6 DEF Tick, entryVars, pruneVars
  <2>7. CASE UNCHANGED vars
    BY <2>7 DEF vars, entryVars, pruneVars
  <2>8. QED
    BY <2>1, <2>2, <2>3, <2>4, <2>5, <2>6, <2>7 DEF Next, Prune
<1>3. QED
  BY <1>1, <1>2, PTL DEF Spec

-----------------------------------------------------------------------------
(* The step lemma of IndexCoherent: Set and _del clear the index entry of  *)
(* the message they replace before they write another.                     *)
LEMMA IndexStep ==
  ASSUME TypeOK, TypeOK', IndexCoherent, [Next]_vars
  PROVE  IndexCoherent'
<1> USE CacheAssumption DEF TypeOK, IndexCoherent, Cached
<1>1. ASSUME NEW q \in QueueIds, NEW m \in MsgIds,
             NEW n \in 1 .. MaxEntrySize + 1, Set(q, m, n)
      PROVE  IndexCoherent'
  <2>1. /\ cache' = [cache EXCEPT ![q] = n]
        /\ msgIdRevIdx' = [msgIdRevIdx EXCEPT ![q] = m]
        /\ msgIdIdx' = [IndexWithout(q) EXCEPT ![m] = q]
        /\ IndexWithout(q) \in [MsgIds -> QueueIds \cup {EmptyQueueId}]
    BY <1>1 DEF Set, IndexWithout
  <2>2. ASSUME NEW k \in MsgIds, msgIdIdx'[k] # EmptyQueueId
        PROVE  msgIdIdx'[k] \in Cached' /\ msgIdRevIdx'[msgIdIdx'[k]] = k
    <3>1. CASE k = m
      BY <2>1, <3>1
    <3>2. CASE k # m
      <4>1. msgIdIdx'[k] = msgIdIdx[k] /\ msgIdIdx[k] # EmptyQueueId
        BY <2>1, <2>2, <3>2 DEF IndexWithout
      <4>2. msgIdIdx[k] # q
        BY <2>1, <2>2, <3>2, <4>1 DEF IndexWithout
      <4>3. QED
        BY <2>1, <4>1, <4>2
    <3>3. QED
      BY <3>1, <3>2
  <2>3. \A p \in QueueIds : p \in Cached' <=> msgIdRevIdx'[p] # NoMsgId
    BY <2>1
  <2>4. QED
    BY <2>2, <2>3
<1>2. ASSUME NEW q \in QueueIds, PruneDelete(q)
      PROVE  IndexCoherent'
  <2>1. /\ cache' = [cache EXCEPT ![q] = 0]
        /\ msgIdRevIdx' = [msgIdRevIdx EXCEPT ![q] = NoMsgId]
        /\ msgIdIdx' = IndexWithout(q)
    BY <1>2 DEF PruneDelete
  <2>2. ASSUME NEW k \in MsgIds, msgIdIdx'[k] # EmptyQueueId
        PROVE  msgIdIdx'[k] \in Cached' /\ msgIdRevIdx'[msgIdIdx'[k]] = k
    <3>1. msgIdIdx'[k] = msgIdIdx[k] /\ msgIdIdx[k] # EmptyQueueId
      BY <2>1, <2>2 DEF IndexWithout
    <3>2. msgIdIdx[k] # q
      BY <2>1, <2>2, <3>1 DEF IndexWithout
    <3>3. QED
      BY <2>1, <3>1, <3>2
  <2>3. \A p \in QueueIds : p \in Cached' <=> msgIdRevIdx'[p] # NoMsgId
    BY <2>1
  <2>4. QED
    BY <2>2, <2>3
<1>3. CASE UNCHANGED entryVars
  BY <1>3 DEF entryVars
<1>4. QED
  BY <1>1, <1>2, <1>3
     DEF Next, Prune, PruneStart, PruneScan, PruneLock, PruneUnlock, Tick, vars

(* An index entry always leads to the message stored under that Message-Id. *)
THEOREM IndexCorrect == Spec => []IndexCoherent
<1>1. Init => IndexCoherent
  BY CacheAssumption DEF Init, IndexCoherent, Cached
<1>2. QED
  BY <1>1, TypeCorrect, IndexStep, PTL DEF Spec

-----------------------------------------------------------------------------
(* The units of one message can be counted apart from those of the others. *)
LEMMA UnitsSplit ==
  ASSUME NEW c \in [QueueIds -> 0 .. MaxEntrySize], NEW q \in QueueIds
  PROVE  LET rest == UnitsOf([c EXCEPT ![q] = 0])
         IN  /\ Cardinality(UnitsOf(c)) \in Nat
             /\ Cardinality(rest) \in Nat
             /\ Cardinality(UnitsOf(c)) = Cardinality(rest) + c[q]
<1> DEFINE rest == UnitsOf([c EXCEPT ![q] = 0])
           own == {q} \X (1 .. c[q])
<1>1. IsFiniteSet(QueueIds \X (1 .. MaxEntrySize))
  <2>1. IsFiniteSet(1 .. MaxEntrySize)
    BY CacheAssumption, FS_Interval
  <2>2. QED
    BY <2>1, CacheAssumption, FS_Product
<1>2. IsFiniteSet(UnitsOf(c)) /\ IsFiniteSet(rest)
  BY <1>1, FS_Subset DEF UnitsOf
<1>3. IsFiniteSet(own) /\ Cardinality(own) = c[q]
  <2>1. IsFiniteSet({q}) /\ Cardinality({q}) = 1
    BY FS_Singleton
  <2>2. IsFiniteSet(1 .. c[q]) /\ Cardinality(1 .. c[q]) = c[q]
    BY FS_Interval
  <2>3. QED
    BY <2>1, <2>2, FS_Product
<1>4. UnitsOf(c) = rest \cup own
  <2>1. ASSUME NEW u \in UnitsOf(c)
        PROVE  u \in rest \cup own
    BY <2>1 DEF UnitsOf
  <2>2. ASSUME NEW u \in rest
        PROVE  u \in UnitsOf(c)
    BY <2>2 DEF UnitsOf
  <2>3. ASSUME NEW u \in own
        PROVE  u \in UnitsOf(c)
    BY <2>3, CacheAssumption DEF UnitsOf
  <2>4. QED
    BY <2>1, <2>2, <2>3
<1>5. rest \cap own = {}
  BY DEF UnitsOf
<1>6. Cardinality(rest \cap own) = 0
  BY <1>5, FS_EmptySet
<1>7. Cardinality(UnitsOf(c)) = Cardinality(rest) + Cardinality(own) - Cardinality(rest \cap own)
  BY <1>2, <1>3, <1>4, FS_Union
<1>8. Cardinality(rest) \in Nat /\ Cardinality(UnitsOf(c)) \in Nat
  BY <1>2, FS_CardinalityType
<1>9. QED
  BY <1>3, <1>6, <1>7, <1>8

(* The step lemma of SizeExact.  Set and prune change one message at a     *)
(* time, and take its old size off the counter first.                      *)
LEMMA SizeStep ==
  ASSUME TypeOK, TypeOK', SizeExact, [Next]_vars
  PROVE  SizeExact'
<1> USE CacheAssumption DEF TypeOK
<1>1. ASSUME NEW q \in QueueIds, NEW n \in 0 .. MaxEntrySize,
             cache' = [cache EXCEPT ![q] = n], size' = SizeWithout(q) + n,
             size' <= MaxSize
      PROVE  SizeExact'
  <2>1. [cache' EXCEPT ![q] = 0] = [cache EXCEPT ![q] = 0] /\ cache'[q] = n
    BY <1>1
  <2>2. SizeWithout(q) = size - cache[q]
    BY DEF SizeWithout, Cached
  <2> DEFINE rest == Cardinality(UnitsOf([cache EXCEPT ![q] = 0]))
  <2>3. rest \in Nat /\ Cardinality(UnitsOf(cache)) = rest + cache[q]
    BY UnitsSplit
  <2>4. Cardinality(UnitsOf(cache')) = rest + n
    BY <2>1, UnitsSplit
  <2>5. cache[q] \in Nat
    OBVIOUS
  <2> HIDE DEF rest
  <2>6. size' = Cardinality(UnitsOf(cache'))
    BY <1>1, <2>2, <2>3, <2>4, <2>5 DEF SizeExact
  <2>7. QED
    BY <1>1, <2>6 DEF SizeExact
<1>2. ASSUME NEW q \in QueueIds, NEW m \in MsgIds,
             NEW n \in 1 .. MaxEntrySize + 1, Set(q, m, n)
      PROVE  SizeExact'
  <2>1. SizeWithout(q) <= size
    BY DEF SizeWithout
  <2>2. n \in 0 .. MaxEntrySize /\ size' = SizeWithout(q) + n /\ size + n <= MaxSize
    BY <1>2 DEF Set
  <2>3. SizeWithout(q) \in Int
    BY DEF SizeWithout
  <2>4. size' <= MaxSize
    BY <2>1, <2>2, <2>3
  <2>5. QED
    BY <1>1, <1>2, <2>2, <2>4 DEF Set
<1>3. ASSUME NEW q \in QueueIds, PruneDelete(q)
      PROVE  SizeExact'
  <2>1. SizeWithout(q) <= size /\ SizeWithout(q) \in Int
    BY DEF SizeWithout
  <2>2. size' = SizeWithout(q) + 0 /\ size' <= MaxSize
    BY <1>3, <2>1 DEF PruneDelete, SizeExact
  <2>3. 0 \in 0 .. MaxEntrySize /\ cache' = [cache EXCEPT ![q] = 0]
    BY <1>3 DEF PruneDelete
  <2>4. QED
    BY <1>1, <2>2, <2>3
<1>4. CASE UNCHANGED entryVars
  BY <1>4 DEF entryVars, SizeExact, UnitsOf
<1>5. QED
  BY <1>2, <1>3, <1>4
     DEF Next, Prune, PruneStart, PruneScan, PruneLock, PruneUnlock, Tick, vars

(* The counter is what the messages take, and within the capacity.         *)
THEOREM SizeCorrect == Spec => []SizeExact
<1>1. Init => SizeExact
  <2> SUFFICES ASSUME Init
               PROVE  SizeExact
    OBVIOUS
  <2>1. UnitsOf(cache) = {}
    BY CacheAssumption DEF Init, UnitsOf
  <2>2. QED
    BY <2>1, FS_EmptySet, CacheAssumption DEF Init, SizeExact
<1>2. QED
  BY <1>1, TypeCorrect, SizeStep, PTL DEF Spec

(* Both together.                                                          *)
THEOREM CacheCorrect == Spec => []CacheCoherent
  BY IndexCorrect, SizeCorrect, PTL DEF CacheCoherent

-----------------------------------------------------------------------------
(* A message that is cached is only lost to lookups by its Message-Id when *)
(* another message with that id is stored or deleted.                      *)
THEOREM FindableCorrect == Spec => FindableUnlessShared
<1>1. ASSUME TypeOK, IndexCoherent, [Next]_vars,
             NEW q \in QueueIds, NEW m \in MsgIds,
             Lookup(m) = {q}, Lookup(m)' # {q}, q \in Cached', msgIdRevIdx'[q] = m
      PROVE  \E p \in QueueIds \ {q} : m \in {msgIdRevIdx[p], msgIdRevIdx'[p]}
  <2> USE CacheAssumption DEF TypeOK
  <2>1. msgIdIdx[m] = q /\ q \in Cached /\ msgIdRevIdx[q] = m
    BY <1>1 DEF Lookup, IndexCoherent
  <2>2. msgIdIdx'[m] # q
    BY <1>1 DEF Lookup
  <2>3. ASSUME NEW p \in QueueIds, NEW k \in MsgIds,
               NEW n \in 1 .. MaxEntrySize + 1, Set(p, k, n)
        PROVE  p # q /\ m \in {msgIdRevIdx[p], msgIdRevIdx'[p]}
    <3>1. msgIdRevIdx' = [msgIdRevIdx EXCEPT ![p] = k]
      BY <2>3 DEF Set
    <3>2. msgIdIdx' = [IndexWithout(p) EXCEPT ![k] = p]
      BY <2>3 DEF Set
    <3>3. IndexWithout(p) \in [MsgIds -> QueueIds \cup {EmptyQueueId}]
      BY <1>1 DEF IndexWithout
    <3>4. CASE p = q
      BY <1>1, <2>2, <3>1, <3>2, <3>3, <3>4
    <3>5. CASE p # q /\ k = m
      BY <1>1, <3>1, <3>5
    <3>6. CASE p # q /\ k # m
      <4>1. IndexWithout(p)[m] # q
        BY <2>2, <3>2, <3>3, <3>6
      <4>2. msgIdRevIdx[p] = m
        BY <2>1, <4>1 DEF IndexWithout
      <4>3. QED
        BY <3>6, <4>2
    <3>7. QED
      BY <3>4, <3>5, <3>6
  <2>4. ASSUME NEW p \in QueueIds, PruneDelete(p)
        PROVE  p # q /\ m = msgIdRevIdx[p]
    <3>1. p # q
      BY <1>1, <2>4 DEF PruneDelete, Cached
    <3>2. IndexWithout(p)[m] # q
      BY <2>2, <2>4 DEF PruneDelete
    <3>3. QED
      BY <2>1, <3>1, <3>2 DEF IndexWithout
  <2>5. CASE UNCHANGED entryVars
    BY <2>1, <2>2, <2>5 DEF entryVars
  <2>6. QED
    BY <1>1, <2>3, <2>4, <2>5
       DEF Next, Prune, PruneStart, PruneScan, PruneLock, PruneUnlock, Tick, vars
<1>2. TypeOK /\ IndexCoherent /\ [Next]_vars =>
        [\A q \in QueueIds : \A m \in MsgIds :
           Lookup(m) = {q} /\ Lookup(m)' # {q} /\ q \in Cached' /\ msgIdRevIdx'[q] = m =>
             \E p \in QueueIds \ {q} : m \in {msgIdRevIdx[p], msgIdRevIdx'[p]}]_vars
  BY <1>1
<1>3. QED
  BY <1>2, TypeCorrect, IndexCorrect, PTL DEF Spec, FindableUnlessShared

-----------------------------------------------------------------------------

(* Whatever happens to bounces and calls, the cache they are looked up in  *)
(* is the one of module MessageCache: its theorems hold of it.             *)
THEOREM FeedbackImplementsCache == FeedbackSpec => Spec
<1>1. FeedbackInit => Init
  BY DEF FeedbackInit
<1>2. [FeedbackNext]_allVars => [Next]_vars
  <2> SUFFICES ASSUME [FeedbackNext]_allVars
               PROVE  [Next]_vars
    OBVIOUS
  <2>1. ASSUME NEW i \in Judged, NEW n \in 1 .. MaxEntrySize + 1, Set(i[1], i[2], n)
        PROVE  Next
    <3>1. i[1] \in QueueIds /\ i[2] \in MsgIds
      BY FeedbackAssumption
    <3>2. QED
      BY <2>1, <3>1 DEF Next
  <2>2. CASE UNCHANGED allVars
    BY <2>2 DEF allVars
  <2>3. QED
    BY <2>1, <2>2 DEF FeedbackNext, Next
<1>3. QED
  BY <1>1, <1>2, PTL DEF FeedbackSpec, Spec

-----------------------------------------------------------------------------
(* The bounces that may be acted on, and the lessons and calls that may    *)
(* come of them, wherever they are.                                        *)
ActedOn ==
  {b \in Bounces :
     spam[b] /\ stage[b] \in {"deleting", "done"} /\ rows[b] = Rows(b)}

RightLessons ==
  {l \in [bounce : ActedOn, by : Processes, msgId : MsgIds] :
     l.msgId = BounceOf[l.bounce].msgId /\ Instance[l.by] = Instance[Here]}

RightCalls ==
  [to : {Instance[Here]}, pattern : {"reportMessageId"}, body : ActedOn] \cup
  [to : {Everyone}, pattern : {"learn"}, body : RightLessons]

RightLearnings == [lesson : RightLessons, at : Nat, waiting : SUBSET Nat]

StagesOfBounces ==
  {"new", "saving", "saved", "deleting", "done", "panicked"}

BouncesRight ==
  /\ stage \in [Bounces -> StagesOfBounces]
  /\ spam \in [Bounces -> BOOLEAN]
  /\ rows \in [Bounces -> Nat]
  /\ \A b \in Bounces : stage[b] \in {"saved", "deleting", "done"} => rows[b] = Rows(b)

CallsRight ==
  /\ reporting \in SUBSET ActedOn
  /\ inbox \in [Processes -> Seq(RightCalls)]
  /\ sending \in [Processes -> SUBSET RightCalls]
  /\ \A p \in Processes : \A m \in sending[p] : IsFor(p, m)
  /\ learning \in [Processes -> SUBSET RightLearnings]

FInv == BouncesRight /\ CallsRight

LEMMA FInvInit == FeedbackInit => FInv
<1> SUFFICES ASSUME FeedbackInit
             PROVE  FInv
  OBVIOUS
<1> USE DEF FeedbackInit, RpcInit
<1>1. BouncesRight
  BY DEF BouncesRight, StagesOfBounces
<1>2. CallsRight
  BY DEF CallsRight
<1>3. QED
  BY <1>1, <1>2 DEF FInv

-----------------------------------------------------------------------------
(* What is right stays right as long as the bounces that are acted on stay *)
(* what they are.                                                          *)
LEMMA RightStays ==
  ASSUME ActedOn \subseteq ActedOn'
  PROVE  /\ RightLessons \subseteq RightLessons'
         /\ RightCalls \subseteq RightCalls'
         /\ RightLearnings \subseteq RightLearnings'
<1>1. RightLessons \subseteq RightLessons'
  BY DEF RightLessons
<1>2. RightCalls \subseteq RightCalls'
  BY <1>1 DEF RightCalls
<1>3. RightLearnings \subseteq RightLearnings'
  BY <1>1 DEF RightLearnings
<1>4. QED
  BY <1>1, <1>2, <1>3

LEMMA SeqStays ==
  ASSUME NEW S, NEW T, S \subseteq T
  PROVE  Seq(S) \subseteq Seq(T)
OBVIOUS

LEMMA CallsStayRight ==
  ASSUME CallsRight, ActedOn \subseteq ActedOn'
  PROVE  /\ reporting \in SUBSET ActedOn'
         /\ inbox \in [Processes -> Seq(RightCalls')]
         /\ sending \in [Processes -> SUBSET RightCalls']
         /\ learning \in [Processes -> SUBSET RightLearnings']
<1>1. /\ RightCalls \subseteq RightCalls'
      /\ RightLearnings \subseteq RightLearnings'
  BY RightStays
<1>2. Seq(RightCalls) \subseteq Seq(RightCalls')
  BY <1>1, SeqStays
<1>3. QED
  BY <1>1, <1>2 DEF CallsRight

-----------------------------------------------------------------------------
(* The bounce handler.                                                     *)
LEMMA BounceStep ==
  ASSUME FInv, NEW b \in Bounces,
         Parse(b) \/ ParsePanics(b) \/ SaveRow(b) \/ Report(b) \/ DeleteQueueItem(b)
  PROVE  FInv'
<1> USE DEF FInv
<1>1. BouncesRight'
  <2>1. CASE Parse(b)
    <3>1. spam' \in [Bounces -> BOOLEAN]
      BY <2>1 DEF Parse, BouncesRight
    <3>2. QED
      BY <2>1, <3>1 DEF Parse, Reads, BouncesRight, StagesOfBounces, Rows
  <2>2. CASE ParsePanics(b)
    BY <2>2 DEF ParsePanics, Reads, BouncesRight, StagesOfBounces, Rows
  <2>3. CASE SaveRow(b)
    <3>1. stage' \in [Bounces -> StagesOfBounces] /\ rows' \in [Bounces -> Nat]
      BY <2>3 DEF SaveRow, BouncesRight, StagesOfBounces
    <3>2. \A c \in Bounces :
            stage'[c] \in {"saved", "deleting", "done"} => rows'[c] = Rows(c)
      BY <2>3 DEF SaveRow, BouncesRight, StagesOfBounces
    <3>3. QED
      BY <2>3, <3>1, <3>2 DEF SaveRow, BouncesRight, Rows
  <2>4. CASE Report(b)
    BY <2>4 DEF Report, BouncesRight, StagesOfBounces, Rows
  <2>5. CASE DeleteQueueItem(b)
    BY <2>5 DEF DeleteQueueItem, BouncesRight, StagesOfBounces, Rows
  <2>6. QED
    BY <2>1, <2>2, <2>3, <2>4, <2>5
<1>2. ActedOn \subseteq ActedOn'
  <2> SUFFICES ASSUME NEW c \in ActedOn
               PROVE  c \in ActedOn'
    OBVIOUS
  <2>1. spam'[c] = spam[c] /\ rows'[c] = rows[c] /\ stage'[c] \in {"deleting", "done"}
    BY DEF ActedOn, Parse, ParsePanics, SaveRow, Report, DeleteQueueItem, Reads, BouncesRight
  <2>2. QED
    BY <2>1 DEF ActedOn, Rows
<1>3. reporting' \in SUBSET ActedOn'
  <2>1. CASE reporting' = reporting
    BY <1>2, <2>1, CallsStayRight
  <2>2. CASE reporting' # reporting
    <3>1. /\ reporting' = reporting \cup {b}
          /\ spam[b] /\ stage[b] = "saved" /\ stage'[b] = "deleting"
          /\ UNCHANGED <<spam, rows>>
      BY <2>2 DEF Parse, ParsePanics, SaveRow, Report, DeleteQueueItem, BouncesRight
    <3>2. b \in ActedOn'
      BY <3>1 DEF ActedOn, BouncesRight, Rows
    <3>3. QED
      BY <1>2, <3>1, <3>2, CallsStayRight
  <2>3. QED
    BY <2>1, <2>2
<1>4. UNCHANGED <<inbox, sending, learning>>
  BY DEF Parse, ParsePanics, SaveRow, Report, DeleteQueueItem, rpcVars, learnVars
<1>5. CallsRight'
  BY <1>2, <1>3, <1>4, CallsStayRight DEF CallsRight, IsFor
<1>6. QED
  BY <1>1, <1>5

-----------------------------------------------------------------------------
(* When no bounce changes, it is enough to look at what calls do.          *)
LEMMA SameBounces ==
  ASSUME BouncesRight, UNCHANGED bounceVars
  PROVE  /\ BouncesRight'
         /\ ActedOn' = ActedOn
         /\ RightLessons' = RightLessons
         /\ RightCalls' = RightCalls
         /\ RightLearnings' = RightLearnings
<1>1. BouncesRight'
  BY DEF BouncesRight, bounceVars, Rows
<1>2. ActedOn' = ActedOn
  BY DEF ActedOn, bounceVars, Rows
<1>3. RightLessons' = RightLessons
  BY <1>2 DEF RightLessons
<1>4. RightCalls' = RightCalls /\ RightLearnings' = RightLearnings
  BY <1>2, <1>3 DEF RightCalls, RightLearnings
<1>5. QED
  BY <1>1, <1>2, <1>3, <1>4

\* A call that is right may be published.
LEMMA PublishedIsRight ==
  ASSUME CallsRight, NEW m \in RightCalls, RedisPublish(m)
  PROVE  inbox' \in [Processes -> Seq(RightCalls)]
<1>1. CASE inbox' = inbox
  BY <1>1 DEF CallsRight
<1>2. CASE Published(m)
  <2>1. ASSUME NEW p \in Processes
        PROVE  /\ inbox[p] \in Seq(RightCalls)
               /\ Append(inbox[p], m) \in Seq(RightCalls)
    BY DEF CallsRight
  <2>2. QED
    BY <1>2, <2>1 DEF Published
<1>3. QED
  BY <1>1, <1>2 DEF RedisPublish

LEMMA ReportStep ==
  ASSUME FInv, NEW b \in Bounces, ReportMessageId(b)
  PROVE  FInv'
<1> USE DEF FInv
<1>1. b \in ActedOn
  BY DEF ReportMessageId, CallsRight
<1> DEFINE m == [to |-> Instance[Here], pattern |-> "reportMessageId", body |-> b]
<1>2. m \in RightCalls
  BY <1>1 DEF RightCalls
<1>3. RedisPublish(m)
  BY DEF ReportMessageId
<1>4. inbox' \in [Processes -> Seq(RightCalls)]
  BY <1>2, <1>3, PublishedIsRight
<1>5. UNCHANGED <<bounceVars, sending, learning>> /\ reporting' \subseteq reporting
  BY DEF ReportMessageId, learnVars
<1>6. QED
  BY <1>4, <1>5, SameBounces DEF CallsRight, IsFor

-----------------------------------------------------------------------------
(* The calls.                                                              *)
LEMMA RpcStep ==
  ASSUME FInv, NEW p \in Processes, RpcNext(p),
         UNCHANGED <<bounceVars, reporting, learnVars>>
  PROVE  FInv'
<1> USE DEF FInv
<1>1. inbox' \in [Processes -> Seq(RightCalls)]
  <2>1. CASE Receive(p)
    BY <2>1 DEF Receive, CallsRight
  <2>2. CASE LoseConnection(p)
    BY <2>2 DEF LoseConnection, CallsRight
  <2>3. CASE UNCHANGED inbox
    BY <2>3 DEF CallsRight
  <2>4. QED
    BY <2>1, <2>2, <2>3
    DEF RpcNext, RpcProceeds, InitModules, Subscribe, AskModule
<1>2. /\ sending' \in [Processes -> SUBSET RightCalls]
      /\ \A q \in Processes : \A m \in sending'[q] : IsFor(q, m)
  <2>1. CASE Receive(p)
    <3> DEFINE m == Head(inbox[p])
    <3>1. m \in RightCalls
      BY <2>1 DEF Receive, CallsRight
    <3>2. \/ sending' = sending
          \/ IsFor(p, m) /\ sending' = [sending EXCEPT ![p] = @ \cup {m}]
      BY <2>1 DEF Receive
    <3>3. QED
      BY <3>1, <3>2 DEF CallsRight
  <2>2. CASE UNCHANGED sending
    BY <2>2 DEF CallsRight
  <2>3. QED
    BY <2>1, <2>2
    DEF RpcNext, RpcProceeds, InitModules, Subscribe, AskModule, LoseConnection
<1>3. UNCHANGED <<reporting, learning>>
  BY DEF learnVars
<1>4. QED
  BY <1>1, <1>2, <1>3, SameBounces DEF CallsRight, IsFor

(* A look-up finds the message that was asked for, because the index       *)
(* agrees with the messages.                                               *)
LEMMA FoundIsRight ==
  ASSUME TypeOK, IndexCoherent, NEW p \in Processes, NEW b \in ActedOn,
         Instance[p] = Instance[Here], NEW l \in Found(p, b)
  PROVE  l \in RightLessons
<1> DEFINE m == BounceOf[b].msgId
<1>1. GetMessageId(b) = m /\ m \in MsgIds
  BY CacheAssumption DEF Found, GetMessageId
<1>2. CASE p = Here
  <2>1. PICK q \in Lookup(m) : l = [bounce |-> b, by |-> p, msgId |-> msgIdRevIdx[q]]
    BY <1>1, <1>2, CacheAssumption DEF Found
  <2>2. q = msgIdIdx[m] /\ q \in QueueIds
    BY <2>1 DEF Lookup, Cached
  <2>3. msgIdRevIdx[q] = m
    BY <1>1, <2>2, CacheAssumption DEF IndexCoherent
  <2>4. QED
    BY <1>1, <2>1, <2>3 DEF RightLessons
<1>3. CASE p # Here
  <2>1. l = [bounce |-> b, by |-> p, msgId |-> m]
    BY <1>1, <1>3, CacheAssumption DEF Found
  <2>2. QED
    BY <1>1, <2>1 DEF RightLessons
<1>4. QED
  BY <1>2, <1>3

LEMMA LookUpStep ==
  ASSUME FInv, TypeOK, IndexCoherent, NEW p \in Processes, NEW m \in sending[p], LookUp(p, m)
  PROVE  FInv'
<1> USE DEF FInv
<1>1. m.body \in ActedOn /\ Instance[p] = Instance[Here]
  <2>1. /\ m \in RightCalls /\ m.pattern = "reportMessageId" /\ IsFor(p, m)
    BY DEF LookUp, CallsRight
  <2>2. m.body \in ActedOn /\ m.to = Instance[Here]
    BY <2>1 DEF RightCalls
  <2>3. QED
    BY <2>1, <2>2, RpcAssumption, FeedbackAssumption DEF IsFor
<1>2. inbox' \in [Processes -> Seq(RightCalls)]
  <2>1. CASE UNCHANGED inbox
    BY <2>1 DEF CallsRight
  <2>2. ASSUME NEW l \in Found(p, m.body),
               RedisPublish([to |-> Everyone, pattern |-> "learn", body |-> l])
        PROVE  inbox' \in [Processes -> Seq(RightCalls)]
    <3>1. l \in RightLessons
      BY <1>1, FoundIsRight
    <3>2. [to |-> Everyone, pattern |-> "learn", body |-> l] \in RightCalls
      BY <3>1 DEF RightCalls
    <3>3. QED
      BY <2>2, <3>2, PublishedIsRight
  <2>3. QED
    BY <2>1, <2>2 DEF LookUp
<1>3. /\ sending' \in [Processes -> SUBSET RightCalls]
      /\ \A q \in Processes : \A k \in sending'[q] : IsFor(q, k)
  BY DEF LookUp, Take, CallsRight
<1>4. UNCHANGED <<bounceVars, reporting, learning>>
  BY DEF LookUp, learnVars
<1>5. QED
  BY <1>2, <1>3, <1>4, SameBounces DEF CallsRight, IsFor

-----------------------------------------------------------------------------
(* The lessons.                                                            *)
LEMMA LearnStep ==
  ASSUME FInv, NEW p \in Processes, NEW m \in sending[p], Learn(p, m)
  PROVE  FInv'
<1> USE DEF FInv
<1>1. m.body \in RightLessons
  BY DEF Learn, CallsRight, RightCalls
<1>2. [lesson |-> m.body, at |-> 1, waiting |-> {1}] \in RightLearnings
  BY <1>1 DEF RightLearnings
<1>3. learning' \in [Processes -> SUBSET RightLearnings]
  BY <1>2 DEF Learn, CallsRight
<1>4. /\ sending' \in [Processes -> SUBSET RightCalls]
      /\ \A q \in Processes : \A k \in sending'[q] : IsFor(q, k)
  BY DEF Learn, Take, CallsRight
<1>5. UNCHANGED <<bounceVars, reporting, inbox>>
  BY DEF Learn
<1>6. QED
  BY <1>3, <1>4, <1>5, SameBounces DEF CallsRight, IsFor

LEMMA TeachStep ==
  ASSUME FInv, NEW p \in Processes, NEW r \in learning[p],
         StartLearner(p, r) \/ \E i \in r.waiting : BayesLearn(p, r, i)
  PROVE  FInv'
<1> USE DEF FInv
<1>1. r \in RightLearnings
  BY DEF CallsRight
<1>2. learning' \in [Processes -> SUBSET RightLearnings]
  <2>1. CASE StartLearner(p, r)
    <3>1. r.at + 1 \in Nat /\ r.waiting \cup {r.at + 1} \in SUBSET Nat
      BY <1>1 DEF RightLearnings
    <3>2. [r EXCEPT !.at = @ + 1, !.waiting = @ \cup {r.at + 1}] \in RightLearnings
      BY <1>1, <3>1, Zenon DEF RightLearnings
    <3>3. QED
      BY <2>1, <3>2 DEF StartLearner, CallsRight
  <2>2. ASSUME NEW i \in r.waiting, BayesLearn(p, r, i)
        PROVE  learning' \in [Processes -> SUBSET RightLearnings]
    <3>1. [r EXCEPT !.waiting = @ \ {i}] \in RightLearnings
      BY <1>1 DEF RightLearnings
    <3>2. QED
      BY <2>2, <3>1 DEF BayesLearn, CallsRight
  <2>3. QED
    BY <2>1, <2>2
<1>3. UNCHANGED <<bounceVars, reporting, inbox, sending>>
  BY DEF StartLearner, BayesLearn, EndProcess, rpcVars
<1>4. QED
  BY <1>2, <1>3, SameBounces DEF CallsRight, IsFor

-----------------------------------------------------------------------------
LEMMA FeedbackStep ==
  ASSUME FInv, TypeOK, IndexCoherent, [FeedbackNext]_allVars
  PROVE  FInv'
<1>1. CASE UNCHANGED feedbackVars
  <2>1. UNCHANGED <<bounceVars, reporting, inbox, sending, learning>>
    BY <1>1 DEF feedbackVars, rpcVars, learnVars
  <2>2. QED
    BY <2>1, SameBounces DEF FInv, CallsRight, IsFor
<1>2. ASSUME NEW p \in Processes, RpcNext(p),
             UNCHANGED <<bounceVars, reporting, learnVars, queueVars>>
      PROVE  FInv'
  BY <1>2, RpcStep
<1>3. ASSUME NEW b \in Bounces, HandleBounce(b)
      PROVE  FInv'
  BY <1>3, BounceStep, ReportStep DEF HandleBounce
<1>4. ASSUME NEW p \in Processes, HandleCall(p)
      PROVE  FInv'
  BY <1>4, LookUpStep, LearnStep, TeachStep DEF HandleCall
<1>5. QED
  BY <1>1, <1>2, <1>3, <1>4 DEF FeedbackNext, allVars

(* The inductive invariant of what bounces lead to.                        *)
THEOREM FInvCorrect == FeedbackSpec => []FInv
<1>1. FeedbackSpec => []TypeOK /\ []IndexCoherent
  BY FeedbackImplementsCache, TypeCorrect, IndexCorrect
<1>2. QED
  BY <1>1, FInvInit, FeedbackStep, PTL DEF FeedbackSpec

\* Lessons, and whatever else is on its way, are right.
LEMMA LessonsAreRight ==
  ASSUME FInv
  PROVE  Lessons \subseteq RightLessons
<1> SUFFICES ASSUME NEW p \in Processes, NEW l,
                    \/ \E r \in learning[p] : l = r.lesson
                    \/ \E m \in sending[p] \cup {inbox[p][k] : k \in DOMAIN inbox[p]} :
                         m.pattern = "learn" /\ l = m.body
             PROVE  l \in RightLessons
  BY DEF Lessons
<1>1. CASE \E r \in learning[p] : l = r.lesson
  BY <1>1 DEF FInv, CallsRight, RightLearnings
<1>2. ASSUME NEW m \in sending[p] \cup {inbox[p][k] : k \in DOMAIN inbox[p]},
             m.pattern = "learn", l = m.body
      PROVE  l \in RightLessons
  <2>1. m \in RightCalls
    BY DEF FInv, CallsRight
  <2>2. QED
    BY <1>2, <2>1 DEF RightCalls
<1>3. QED
  BY <1>1, <1>2

(* What is learnt is the message that was reported, as spam, and was       *)
(* judged by the instance that got the bounce.                             *)
THEOREM LearnedCorrect == FeedbackSpec => []LearnedAsReported
<1>1. FInv => LearnedAsReported
  BY LessonsAreRight DEF LearnedAsReported, RightLessons, ActedOn
<1>2. QED
  BY <1>1, FInvCorrect, PTL

(* Nothing is done about a bounce before all of it is stored.              *)
THEOREM ActedCorrect == FeedbackSpec => []ActedOnIfStored
<1>1. ASSUME FInv
      PROVE  ActedOnIfStored
  <2> SUFFICES ASSUME NEW b \in Bounces,
                      \/ b \in reporting
                      \/ \E l \in Lessons : l.bounce = b
                      \/ stage[b] \in {"deleting", "done"}
               PROVE  rows[b] = Rows(b)
    BY DEF ActedOnIfStored
  <2>1. CASE b \in reporting
    BY <1>1, <2>1 DEF FInv, CallsRight, ActedOn
  <2>2. CASE \E l \in Lessons : l.bounce = b
    BY <1>1, <2>2, LessonsAreRight DEF RightLessons, ActedOn
  <2>3. CASE stage[b] \in {"deleting", "done"}
    BY <1>1, <2>3 DEF FInv, BouncesRight
  <2>4. QED
    BY <2>1, <2>2, <2>3
<1>2. QED
  BY <1>1, FInvCorrect, PTL
=============================================================================
