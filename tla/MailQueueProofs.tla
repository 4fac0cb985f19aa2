-------------------------- MODULE MailQueueProofs ---------------------------
(***************************************************************************)
(* The mail queues of the cluster.  On one host, the pipeline never sends  *)
(* on a closed channel and writes all it found, for any number of files,   *)
(* updates and batches, any capacity of the channel, and whatever Redis    *)
(* does.  As for the hosts whose queues are shown together: those that run *)
(* see each other and those that stopped are forgotten, for any number of  *)
(* hosts and any length of the minute, the interval and the delays that    *)
(* fit together.                                                           *)
(***************************************************************************)
EXTENDS MailQueue, Services, FiniteSetTheorems, TLAPS

(* Where the goroutines of an update are, relative to each other.          *)
Placed(u) ==
  /\ walker[u] = "due" <=> batcher[u] = "none"
  /\ walker[u] = "due" <=> writer[u] = "none"
  /\ walker[u] = "walking" => batcher[u] = "batching"
  /\ walker[u] = "due" => parsers[u] = {} /\ batch[u] = {} /\ walked[u] = {}
  /\ walker[u] = "returned" => batcher[u] = "returned" /\ parsers[u] = {}

(* wg counts the goroutines of the batches, and the list while it is made. *)
Counted(u) ==
  /\ IsFiniteSet(parsers[u])
  /\ batcher[u] = "batching" => wg[u] = Cardinality(parsers[u]) + 1
  /\ batcher[u] # "batching" => wg[u] = Cardinality(parsers[u])

(* No file is in two batches, and only the last batch may be empty: no two *)
(* goroutines are the same member of parsers.                              *)
Apart(u) ==
  /\ \A p, q \in parsers[u] :
       p.batch = q.batch \/ p.batch \cap q.batch # {} => p = q
  /\ \A p \in parsers[u] :
       /\ p.batch \subseteq walked[u]
       /\ p.unsent \subseteq p.batch
       /\ p.read \/ p.unsent = {}
       /\ batcher[u] = "batching" => p.batch # {} /\ p.batch \cap batch[u] = {}
  /\ batch[u] \subseteq walked[u]
  /\ todo[u] \cap walked[u] = {}

Inv == TypeOK /\ \A u \in Updates : Placed(u) /\ Counted(u) /\ Apart(u)

-----------------------------------------------------------------------------
(* Adding a goroutine, and replacing one by what it became.                *)
LEMMA Added ==
  ASSUME NEW S, IsFiniteSet(S), NEW p, p \notin S
  PROVE  IsFiniteSet(S \cup {p}) /\ Cardinality(S \cup {p}) = Cardinality(S) + 1
BY FS_AddElement

LEMMA Removed ==
  ASSUME NEW S, IsFiniteSet(S), NEW p \in S
  PROVE  /\ IsFiniteSet(S \ {p}) /\ Cardinality(S \ {p}) = Cardinality(S) - 1
         /\ Cardinality(S) \in Nat \ {0}
<1>1. IsFiniteSet(S \ {p}) /\ Cardinality(S \ {p}) = Cardinality(S) - 1
  BY FS_RemoveElement
<1>2. Cardinality(S) \in Nat /\ Cardinality(S) # 0
  BY FS_CardinalityType, FS_EmptySet
<1>3. QED
  BY <1>1, <1>2

LEMMA Replaced ==
  ASSUME NEW S, IsFiniteSet(S), NEW p \in S, NEW q, q \notin S \ {p}
  PROVE  /\ IsFiniteSet((S \ {p}) \cup {q})
         /\ Cardinality((S \ {p}) \cup {q}) = Cardinality(S)
<1>1. /\ IsFiniteSet(S \ {p}) /\ Cardinality(S \ {p}) = Cardinality(S) - 1
      /\ Cardinality(S) \in Nat \ {0}
  BY Removed
<1> DEFINE T == S \ {p}
<1>2. IsFiniteSet(T \cup {q}) /\ Cardinality(T \cup {q}) = Cardinality(T) + 1
  BY <1>1, Added
<1>3. QED
  BY <1>1, <1>2

-----------------------------------------------------------------------------
(* An update does not touch the goroutines of another.                     *)
LEMMA OthersKept ==
  ASSUME Inv, NEW u \in Updates, UpdateStep(u), NEW v \in Updates, v # u
  PROVE  /\ walker'[v] = walker[v] /\ batcher'[v] = batcher[v]
         /\ writer'[v] = writer[v] /\ wg'[v] = wg[v]
         /\ parsers'[v] = parsers[v] /\ batch'[v] = batch[v]
         /\ walked'[v] = walked[v] /\ todo'[v] = todo[v]
         /\ lost'[v] = lost[v] /\ envelopes'[v] = envelopes[v]
         /\ pushes'[v] = pushes[v]
<1>0. /\ \A F \in {todo, batch, envelopes, pushes, walked, lost} : F = [i \in Updates |-> F[i]]
      /\ walker = [i \in Updates |-> walker[i]] /\ batcher = [i \in Updates |-> batcher[i]]
      /\ writer = [i \in Updates |-> writer[i]] /\ wg = [i \in Updates |-> wg[i]]
      /\ parsers = [i \in Updates |-> parsers[i]]
  BY DEF Inv, TypeOK
<1> USE <1>0 DEF walkVars, batchVars, parseVars, writeVars, keyVars
<1>1. CASE WalkerStep(u)
  <2>1. CASE Start(u)
    BY <2>1 DEF Start
  <2>2. CASE Walk(u)
    BY <2>2 DEF Walk
  <2>3. CASE CloseFiles(u) \/ CloseEnvelopes(u)
    BY <2>3 DEF CloseFiles, CloseEnvelopes
  <2> QED
    BY <1>1, <2>1, <2>2, <2>3 DEF WalkerStep
<1>2. CASE LastBatch(u)
  BY <1>2 DEF LastBatch
<1>3. CASE ParserStep(u)
  <2>1. PICK p \in parsers[u] : Postcat(u, p) \/ Send(u, p) \/ ParserReturns(u, p)
    BY <1>3 DEF ParserStep
  <2>2. CASE Postcat(u, p)
    BY <2>2 DEF Postcat
  <2>3. CASE Send(u, p)
    BY <2>3 DEF Send
  <2>4. CASE ParserReturns(u, p)
    BY <2>4 DEF ParserReturns
  <2> QED
    BY <2>1, <2>2, <2>3, <2>4
<1>4. CASE WriterStep(u)
  <2>1. CASE Watch(u)
    BY <2>1 DEF Watch
  <2>2. CASE Collect(u)
    BY <2>2 DEF Collect
  <2>3. CASE Exec(u)
    BY <2>3 DEF Exec
  <2> QED
    BY <1>4, <2>1, <2>2, <2>3 DEF WriterStep
<1>5. QED
  BY <1>1, <1>2, <1>3, <1>4 DEF UpdateStep

-----------------------------------------------------------------------------
(* The types, action by action.                                            *)
LEMMA TypeStep ==
  ASSUME Inv, NEW u \in Updates, UpdateStep(u)
  PROVE  TypeOK'
<1>t. TypeOK /\ Counted(u)
  BY DEF Inv
<1>a. parsers[u] \in SUBSET Parsers
  BY <1>t DEF TypeOK
<1> USE MailQueueAssumption DEF walkVars, batchVars, parseVars, writeVars, keyVars
<1>1. CASE Start(u)
  BY <1>t, <1>1 DEF Start, TypeOK
<1>2. CASE Walk(u)
  <2>1. PICK f \in Files : Walk(u)!2!(f)
    BY <1>2 DEF Walk
  <2> DEFINE b == batch[u] \cup ({f} \cap spool)
             full == Cardinality(b) >= BatchSize
  <2>2. b \in SUBSET Files
    BY <1>t DEF TypeOK
  <2>3. Unread(b) \in Parsers
    BY <2>2 DEF Unread, Parsers
  <2>4. batch' \in [Updates -> SUBSET Files]
    BY <1>t, <2>1, <2>2 DEF TypeOK
  <2>5. parsers' \in [Updates -> SUBSET Parsers]
    <3> DEFINE P == IF full THEN parsers[u] \cup {Unread(b)} ELSE parsers[u]
    <3>1. P \in SUBSET Parsers
      BY <1>a, <2>3
    <3>2. parsers' = [parsers EXCEPT ![u] = P]
      BY <2>1
    <3> HIDE DEF P
    <3>3. QED
      BY <1>t, <3>1, <3>2 DEF TypeOK
  <2>6. wg' \in [Updates -> Nat]
    <3> DEFINE n == IF full THEN wg[u] + 1 ELSE wg[u]
    <3>1. n \in Nat
      BY <1>t DEF TypeOK
    <3>2. wg' = [wg EXCEPT ![u] = n]
      BY <2>1
    <3> HIDE DEF n
    <3>3. QED
      BY <1>t, <3>1, <3>2 DEF TypeOK
  <2>7. /\ todo' \in [Updates -> SUBSET Files]
        /\ walked' \in [Updates -> SUBSET Files]
    BY <1>t, <2>1 DEF TypeOK
  <2>8. UNCHANGED <<spool, walker, batcher, lost, envelopes, writeVars, keyVars>>
    BY <1>2 DEF Walk
  <2>9. QED
    BY <1>t, <2>4, <2>5, <2>6, <2>7, <2>8 DEF TypeOK
<1>3. CASE CloseFiles(u)
  BY <1>t, <1>3 DEF CloseFiles, TypeOK
<1>4. CASE CloseEnvelopes(u)
  BY <1>t, <1>4 DEF CloseEnvelopes, TypeOK
<1>5. CASE LastBatch(u)
  <2>1. Unread(batch[u]) \in Parsers
    BY <1>t DEF Unread, Parsers, TypeOK
  <2>2. parsers' \in [Updates -> SUBSET Parsers]
    BY <1>t, <1>5, <2>1 DEF LastBatch, TypeOK
  <2>3. QED
    BY <1>t, <1>5, <2>2 DEF LastBatch, TypeOK
<1>6. ASSUME NEW p \in parsers[u], Postcat(u, p)
      PROVE  TypeOK'
  <2>0. PICK ok \in {p.batch \subseteq spool, FALSE} : Postcat(u, p)!2!(ok)
    BY <1>6 DEF Postcat
  <2> DEFINE q == [p EXCEPT !.read = TRUE,
                            !.unsent = IF ok THEN p.batch \ Unparsable ELSE {}]
  <2>1. p \in Parsers /\ p.batch \subseteq Files
    BY <1>a DEF Parsers
  <2>2. q \in Parsers
    BY <2>1 DEF Parsers
  <2>3. parsers' = [parsers EXCEPT ![u] = (@ \ {p}) \cup {q}]
    BY <2>0
  <2>4. parsers' \in [Updates -> SUBSET Parsers]
    <3> HIDE DEF q
    <3>1. QED
      BY <1>t, <1>a, <2>2, <2>3 DEF TypeOK
  <2>5. lost' \in [Updates -> SUBSET Files]
    BY <1>t, <1>6, <2>1 DEF Postcat, TypeOK
  <2>6. UNCHANGED <<walkVars, batchVars, wg, envelopes, writeVars, keyVars>>
    BY <1>6 DEF Postcat
  <2>7. QED
    BY <1>t, <2>4, <2>5, <2>6 DEF TypeOK
<1>7. ASSUME NEW p \in parsers[u], Send(u, p)
      PROVE  TypeOK'
  <2>1. PICK f \in Files : Send(u, p)!3!(f)
    BY <1>7 DEF Send
  <2>2. [p EXCEPT !.unsent = @ \ {f}] \in Parsers
    BY <1>a DEF Parsers
  <2>3. parsers' \in [Updates -> SUBSET Parsers]
    BY <1>t, <1>a, <2>1, <2>2 DEF TypeOK
  <2>4. envelopes' \in [Updates -> SUBSET Files]
    BY <1>t, <2>1 DEF TypeOK
  <2>5. QED
    BY <1>t, <1>7, <2>3, <2>4 DEF Send, TypeOK
<1>8. ASSUME NEW p \in parsers[u], ParserReturns(u, p)
      PROVE  TypeOK'
  <2>1. wg[u] - 1 \in Nat
    <3>1. Cardinality(parsers[u]) \in Nat \ {0}
      BY <1>t, Removed DEF Counted
    <3>2. QED
      BY <1>t, <3>1 DEF Counted
  <2>2. wg' \in [Updates -> Nat] /\ parsers' \in [Updates -> SUBSET Parsers]
    BY <1>t, <1>8, <2>1 DEF ParserReturns, TypeOK
  <2>3. QED
    BY <1>t, <1>8, <2>2 DEF ParserReturns, TypeOK
<1>9. CASE Watch(u)
  BY <1>t, <1>9 DEF Watch, TypeOK
<1>10. CASE Collect(u)
  BY <1>t, <1>10 DEF Collect, TypeOK
<1>11. CASE Exec(u)
  BY <1>t, <1>11 DEF Exec, TypeOK
<1>12. QED
  BY <1>1, <1>2, <1>3, <1>4, <1>5, <1>6, <1>7, <1>8, <1>9, <1>10, <1>11
  DEF UpdateStep, WalkerStep, ParserStep, WriterStep

(* The goroutines of an update, action by action.                          *)
LEMMA OwnStep ==
  ASSUME Inv, NEW u \in Updates, UpdateStep(u)
  PROVE  (Placed(u) /\ Counted(u) /\ Apart(u))'
<1>a. Placed(u) /\ Counted(u) /\ Apart(u)
  BY DEF Inv
<1>t. TypeOK
  BY DEF Inv
<1>s. ASSUME NEW p \in parsers[u]
      PROVE  p \in Parsers
  BY <1>t DEF TypeOK
<1> USE MailQueueAssumption DEF walkVars, batchVars, parseVars, writeVars, keyVars
<1>1. CASE Start(u)
  <2>1. /\ walker[u] = "due" /\ parsers[u] = {} /\ batch[u] = {} /\ walked[u] = {}
        /\ walker'[u] = "walking" /\ wg'[u] = 1 /\ batcher'[u] = "batching"
        /\ writer'[u] = "starting"
        /\ parsers' = parsers /\ batch' = batch /\ walked' = walked
    BY <1>1, <1>a, <1>t DEF Start, Placed, TypeOK
  <2>2. Cardinality(parsers'[u]) = 0 /\ IsFiniteSet(parsers'[u])
    BY <2>1, FS_EmptySet
  <2>3. QED
    BY <2>1, <2>2 DEF Placed, Counted, Apart
<1>2. CASE Walk(u)
  <2>1. PICK f \in Files : Walk(u)!2!(f)
    BY <1>2 DEF Walk
  <2> DEFINE b == batch[u] \cup ({f} \cap spool)
  <2>2. /\ walker[u] = "walking" /\ batcher[u] = "batching"
        /\ walker' = walker /\ batcher' = batcher /\ writer' = writer
        /\ f \in todo[u] /\ f \notin walked[u]
        /\ todo'[u] = todo[u] \ {f} /\ walked'[u] = walked[u] \cup ({f} \cap spool)
    BY <1>2, <1>a, <1>t, <2>1 DEF Walk, Placed, Apart, IsFirst, TypeOK
  <2>3. /\ b \subseteq walked'[u]
        /\ \A p \in parsers[u] : p.batch \cap b = {} /\ p.batch # {}
    BY <1>a, <2>2 DEF Apart
  <2>4. CASE Cardinality(b) >= BatchSize
    <3>1. /\ batch'[u] = {} /\ parsers'[u] = parsers[u] \cup {Unread(b)}
          /\ wg'[u] = wg[u] + 1
      BY <1>t, <2>1, <2>4 DEF TypeOK
    <3>2. b # {}
      <4>1. Cardinality(b) # 0
        BY <2>4, FS_CardinalityType
      <4>2. QED
        BY <4>1, FS_EmptySet
    <3>3. Unread(b) \notin parsers[u]
      BY <2>3, <3>2 DEF Unread
    <3>4. /\ IsFiniteSet(parsers'[u])
          /\ Cardinality(parsers'[u]) = Cardinality(parsers[u]) + 1
      <4>1. IsFiniteSet(parsers[u])
        BY <1>a DEF Counted
      <4> DEFINE S == parsers[u]
                 q == Unread(b)
      <4>2. IsFiniteSet(S) /\ q \notin S /\ parsers'[u] = S \cup {q}
        BY <3>1, <3>3, <4>1
      <4> HIDE DEF S, q
      <4>3. IsFiniteSet(S \cup {q}) /\ Cardinality(S \cup {q}) = Cardinality(S) + 1
        BY <4>2, Added
      <4>4. QED
        BY <4>2, <4>3 DEF S
    <3>5. Placed(u)' /\ Counted(u)'
      BY <1>a, <2>2, <3>1, <3>4 DEF Placed, Counted
    <3>6. Unread(b).batch = b /\ Unread(b).unsent = {}
      BY DEF Unread
    <3> DEFINE q == Unread(b)
    <3>7. /\ parsers'[u] = parsers[u] \cup {q}
          /\ q.batch = b /\ q.unsent = {}
      BY <3>1, <3>6
    <3> HIDE DEF q, b
    <3>8. \A p, r \in parsers'[u] :
            p.batch = r.batch \/ p.batch \cap r.batch # {} => p = r
      BY <1>a, <2>3, <3>2, <3>7 DEF Apart
    <3>9. \A p \in parsers'[u] :
            /\ p.batch \subseteq walked'[u] /\ p.batch # {}
            /\ p.unsent \subseteq p.batch /\ (p.read \/ p.unsent = {})
      BY <1>a, <2>2, <2>3, <3>2, <3>7 DEF Apart
    <3>10. Apart(u)'
      BY <1>a, <2>2, <3>1, <3>8, <3>9 DEF Apart
    <3>11. QED
      BY <3>5, <3>10
  <2>5. CASE ~(Cardinality(b) >= BatchSize)
    <3>1. batch'[u] = b /\ parsers'[u] = parsers[u] /\ wg'[u] = wg[u]
      BY <1>t, <2>1, <2>5 DEF TypeOK
    <3>2. Placed(u)' /\ Counted(u)'
      BY <1>a, <2>2, <3>1 DEF Placed, Counted
    <3>3. Apart(u)'
      BY <1>a, <2>2, <2>3, <3>1 DEF Apart
    <3>4. QED
      BY <3>2, <3>3
  <2>6. QED
    BY <2>4, <2>5
<1>3. CASE CloseFiles(u)
  BY <1>a, <1>t, <1>3 DEF TypeOK, CloseFiles, Placed, Counted, Apart
<1>4. CASE CloseEnvelopes(u)
  <2>1. batcher[u] # "batching" /\ Cardinality(parsers[u]) = 0
    <3>1. Cardinality(parsers[u]) \in Nat /\ wg[u] = 0
      BY <1>a, <1>4, FS_CardinalityType DEF Counted, CloseEnvelopes
    <3>2. QED
      BY <1>a, <3>1 DEF Counted
  <2>2. parsers[u] = {}
    BY <1>a, <2>1, FS_EmptySet DEF Counted
  <2>3. batcher[u] = "returned"
    BY <1>a, <1>t, <1>4, <2>1 DEF Placed, CloseEnvelopes, TypeOK
  <2>4. QED
    BY <1>a, <1>t, <1>4, <2>2, <2>3 DEF TypeOK, CloseEnvelopes, Placed, Counted, Apart
<1>5. CASE LastBatch(u)
  <2>1. /\ batcher[u] = "batching" /\ batcher'[u] = "returned"
        /\ walker[u] = "waiting" /\ walker' = walker /\ writer' = writer
        /\ parsers'[u] = parsers[u] \cup {Unread(batch[u])}
        /\ wg' = wg /\ batch' = batch /\ walked' = walked /\ todo' = todo
    BY <1>t, <1>5 DEF LastBatch, TypeOK
  <2>2. /\ Unread(batch[u]).batch = batch[u] /\ Unread(batch[u]).unsent = {}
        /\ \A p \in parsers[u] : p.batch # {} /\ p.batch \cap batch[u] = {}
    BY <1>a, <2>1 DEF Unread, Apart
  <2>3. Unread(batch[u]) \notin parsers[u]
    BY <2>2
  <2>4. /\ IsFiniteSet(parsers'[u])
        /\ Cardinality(parsers'[u]) = Cardinality(parsers[u]) + 1
    BY <1>a, <2>1, <2>3, Added DEF Counted
  <2>5. Placed(u)' /\ Counted(u)'
    BY <1>a, <2>1, <2>4 DEF Placed, Counted
  <2>6. Apart(u)'
    BY <1>a, <2>1, <2>2 DEF Apart
  <2>7. QED
    BY <2>5, <2>6
<1>6. ASSUME NEW p \in parsers[u], NEW q,
             q.batch = p.batch, q.unsent \subseteq p.batch,
             q.read \/ q.unsent = {},
             parsers'[u] = (parsers[u] \ {p}) \cup {q},
             UNCHANGED <<walker, batcher, writer, wg, batch, walked, todo>>
      PROVE  (Placed(u) /\ Counted(u) /\ Apart(u))'
  <2>1. q \notin parsers[u] \ {p}
    BY <1>a, <1>6 DEF Apart
  <2>2. /\ IsFiniteSet(parsers'[u])
        /\ Cardinality(parsers'[u]) = Cardinality(parsers[u])
    BY <1>a, <1>6, <2>1, Replaced DEF Counted
  <2>3. Placed(u)' /\ Counted(u)'
    BY <1>a, <1>6, <2>2 DEF Placed, Counted
  <2>4. Apart(u)'
    BY <1>a, <1>6 DEF Apart
  <2>5. QED
    BY <2>3, <2>4
<1>7. ASSUME NEW p \in parsers[u], Postcat(u, p) \/ Send(u, p)
      PROVE  (Placed(u) /\ Counted(u) /\ Apart(u))'
  <2>1. /\ p \in Parsers /\ p.unsent \subseteq p.batch
        /\ p.read \/ p.unsent = {}
    BY <1>a, <1>s DEF Apart
  <2>2. CASE Postcat(u, p)
    <3>0. PICK ok \in {p.batch \subseteq spool, FALSE} : Postcat(u, p)!2!(ok)
      BY <2>2 DEF Postcat
    <3> DEFINE q == [p EXCEPT !.read = TRUE,
                              !.unsent = IF ok THEN p.batch \ Unparsable ELSE {}]
    <3>1. q.batch = p.batch /\ q.unsent \subseteq p.batch /\ (q.read \/ q.unsent = {})
      BY <2>1 DEF Parsers
    <3>2. parsers'[u] = (parsers[u] \ {p}) \cup {q}
      BY <1>t, <3>0 DEF TypeOK
    <3>3. UNCHANGED <<walker, batcher, writer, wg, batch, walked, todo>>
      BY <2>2 DEF Postcat
    <3> HIDE DEF q
    <3>4. QED
      BY <1>6, <3>1, <3>2, <3>3
  <2>3. CASE Send(u, p)
    <3>1. PICK f \in Files :
            parsers'[u] = (parsers[u] \ {p}) \cup {[p EXCEPT !.unsent = @ \ {f}]}
      BY <1>t, <2>3 DEF Send, TypeOK
    <3> DEFINE q == [p EXCEPT !.unsent = @ \ {f}]
    <3>2. q.batch = p.batch /\ q.unsent \subseteq p.batch /\ (q.read \/ q.unsent = {})
      BY <2>1 DEF Parsers
    <3>3. UNCHANGED <<walker, batcher, writer, wg, batch, walked, todo>>
      BY <2>3 DEF Send
    <3>4. parsers'[u] = (parsers[u] \ {p}) \cup {q}
      BY <3>1
    <3> HIDE DEF q
    <3>5. QED
      BY <1>6, <3>2, <3>3, <3>4
  <2>4. QED
    BY <1>7, <2>2, <2>3
<1>8. ASSUME NEW p \in parsers[u], ParserReturns(u, p)
      PROVE  (Placed(u) /\ Counted(u) /\ Apart(u))'
  <2>1. /\ parsers'[u] = parsers[u] \ {p} /\ wg'[u] = wg[u] - 1
        /\ UNCHANGED <<walker, batcher, writer, batch, walked, todo>>
    BY <1>t, <1>8 DEF ParserReturns, TypeOK
  <2>2. /\ IsFiniteSet(parsers'[u])
        /\ Cardinality(parsers'[u]) = Cardinality(parsers[u]) - 1
        /\ Cardinality(parsers[u]) \in Nat
    <3>1. IsFiniteSet(parsers[u])
      BY <1>a DEF Counted
    <3>2. QED
      BY <2>1, <3>1, Removed
  <2>3. Placed(u)' /\ Counted(u)'
    BY <1>a, <2>1, <2>2 DEF Placed, Counted
  <2>4. Apart(u)'
    BY <1>a, <2>1 DEF Apart
  <2>5. QED
    BY <2>3, <2>4
<1>9. CASE WriterStep(u)
  BY <1>a, <1>t, <1>9 DEF TypeOK, WriterStep, Watch, Collect, Exec, Placed, Counted, Apart
<1>10. QED
  BY <1>1, <1>2, <1>3, <1>4, <1>5, <1>7, <1>8, <1>9
  DEF UpdateStep, WalkerStep, ParserStep

-----------------------------------------------------------------------------
(* The inductive invariant of the pipeline.                                *)
THEOREM InvCorrect == Spec => []Inv
<1> USE MailQueueAssumption
<1>1. Init => Inv
  <2> SUFFICES ASSUME Init PROVE Inv
    OBVIOUS
  <2>1. TypeOK
    BY DEF Init, TypeOK, Nothing
  <2>2. ASSUME NEW u \in Updates
        PROVE  Placed(u) /\ Counted(u) /\ Apart(u)
    <3>1. Cardinality(parsers[u]) = 0 /\ IsFiniteSet(parsers[u])
      BY FS_EmptySet DEF Init
    <3>2. QED
      BY <3>1 DEF Init, Placed, Counted, Apart
  <2>3. QED
    BY <2>1, <2>2 DEF Inv
<1>2. Inv /\ [Next]_vars => Inv'
  <2> SUFFICES ASSUME Inv, [Next]_vars
               PROVE  Inv'
    OBVIOUS
  <2>1. ASSUME NEW u \in Updates, UpdateStep(u)
        PROVE  Inv'
    <3>1. ASSUME NEW v \in Updates, v # u
          PROVE  (Placed(v) /\ Counted(v) /\ Apart(v))'
      <4>1. Placed(v) /\ Counted(v) /\ Apart(v)
        BY DEF Inv
      <4>2. QED
        BY <2>1, <3>1, <4>1, OthersKept DEF Placed, Counted, Apart
    <3>2. QED
      BY <2>1, <3>1, TypeStep, OwnStep DEF Inv
  <2>2. ASSUME UNCHANGED <<walkVars, batchVars, parseVars, envelopes, writeVars, keyVars>>
               \/ \E f \in Files : Delivered(f)
        PROVE  Inv'
    <3>1. /\ UNCHANGED <<walker, todo, walked, batchVars, parseVars, envelopes,
                         writeVars, keyVars>>
          /\ spool' \subseteq Files
      BY <2>2 DEF Delivered, Inv, TypeOK, walkVars
    <3>2. QED
      BY <3>1 DEF Inv, TypeOK, Placed, Counted, Apart, batchVars, parseVars,
         writeVars, keyVars
  <2>3. QED
    BY <2>1, <2>2 DEF Next, vars
<1>3. QED
  BY <1>1, <1>2, PTL DEF Spec

(* Every variable has its type; in particular wg never goes below zero.    *)
THEOREM TypeCorrect == Spec => []TypeOK
BY InvCorrect, PTL DEF Inv

(* Nobody sends on the channel of envelopes once it is closed.             *)
THEOREM ChannelCorrect == Spec => []NoSendOnClosed
<1>1. Inv => NoSendOnClosed
  BY DEF Inv, Placed, NoSendOnClosed
<1>2. QED
  BY <1>1, InvCorrect, PTL

-----------------------------------------------------------------------------
(* Where the files that were visited are: every one that counts is still   *)
(* in the batch, in a goroutine, in the channel or in the transaction, and *)
(* what was sent is what counts.                                           *)
Sent(u) == envelopes[u] \cup pushes[u]
Ignored(u) == lost[u] \cup Unparsable

InBatch(u, f) == batcher[u] = "batching" /\ f \in batch[u]
InParser(u, f) ==
  \E p \in parsers[u] : f \in p.unsent \/ (~p.read /\ f \in p.batch)

Conserved(u) ==
  /\ Sent(u) \cup lost[u] \subseteq walked[u]
  /\ Sent(u) \cap Ignored(u) = {}
  /\ batcher[u] = "batching" => batch[u] \cap (Sent(u) \cup lost[u]) = {}
  /\ \A p \in parsers[u] :
       /\ p.unsent \cap Ignored(u) = {}
       /\ ~p.read => p.batch \cap (Sent(u) \cup lost[u]) = {}
  /\ \A f \in walked[u] \ Ignored(u) :
       f \in Sent(u) \/ InBatch(u, f) \/ InParser(u, f)

LEMMA ConservedStep ==
  ASSUME Inv, NEW u \in Updates, Conserved(u), UpdateStep(u)
  PROVE  Conserved(u)'
<1>t. TypeOK /\ Placed(u) /\ Apart(u)
  BY DEF Inv
<1>a. \A p \in parsers[u] : p \in Parsers
  BY <1>t DEF TypeOK
<1> USE DEF walkVars, batchVars, parseVars, writeVars, keyVars
<1>1. CASE Start(u)
  <2>1. /\ parsers[u] = {} /\ batch[u] = {} /\ walked[u] = {}
        /\ UNCHANGED <<parsers, batch, walked, lost, envelopes, pushes>>
    BY <1>1, <1>t DEF Start, Placed
  <2>2. QED
    BY <2>1 DEF Conserved, Sent, Ignored
<1>2. CASE Walk(u)
  <2>1. PICK f \in Files : Walk(u)!2!(f)
    BY <1>2 DEF Walk
  <2> DEFINE seen == {f} \cap spool
             b == batch[u] \cup seen
             q == Unread(b)
  <2>2. /\ batcher[u] = "batching" /\ f \notin walked[u]
        /\ walked'[u] = walked[u] \cup seen
        /\ UNCHANGED <<batcher, lost, envelopes, pushes>>
    BY <1>2, <1>t, <2>1 DEF Walk, Placed, Apart, IsFirst, TypeOK
  <2>3. \/ batch'[u] = {} /\ parsers'[u] = parsers[u] \cup {q}
        \/ batch'[u] = b /\ parsers'[u] = parsers[u]
    BY <1>t, <2>1 DEF TypeOK
  <2>4. q.batch = b /\ q.unsent = {} /\ ~q.read
    BY DEF Unread
  <2>5. b \cap (Sent(u) \cup lost[u]) = {} /\ Sent(u)' = Sent(u) /\ Ignored(u)' = Ignored(u)
    BY <2>2 DEF Conserved, Sent, Ignored
  <2> HIDE DEF q
  <2>6. ASSUME NEW g \in walked'[u] \ Ignored(u)'
        PROVE  g \in Sent(u)' \/ InBatch(u, g)' \/ InParser(u, g)'
    <3>1. g \in Sent(u) \/ g \in b \/ InParser(u, g)
      BY <2>2, <2>5, <2>6 DEF Conserved, InBatch
    <3>2. QED
      BY <2>2, <2>3, <2>4, <2>5, <3>1 DEF InBatch, InParser
  <2>7. \A p \in parsers'[u] :
          /\ p.unsent \cap Ignored(u) = {}
          /\ ~p.read => p.batch \cap (Sent(u) \cup lost[u]) = {}
    BY <2>3, <2>4, <2>5 DEF Conserved
  <2>8. batch'[u] \cap (Sent(u) \cup lost[u]) = {}
    BY <2>3, <2>5
  <2>9. Sent(u) \cup lost[u] \subseteq walked'[u] /\ Sent(u) \cap Ignored(u) = {}
    BY <2>2 DEF Conserved
  <2>10. QED
    BY <2>2, <2>5, <2>6, <2>7, <2>8, <2>9 DEF Conserved
<1>3. CASE CloseFiles(u) \/ CloseEnvelopes(u) \/ Watch(u) \/ Exec(u)
  <2>1. UNCHANGED <<walked, batcher, batch, parsers, lost, envelopes, pushes>>
    BY <1>3 DEF CloseFiles, CloseEnvelopes, Watch, Exec
  <2>2. QED
    BY <2>1 DEF Conserved, Sent, Ignored, InBatch, InParser
<1>4. CASE LastBatch(u)
  <2> DEFINE q == Unread(batch[u])
  <2>1. /\ batcher[u] = "batching" /\ batcher'[u] = "returned"
        /\ parsers'[u] = parsers[u] \cup {q}
        /\ UNCHANGED <<walked, lost, envelopes, pushes>>
    BY <1>t, <1>4 DEF LastBatch, TypeOK
  <2>2. q.batch = batch[u] /\ q.unsent = {} /\ ~q.read
    BY DEF Unread
  <2> HIDE DEF q
  <2>3. QED
    BY <2>1, <2>2 DEF Conserved, Sent, Ignored, InBatch, InParser
<1>5. ASSUME NEW p \in parsers[u], Postcat(u, p)
      PROVE  Conserved(u)'
  <2>0. PICK ok \in {p.batch \subseteq spool, FALSE} : Postcat(u, p)!2!(ok)
    BY <1>5 DEF Postcat
  <2> DEFINE q == [p EXCEPT !.read = TRUE,
                            !.unsent = IF ok THEN p.batch \ Unparsable ELSE {}]
  <2>1. /\ ~p.read
        /\ parsers'[u] = (parsers[u] \ {p}) \cup {q}
        /\ lost'[u] = IF ok THEN lost[u] ELSE lost[u] \cup p.batch
        /\ UNCHANGED <<walked, batcher, batch, envelopes, pushes>>
    BY <1>t, <1>5, <2>0 DEF Postcat, TypeOK
  <2>2. q.read /\ q.unsent = IF ok THEN p.batch \ Unparsable ELSE {}
    BY <1>a DEF Parsers
  <2>3. /\ p.batch \cap (Sent(u) \cup lost[u]) = {} /\ p.batch \subseteq walked[u]
        /\ batcher[u] = "batching" => p.batch \cap batch[u] = {}
        /\ \A r \in parsers[u] \ {p} :
             r.batch \cap p.batch = {} /\ r.unsent \subseteq r.batch
    BY <1>t, <2>1 DEF Conserved, Apart
  <2> HIDE DEF q
  <2>4. Sent(u)' = Sent(u) /\ Ignored(u)' = lost'[u] \cup Unparsable
    BY <2>1 DEF Sent, Ignored
  <2>5. ASSUME NEW f \in walked'[u] \ Ignored(u)'
        PROVE  f \in Sent(u)' \/ InBatch(u, f)' \/ InParser(u, f)'
    <3>1. f \in walked[u] \ Ignored(u) /\ f \notin Unparsable
      BY <2>1, <2>4, <2>5 DEF Ignored
    <3>2. CASE f \in p.batch
      <4>1. ok
        BY <2>1, <2>4, <2>5, <3>2
      <4>2. f \in q.unsent
        BY <2>2, <3>1, <3>2, <4>1
      <4>3. QED
        BY <2>1, <4>2 DEF InParser
    <3>3. CASE f \notin p.batch
      <4>1. p.unsent \subseteq p.batch
        BY <1>t DEF Apart
      <4>2. f \in Sent(u) \/ InBatch(u, f) \/ InParser(u, f)
        BY <3>1 DEF Conserved
      <4>3. CASE InParser(u, f)
        BY <2>1, <3>3, <4>1, <4>3 DEF InParser
      <4>4. QED
        BY <2>1, <2>4, <4>2, <4>3 DEF InBatch
    <3>4. QED
      BY <3>2, <3>3
  <2>6. \A r \in parsers'[u] :
          /\ r.unsent \cap Ignored(u)' = {}
          /\ ~r.read => r.batch \cap (Sent(u) \cup lost'[u]) = {}
    <3>1. ASSUME NEW r \in parsers[u] \ {p}
          PROVE  /\ r.unsent \cap Ignored(u)' = {}
                 /\ ~r.read => r.batch \cap (Sent(u) \cup lost'[u]) = {}
      BY <2>1, <2>3, <2>4 DEF Conserved, Ignored
    <3>2. q.unsent \cap Ignored(u)' = {}
      BY <2>1, <2>2, <2>3, <2>4
    <3>3. QED
      BY <2>1, <2>2, <3>1, <3>2
  <2>7. /\ Sent(u) \cup lost'[u] \subseteq walked[u]
        /\ Sent(u) \cap Ignored(u)' = {}
        /\ batcher[u] = "batching" => batch[u] \cap (Sent(u) \cup lost'[u]) = {}
    BY <2>1, <2>3, <2>4 DEF Conserved, Ignored
  <2>8. QED
    BY <2>1, <2>4, <2>5, <2>6, <2>7 DEF Conserved
<1>6. ASSUME NEW p \in parsers[u], Send(u, p)
      PROVE  Conserved(u)'
  <2>1. PICK f \in Files : Send(u, p)!3!(f)
    BY <1>6 DEF Send
  <2> DEFINE q == [p EXCEPT !.unsent = @ \ {f}]
  <2>2. /\ f \in p.unsent
        /\ parsers'[u] = (parsers[u] \ {p}) \cup {q}
        /\ envelopes'[u] = envelopes[u] \cup {f}
    BY <1>t, <2>1 DEF IsFirst, TypeOK
  <2>3. UNCHANGED <<walked, batcher, batch, lost, pushes>>
    BY <1>6 DEF Send
  <2>4. /\ q.read = p.read /\ q.batch = p.batch
        /\ q.unsent = p.unsent \ {f}
    BY <1>a DEF Parsers
  <2>5. /\ f \in p.batch /\ f \in walked[u] /\ f \notin Ignored(u)
        /\ batcher[u] = "batching" => f \notin batch[u]
        /\ \A r \in parsers[u] \ {p} : f \notin r.batch
    BY <1>t, <2>2 DEF Apart, Conserved
  <2>6. p.read
    BY <1>t, <2>2 DEF Apart
  <2> HIDE DEF q
  <2>7. Sent(u)' = Sent(u) \cup {f} /\ Ignored(u)' = Ignored(u)
    BY <2>2, <2>3 DEF Sent, Ignored
  <2>8. ASSUME NEW g \in walked'[u] \ Ignored(u)'
        PROVE  g \in Sent(u)' \/ InBatch(u, g)' \/ InParser(u, g)'
    <3>1. g \in Sent(u) \/ InBatch(u, g) \/ InParser(u, g)
      BY <2>3, <2>7, <2>8 DEF Conserved
    <3>2. CASE InParser(u, g)
      BY <2>2, <2>4, <2>7, <3>2 DEF InParser
    <3>3. QED
      BY <2>3, <2>7, <3>1, <3>2 DEF InBatch
  <2>9. \A r \in parsers'[u] :
          /\ r.unsent \cap Ignored(u) = {}
          /\ ~r.read => r.batch \cap (Sent(u)' \cup lost[u]) = {}
    <3>1. ASSUME NEW r \in parsers[u] \ {p}
          PROVE  /\ r.unsent \cap Ignored(u) = {}
                 /\ ~r.read => r.batch \cap (Sent(u)' \cup lost[u]) = {}
      BY <2>5, <2>7 DEF Conserved
    <3>2. q.unsent \cap Ignored(u) = {}
      BY <2>4 DEF Conserved
    <3>3. q.read
      BY <2>4, <2>6
    <3>4. QED
      BY <2>2, <3>1, <3>2, <3>3
  <2>10. QED
    BY <2>3, <2>5, <2>7, <2>8, <2>9 DEF Conserved, Ignored
<1>7. ASSUME NEW p \in parsers[u], ParserReturns(u, p)
      PROVE  Conserved(u)'
  <2>1. /\ p.read /\ p.unsent = {}
        /\ parsers'[u] = parsers[u] \ {p}
        /\ UNCHANGED <<walked, batcher, batch, lost, envelopes, pushes>>
    BY <1>t, <1>7 DEF ParserReturns, TypeOK
  <2>2. \A f : InParser(u, f) => InParser(u, f)'
    BY <2>1 DEF InParser
  <2>3. QED
    BY <2>1, <2>2 DEF Conserved, Sent, Ignored, InBatch
<1>8. CASE Collect(u)
  <2>1. Sent(u)' = Sent(u)
    BY <1>t, <1>8 DEF Collect, Sent, TypeOK
  <2>2. UNCHANGED <<walked, batcher, batch, parsers, lost>>
    BY <1>8 DEF Collect
  <2>3. QED
    BY <2>1, <2>2 DEF Conserved, Ignored, InBatch, InParser
<1>9. QED
  BY <1>1, <1>2, <1>3, <1>4, <1>5, <1>6, <1>7, <1>8
  DEF UpdateStep, WalkerStep, ParserStep, WriterStep

(* The last update that wrote the key found what is in it.                 *)
Written ==
  list # Nothing =>
    /\ list.by \in Updates /\ walker[list.by] = "returned"
    /\ list.items = walked[list.by] \ Ignored(list.by)

LEMMA WrittenStep ==
  ASSUME Inv, Written, NEW u \in Updates, Conserved(u), UpdateStep(u)
  PROVE  Written'
<1>t. TypeOK /\ Placed(u)
  BY DEF Inv
<1> USE DEF walkVars, batchVars, parseVars, writeVars, keyVars
<1>1. CASE list' # list
  <2>1. Exec(u) /\ list' = [by |-> u, items |-> pushes[u]]
    BY <1>1 DEF UpdateStep, WalkerStep, ParserStep, WriterStep, Start, Walk, CloseFiles,
       CloseEnvelopes, LastBatch, Postcat, Send, ParserReturns, Watch, Collect, Exec
  <2>2. /\ walker[u] = "returned" /\ envelopes[u] = {}
        /\ UNCHANGED <<walker, walked, lost>>
    BY <2>1 DEF Exec
  <2>3. parsers[u] = {} /\ batcher[u] = "returned"
    BY <1>t, <2>2 DEF Placed
  <2>4. pushes[u] = walked[u] \ Ignored(u)
    BY <2>2, <2>3 DEF Conserved, Sent, InBatch, InParser, Ignored
  <2>5. list'.by = u /\ list'.items = pushes[u]
    BY <2>1
  <2>6. QED
    BY <2>2, <2>4, <2>5 DEF Written, Ignored
<1>2. CASE list' = list
  <2> SUFFICES ASSUME list # Nothing
               PROVE  /\ list.by \in Updates /\ walker'[list.by] = "returned"
                      /\ list.items = walked'[list.by] \ (lost'[list.by] \cup Unparsable)
    BY <1>2 DEF Written, Ignored
  <2> DEFINE v == list.by
  <2>1. v \in Updates /\ walker[v] = "returned" /\ list.items = walked[v] \ Ignored(v)
    BY DEF Written
  <2>2. walker'[v] = walker[v] /\ walked'[v] = walked[v] /\ lost'[v] = lost[v]
    <3>1. CASE v = u
      <4>1. walker[u] = "returned" /\ parsers[u] = {}
        BY <1>t, <2>1, <3>1 DEF Placed
      <4>2. CloseEnvelopes(u) \/ LastBatch(u) \/ WriterStep(u)
        BY <4>1 DEF UpdateStep, WalkerStep, ParserStep, Start, Walk, CloseFiles
      <4>3. QED
        BY <3>1, <4>1, <4>2 DEF CloseEnvelopes, LastBatch, WriterStep, Watch, Collect, Exec
    <3>2. CASE v # u
      BY <2>1, <3>2, OthersKept
    <3>3. QED
      BY <3>1, <3>2
  <2>3. QED
    BY <2>1, <2>2 DEF Ignored
<1>3. QED
  BY <1>1, <1>2

(* What Redis holds is what one update found, nothing lost on the way.     *)
THEOREM WholeCorrect == Spec => []ListIsWhole
<1> DEFINE I == Written /\ \A u \in Updates : Conserved(u)
<1>1. Init => I
  BY DEF Init, Written, Conserved, Sent, Ignored
<1>2. Inv /\ I /\ [Next]_vars => I'
  <2> SUFFICES ASSUME Inv, I, [Next]_vars
               PROVE  I'
    OBVIOUS
  <2>1. ASSUME NEW u \in Updates, UpdateStep(u)
        PROVE  I'
    <3>1. Written'
      BY <2>1, WrittenStep
    <3>2. ASSUME NEW v \in Updates
          PROVE  Conserved(v)'
      <4>1. CASE v = u
        BY <2>1, <4>1, ConservedStep
      <4>2. CASE v # u
        <5>1. Conserved(v)
          OBVIOUS
        <5>2. QED
          BY <2>1, <4>2, <5>1, OthersKept
          DEF Conserved, Sent, Ignored, InBatch, InParser
      <4>3. QED
        BY <4>1, <4>2
    <3>3. QED
      BY <3>1, <3>2
  <2>2. CASE \E f \in Files : Delivered(f)
    BY <2>2 DEF Delivered, Written, Conserved, Sent, Ignored, InBatch, InParser,
       batchVars, parseVars, writeVars, keyVars
  <2>3. CASE UNCHANGED vars
    BY <2>3 DEF vars, Written, Conserved, Sent, Ignored, InBatch, InParser,
       walkVars, batchVars, parseVars, writeVars, keyVars
  <2>4. QED
    BY <2>1, <2>2, <2>3 DEF Next
<1>3. I => ListIsWhole
  BY DEF Written, ListIsWhole, Ignored
<1>4. QED
  BY <1>1, <1>2, <1>3, InvCorrect, PTL DEF Spec
-----------------------------------------------------------------------------
(* Services: the hosts whose mail queues are shown.                        *)

(* What is known of a quotient.                                            *)
LEMMA Quotient ==
  ASSUME NEW m \in Nat \ {0}, NEW x \in Nat
  PROVE  /\ x \div m \in Nat
         /\ m * (x \div m) \in Nat
         /\ m * (x \div m) <= x
         /\ x < m * (x \div m) + m
<1>1. x = m * (x \div m) + (x % m) /\ 0 <= x % m /\ x % m < m /\ x % m \in Int
  OBVIOUS
<1>2. x \div m \in Int /\ x \div m >= 0
  OBVIOUS
<1>3. m * (x \div m) \in Int
  BY <1>2
<1>4. m * (x \div m) >= 0
  BY <1>2
<1> QED
  BY <1>1, <1>2, <1>3, <1>4

LEMMA Multiples ==
  ASSUME NEW m \in Nat \ {0}, NEW p \in Int, NEW q \in Int, NEW d \in Int, p >= q + d
  PROVE  m * p >= m * q + m * d
<1>1. p - q - d \in Nat
  OBVIOUS
<1>2. m * (p - q - d) >= 0
  BY <1>1
<1> QED
  BY <1>2

(* Quotients of numbers that are apart by up to d times the divisor are    *)
(* apart by up to d.                                                       *)
LEMMA QuotientsApart ==
  ASSUME NEW m \in Nat \ {0}, NEW x \in Nat, NEW y \in Nat, NEW d \in {0, 1},
         x <= y + m * d
  PROVE  x \div m <= y \div m + d
<1>1. SUFFICES ASSUME x \div m >= y \div m + (d + 1) PROVE FALSE
  BY Quotient
<1>2. m * (x \div m) >= m * (y \div m) + m * (d + 1)
  BY <1>1, Quotient, Multiples
<1>3. m * (d + 1) = m * d + m
  OBVIOUS
<1> QED
  BY <1>2, <1>3, Quotient
-----------------------------------------------------------------------------
ServicesTypes ==
  /\ clock \in 0 .. MaxClock
  /\ ahead \in [Hosts -> 0 .. Skew]
  /\ up \subseteq Hosts
  /\ announced \in [Hosts -> {Never} \cup 0 .. clock]
  /\ stopped \in [Hosts -> {Never} \cup 0 .. clock]
  /\ members \in [Minutes -> SUBSET Hosts]
  /\ expires \in [Minutes -> Nat]

\* The minute of a time, by the clock of host h.
MinuteOf(time, h) == (time + ahead[h]) \div Minute

(* A host that is up, and met no error, is in the sets around its last     *)
(* announcement, which last for longer than the next one is due.           *)
Lasting(g) ==
  g \in up \ incomplete =>
    /\ announced[g] # Never /\ clock <= announced[g] + Interval + Late
    /\ \A i \in -1 .. 1 :
         /\ g \in members[MinuteOf(announced[g], g) + i]
         /\ expires[MinuteOf(announced[g], g) + i] >= announced[g] + Ttl

\* When a host last may have announced itself.
LastSeen(g) == IF g \in up THEN announced[g] ELSE stopped[g]

(* No set names a host that is of a later minute than its last announcement *)
(* can have been about.                                                    *)
Passing(g) ==
  \A k \in Minutes : g \in members[k] =>
    LastSeen(g) # Never /\ k <= MinuteOf(LastSeen(g), g) + 1

ServicesInv == ServicesTypes /\ \A g \in Hosts : Lasting(g) /\ Passing(g)

LEMMA MinuteOfFacts ==
  ASSUME ServicesTypes, NEW h \in Hosts, NEW t \in 0 .. MaxClock
  PROVE  /\ MinuteOf(t, h) \in Nat
         /\ \A i \in -1 .. 1 : MinuteOf(t, h) + i \in Minutes
<1>1. /\ t + ahead[h] \in Nat /\ t + ahead[h] <= (MaxClock + Skew) + Minute * 0
      /\ MaxClock + Skew \in Nat /\ Minute \in Nat \ {0}
  BY ServicesAssumption DEF ServicesTypes
<1>2. MinuteOf(t, h) \in Nat /\ (MaxClock + Skew) \div Minute \in Nat
  BY <1>1, Quotient DEF MinuteOf
<1>3. MinuteOf(t, h) <= (MaxClock + Skew) \div Minute + 0
  BY <1>1, QuotientsApart DEF MinuteOf
<1> QED
  BY <1>2, <1>3 DEF Minutes

(* Later times are in no earlier minute, ...                               *)
LEMMA MinutesPass ==
  ASSUME ServicesTypes, NEW h \in Hosts, NEW t \in 0 .. MaxClock, NEW u \in t .. MaxClock
  PROVE  MinuteOf(t, h) <= MinuteOf(u, h)
<1>1. /\ t + ahead[h] \in Nat /\ u + ahead[h] \in Nat /\ Minute \in Nat \ {0}
      /\ t + ahead[h] <= (u + ahead[h]) + Minute * 0
  BY ServicesAssumption DEF ServicesTypes
<1>2. MinuteOf(t, h) <= MinuteOf(u, h) + 0
  BY <1>1, QuotientsApart DEF MinuteOf
<1> QED
  BY <1>1, <1>2, Quotient DEF MinuteOf

(* ... and those around an announcement in none that it does not name,     *)
(* whichever clock is ahead.                                               *)
LEMMA MinutesAround ==
  ASSUME ServicesTypes, NEW g \in Hosts, NEW h \in Hosts, NEW t \in 0 .. MaxClock,
         NEW u \in t .. MaxClock, u <= t + Interval + Late
  PROVE  \E i \in -1 .. 1 : MinuteOf(u, h) = MinuteOf(t, g) + i
<1>1. /\ t + ahead[g] \in Nat /\ u + ahead[h] \in Nat /\ Minute \in Nat \ {0}
      /\ t + ahead[g] <= (u + ahead[h]) + Minute * 1
      /\ u + ahead[h] <= (t + ahead[g]) + Minute * 1
  BY ServicesAssumption DEF ServicesTypes
<1>2. /\ MinuteOf(t, g) <= MinuteOf(u, h) + 1
      /\ MinuteOf(u, h) <= MinuteOf(t, g) + 1
  BY <1>1, QuotientsApart DEF MinuteOf
<1>3. MinuteOf(t, g) \in Nat /\ MinuteOf(u, h) \in Nat
  BY MinuteOfFacts
<1>4. MinuteOf(u, h) - MinuteOf(t, g) \in -1 .. 1
  BY <1>2, <1>3
<1> QED
  BY <1>3, <1>4

\* The sets a host announces itself in.
LEMMA AnnouncedFacts ==
  ASSUME ServicesTypes, NEW h \in Hosts
  PROVE  /\ Announced(h) = {MinuteOf(clock, h) + i : i \in -1 .. 1}
         /\ Announced(h) \subseteq Minutes
         /\ MinuteOf(clock, h) \in Nat
         /\ \A k \in Announced(h) : k <= MinuteOf(clock, h) + 1
<1>1. clock \in 0 .. MaxClock
  BY DEF ServicesTypes
<1>2. /\ MinuteOf(clock, h) \in Nat
      /\ \A i \in -1 .. 1 : MinuteOf(clock, h) + i \in Minutes
  BY <1>1, MinuteOfFacts
<1>3. Announced(h) = {MinuteOf(clock, h) + i : i \in -1 .. 1}
  BY DEF Announced, CurrentMinute, MinuteOf
<1> QED
  BY <1>2, <1>3

(* What an announcement in some of the sets leaves as it was.              *)
LEMMA AnnounceFacts ==
  ASSUME ServicesInv, NEW h \in Hosts, NEW K \in SUBSET Announced(h),
         NEW E \in SUBSET Announced(h), Announce(h, K, E)
  PROVE  /\ members' \in [Minutes -> SUBSET Hosts] /\ expires' \in [Minutes -> Nat]
         /\ \A k \in Minutes :
              /\ members[k] \subseteq members'[k]
              /\ members'[k] \subseteq members[k] \cup (IF k \in K THEN {h} ELSE {})
              /\ \/ expires'[k] = expires[k]
                 \/ expires'[k] = clock + Ttl
         /\ \A k \in K : h \in members'[k] /\ (k \in E => expires'[k] = clock + Ttl)
<1>1. clock \in Nat /\ Ttl \in Nat /\ members \in [Minutes -> SUBSET Hosts]
      /\ expires \in [Minutes -> Nat] /\ K \subseteq Minutes
  BY ServicesAssumption, AnnouncedFacts DEF ServicesInv, ServicesTypes
<1> QED
  BY <1>1 DEF Announce

(* What holds of a host through a step in which it neither announces       *)
(* itself nor stops, and no set is dropped before its time.                *)
LEMMA OthersStep ==
  ASSUME ServicesInv, NEW g \in Hosts, ServicesTypes',
         ahead' = ahead, clock' = clock,
         g \in up' <=> g \in up, g \in incomplete' <=> g \in incomplete, announced'[g] = announced[g], stopped'[g] = stopped[g],
         \A k \in Minutes :
           /\ g \in members'[k] <=> g \in members[k]
           /\ expires'[k] = expires[k] \/ expires'[k] = clock + Ttl
  PROVE  Lasting(g)' /\ Passing(g)'
<1>1. Lasting(g) /\ Passing(g) /\ ServicesTypes
  BY DEF ServicesInv
<1>2. Passing(g)'
  BY <1>1 DEF Passing, LastSeen, MinuteOf
<1>3. ASSUME g \in up \ incomplete PROVE Lasting(g)'
  <2>1. announced[g] \in 0 .. MaxClock /\ announced[g] <= clock /\ clock \in Nat
        /\ Ttl \in Nat
    BY <1>1, <1>3, ServicesAssumption DEF Lasting, ServicesTypes, Never
  <2>2. \A i \in -1 .. 1 : MinuteOf(announced[g], g) + i \in Minutes
    BY <1>1, <2>1, MinuteOfFacts
  <2>3. MinuteOf(announced[g], g)' = MinuteOf(announced[g], g)
    BY DEF MinuteOf
  <2>4. \A k \in Minutes : expires[k] \in Nat
    BY <1>1 DEF ServicesTypes
  <2>5. \A i \in -1 .. 1 : expires'[MinuteOf(announced[g], g) + i] >= announced[g] + Ttl
    BY <1>1, <1>3, <2>1, <2>2, <2>4 DEF Lasting
  <2> QED
    BY <1>1, <1>3, <2>2, <2>3, <2>5 DEF Lasting
<1> QED
  BY <1>2, <1>3 DEF Lasting
-----------------------------------------------------------------------------
LEMMA UpdateRunningListStep ==
  ASSUME ServicesInv, NEW h \in Hosts, UpdateRunningList(h)
  PROVE  ServicesInv'
<1>1. ServicesTypes /\ clock \in 0 .. MaxClock
  BY DEF ServicesInv, ServicesTypes
<1>2. /\ up' = up \cup {h} /\ clock' = clock /\ ahead' = ahead
      /\ announced' = [announced EXCEPT ![h] = clock]
      /\ stopped' = [stopped EXCEPT ![h] = Never]
      /\ \A g \in Hosts \ {h} : g \in incomplete' <=> g \in incomplete
  BY DEF UpdateRunningList
<1>a. PICK K \in SUBSET Announced(h), E \in SUBSET Announced(h) :
        /\ Announce(h, K, E)
        /\ h \in incomplete' \/ (K = Announced(h) /\ E = Announced(h))
  <2>1. CASE Announce(h, Announced(h), Announced(h))
    BY <2>1
  <2>2. CASE ~ Announce(h, Announced(h), Announced(h))
    <3>1. h \in incomplete'
      BY <2>2 DEF UpdateRunningList
    <3>2. PICK failed \in {{k} : k \in Announced(h)} \cup {Announced(h)} :
            \/ Announce(h, Announced(h) \ failed, Announced(h) \ failed)
            \/ Announce(h, Announced(h), Announced(h) \ failed)
      BY <2>2 DEF UpdateRunningList
    <3> QED
      BY <3>1, <3>2
  <2> QED
    BY <2>1, <2>2
<1>3. /\ Announced(h) = {MinuteOf(clock, h) + i : i \in -1 .. 1} /\ K \subseteq Minutes
      /\ MinuteOf(clock, h) \in Nat /\ \A k \in K : k <= MinuteOf(clock, h) + 1
  BY <1>1, AnnouncedFacts
<1>4. /\ members' \in [Minutes -> SUBSET Hosts] /\ expires' \in [Minutes -> Nat]
      /\ \A k \in Minutes :
           /\ members[k] \subseteq members'[k]
           /\ members'[k] \subseteq members[k] \cup (IF k \in K THEN {h} ELSE {})
           /\ \/ expires'[k] = expires[k]
              \/ expires'[k] = clock + Ttl
      /\ \A k \in K : h \in members'[k] /\ (k \in E => expires'[k] = clock + Ttl)
  BY <1>a, AnnounceFacts
<1>5. /\ announced'[h] = clock /\ stopped'[h] = Never
      /\ \A g \in Hosts \ {h} : announced'[g] = announced[g] /\ stopped'[g] = stopped[g]
  BY <1>1, <1>2 DEF ServicesTypes
<1>6. ServicesTypes'
  BY <1>1, <1>2, <1>4 DEF ServicesTypes
<1>7. ASSUME NEW g \in Hosts \ {h} PROVE Lasting(g)' /\ Passing(g)'
  <2>1. \A k \in Minutes : /\ g \in members'[k] <=> g \in members[k]
                           /\ expires'[k] = expires[k] \/ expires'[k] = clock + Ttl
    BY <1>4
  <2> QED
    BY <1>2, <1>5, <1>6, <2>1, OthersStep
<1>8. MinuteOf(clock, h)' = MinuteOf(clock, h)
      /\ MinuteOf(announced[h], h)' = MinuteOf(clock, h)
  BY <1>2, <1>5 DEF MinuteOf
<1>9. Lasting(h)'
  <2>1. clock # Never /\ clock <= clock + Interval + Late /\ clock + Ttl >= clock + Ttl
    BY <1>1, ServicesAssumption DEF Never
  <2> QED
    BY <1>2, <1>a, <1>3, <1>4, <1>5, <1>8, <2>1 DEF Lasting
<1>10. Passing(h)'
  <2>1. LastSeen(h)' = clock /\ clock # Never
    BY <1>1, <1>2, <1>5 DEF LastSeen, Never
  <2>2. ASSUME NEW k \in Minutes, h \in members'[k]
        PROVE  k <= MinuteOf(clock, h) + 1
    <3>1. CASE k \in K
      BY <1>3, <3>1
    <3>2. CASE k \notin K
      <4>1. h \in members[k]
        BY <1>4, <2>2, <3>2
      <4>2. LastSeen(h) \in 0 .. clock /\ k <= MinuteOf(LastSeen(h), h) + 1
        BY <1>1, <4>1 DEF ServicesInv, Passing, LastSeen, ServicesTypes
      <4>3. LastSeen(h) \in 0 .. MaxClock /\ clock \in LastSeen(h) .. MaxClock
        BY <1>1, <4>2, ServicesAssumption
      <4>4. /\ MinuteOf(LastSeen(h), h) <= MinuteOf(clock, h)
            /\ MinuteOf(LastSeen(h), h) \in Nat /\ k \in Int
        BY <1>1, <4>3, MinutesPass, MinuteOfFacts DEF Minutes
      <4> QED
        BY <1>3, <4>2, <4>4
    <3> QED
      BY <3>1, <3>2
  <2> QED
    BY <1>8, <2>1, <2>2, <1>2, <1>5 DEF Passing, MinuteOf
<1> QED
  BY <1>6, <1>7, <1>9, <1>10 DEF ServicesInv

LEMMA StopStep ==
  ASSUME ServicesInv, NEW h \in Hosts, Stop(h)
  PROVE  ServicesInv'
<1>1. ServicesTypes /\ clock \in 0 .. MaxClock
  BY DEF ServicesInv, ServicesTypes
<1>2. /\ h \in up /\ up' = up \ {h} /\ clock' = clock /\ ahead' = ahead
      /\ announced' = announced /\ incomplete' = incomplete
      /\ stopped' = [stopped EXCEPT ![h] = clock]
  BY DEF Stop, errorVars
<1>3. PICK K \in SUBSET Announced(h) :
        (UNCHANGED setVars /\ K = {}) \/ Announce(h, K, K)
  BY DEF Stop
<1>4. /\ Announced(h) \subseteq Minutes
      /\ MinuteOf(clock, h) \in Nat /\ \A k \in K : k <= MinuteOf(clock, h) + 1
  BY <1>1, AnnouncedFacts
<1>5. /\ members' \in [Minutes -> SUBSET Hosts] /\ expires' \in [Minutes -> Nat]
      /\ \A k \in Minutes :
           /\ members[k] \subseteq members'[k]
           /\ members'[k] \subseteq members[k] \cup (IF k \in K THEN {h} ELSE {})
           /\ \/ expires'[k] = expires[k]
              \/ expires'[k] = clock + Ttl
  <2>1. CASE UNCHANGED setVars
    BY <1>1, <2>1 DEF ServicesTypes, setVars
  <2>2. CASE Announce(h, K, K)
    BY <2>2, AnnounceFacts
  <2> QED
    BY <1>3, <2>1, <2>2
<1>6. stopped'[h] = clock /\ \A g \in Hosts \ {h} : stopped'[g] = stopped[g]
  BY <1>1, <1>2 DEF ServicesTypes
<1>7. ServicesTypes'
  BY <1>1, <1>2, <1>5 DEF ServicesTypes
<1>8. ASSUME NEW g \in Hosts \ {h} PROVE Lasting(g)' /\ Passing(g)'
  <2>1. \A k \in Minutes : /\ g \in members'[k] <=> g \in members[k]
                           /\ expires'[k] = expires[k] \/ expires'[k] = clock + Ttl
    BY <1>5
  <2> QED
    BY <1>2, <1>6, <1>7, <2>1, OthersStep
<1>9. Lasting(h)'
  BY <1>2 DEF Lasting
<1>10. Passing(h)'
  <2>1. LastSeen(h)' = clock /\ clock # Never
    BY <1>1, <1>2, <1>6 DEF LastSeen, Never
  <2>2. ASSUME NEW k \in Minutes, h \in members'[k]
        PROVE  k <= MinuteOf(clock, h) + 1
    <3>1. CASE k \in K
      BY <1>4, <3>1
    <3>2. CASE k \notin K
      <4>1. h \in members[k]
        BY <1>5, <2>2, <3>2
      <4>2. LastSeen(h) \in 0 .. clock /\ k <= MinuteOf(LastSeen(h), h) + 1
        BY <1>1, <4>1 DEF ServicesInv, Passing, LastSeen, ServicesTypes
      <4>3. LastSeen(h) \in 0 .. MaxClock /\ clock \in LastSeen(h) .. MaxClock
        BY <1>1, <4>2, ServicesAssumption
      <4>4. /\ MinuteOf(LastSeen(h), h) <= MinuteOf(clock, h)
            /\ MinuteOf(LastSeen(h), h) \in Nat /\ k \in Int
        BY <1>1, <4>3, MinutesPass, MinuteOfFacts DEF Minutes
      <4> QED
        BY <1>4, <4>2, <4>4
    <3> QED
      BY <3>1, <3>2
  <2>3. MinuteOf(clock, h)' = MinuteOf(clock, h)
    BY <1>2 DEF MinuteOf
  <2> QED
    BY <1>2, <2>1, <2>2, <2>3 DEF Passing, MinuteOf
<1> QED
  BY <1>7, <1>8, <1>9, <1>10 DEF ServicesInv

LEMMA TickStep ==
  ASSUME ServicesInv, Tick
  PROVE  ServicesInv'
<1>1. ServicesTypes /\ clock \in Nat /\ clock' = clock + 1 /\ clock' \in 0 .. MaxClock
      /\ UNCHANGED <<ahead, up, announced, stopped, incomplete>>
  BY ServicesAssumption DEF ServicesInv, ServicesTypes, Tick, errorVars
<1> DEFINE Gone == {k \in Minutes : expires[k] # Persists /\ clock' >= expires[k]}
<1>2. /\ members' = [k \in Minutes |-> IF k \in Gone THEN {} ELSE members[k]]
      /\ expires' = [k \in Minutes |-> IF k \in Gone THEN Persists ELSE expires[k]]
      /\ \A h \in up : clock < announced[h] + Interval + Late
  BY DEF Tick
<1>3. ServicesTypes'
  <2>1. {Never} \cup 0 .. clock \subseteq {Never} \cup 0 .. clock'
    BY <1>1
  <2>2. announced' \in [Hosts -> {Never} \cup 0 .. clock'] /\
        stopped' \in [Hosts -> {Never} \cup 0 .. clock']
    BY <1>1, <2>1 DEF ServicesTypes
  <2>3. members' \in [Minutes -> SUBSET Hosts] /\ expires' \in [Minutes -> Nat]
    BY <1>1, <1>2 DEF ServicesTypes, Persists
  <2> QED
    BY <1>1, <2>2, <2>3 DEF ServicesTypes
<1>4. ASSUME NEW g \in Hosts PROVE Passing(g)'
  BY <1>1, <1>2 DEF ServicesInv, Passing, LastSeen, MinuteOf
<1>5. ASSUME NEW g \in up \ incomplete PROVE Lasting(g)'
  <2>1. g \in Hosts /\ Lasting(g)
    BY <1>1 DEF ServicesInv, ServicesTypes
  <2>2. /\ announced[g] \in 0 .. MaxClock /\ {Interval, Late, Ttl} \subseteq Nat
        /\ Interval + Late < Ttl
    BY <1>1, <2>1, ServicesAssumption DEF Lasting, ServicesTypes
  <2>3. clock' <= announced[g] + Interval + Late /\ clock' < announced[g] + Ttl
    BY <1>1, <1>2, <2>2
  <2>4. \A i \in -1 .. 1 : MinuteOf(announced[g], g) + i \in Minutes
    BY <1>1, <2>1, <2>2, MinuteOfFacts
  <2>5. \A k \in Minutes : expires[k] \in Nat
    BY <1>1 DEF ServicesTypes
  <2>6. ASSUME NEW i \in -1 .. 1
        PROVE  LET k == MinuteOf(announced[g], g) + i
               IN g \in members'[k] /\ expires'[k] >= announced[g] + Ttl
    <3> DEFINE k == MinuteOf(announced[g], g) + i
    <3>1. k \in Minutes /\ g \in members[k] /\ expires[k] >= announced[g] + Ttl
      BY <2>1, <2>4 DEF Lasting
    <3>2. ~(clock' >= expires[k])
      BY <1>1, <2>2, <2>3, <2>5, <3>1
    <3> QED
      BY <1>2, <3>1, <3>2
  <2>7. MinuteOf(announced[g], g)' = MinuteOf(announced[g], g)
    BY <1>1 DEF MinuteOf
  <2> QED
    BY <1>1, <2>1, <2>3, <2>6, <2>7 DEF Lasting
<1> QED
  BY <1>1, <1>3, <1>4, <1>5 DEF ServicesInv, Lasting

LEMMA InitServicesInv == ServicesInit => ServicesInv
<1> SUFFICES ASSUME ServicesInit PROVE ServicesInv
  OBVIOUS
<1>1. ServicesTypes
  BY ServicesAssumption DEF ServicesInit, ServicesTypes, Persists
<1> QED
  BY <1>1 DEF ServicesInit, ServicesInv, Lasting, Passing

LEMMA StepServicesInv == ServicesInv /\ [ServicesNext]_servicesVars => ServicesInv'
<1>1. ServicesInv /\ UNCHANGED servicesVars => ServicesInv'
  <2> SUFFICES ASSUME ServicesInv, UNCHANGED servicesVars PROVE ServicesInv'
    OBVIOUS
  <2>1. UNCHANGED <<clock, ahead, up, announced, stopped, members, expires, incomplete>>
    BY DEF servicesVars, setVars, errorVars
  <2>2. ServicesTypes'
    BY <2>1 DEF ServicesInv, ServicesTypes
  <2>3. \A g \in Hosts : Lasting(g)' /\ Passing(g)'
    BY <2>1 DEF ServicesInv, Lasting, Passing, LastSeen, MinuteOf
  <2> QED
    BY <2>2, <2>3 DEF ServicesInv
<1> QED
  BY <1>1, UpdateRunningListStep, StopStep, TickStep DEF ServicesNext

LEMMA ServicesInductive == ServicesSpec => []ServicesInv
  BY InitServicesInv, StepServicesInv, PTL DEF ServicesSpec

(* A host that runs sees every host that runs and announced itself without *)
(* an error, at any moment between two announcements, whichever of their   *)
(* clocks is ahead and however far the clocks, the ticker and its delay    *)
(* come apart within a minute.                                             *)
THEOREM RunningCorrect == ServicesSpec => []RunningAreListed
<1>1. ServicesInv => RunningAreListed
  <2> SUFFICES ASSUME ServicesInv, NEW h \in up, NEW g \in up \ incomplete
               PROVE  g \in members[CurrentMinute(h)]
    BY DEF RunningAreListed, GetServices
  <2>1. /\ ServicesTypes /\ h \in Hosts /\ g \in Hosts /\ Lasting(g)
    BY DEF ServicesInv, ServicesTypes
  <2>2. /\ announced[g] \in 0 .. MaxClock /\ clock \in announced[g] .. MaxClock
        /\ clock <= announced[g] + Interval + Late
    BY <2>1, ServicesAssumption DEF Lasting, ServicesTypes, Never
  <2>3. PICK i \in -1 .. 1 : MinuteOf(clock, h) = MinuteOf(announced[g], g) + i
    BY <2>1, <2>2, MinutesAround
  <2> QED
    BY <2>1, <2>3 DEF Lasting, CurrentMinute, MinuteOf
<1> QED
  BY <1>1, ServicesInductive, PTL

(* A host that stopped is forgotten two minutes later, and what the clocks *)
(* differ, although the others keep the sets it is in from expiring.       *)
THEOREM StoppedCorrect == ServicesSpec => []StoppedAreForgotten
<1>1. ServicesInv => StoppedAreForgotten
  <2> SUFFICES ASSUME ServicesInv, NEW h \in up, NEW g \in members[CurrentMinute(h)] \ up
               PROVE  clock < stopped[g] + 2 * Minute + Skew
    BY DEF StoppedAreForgotten, GetServices
  <2>1. ServicesTypes /\ h \in Hosts /\ clock \in 0 .. MaxClock
    BY DEF ServicesInv, ServicesTypes
  <2>2. CurrentMinute(h) = MinuteOf(clock, h) /\ CurrentMinute(h) \in Minutes
    <3>1. MinuteOf(clock, h) + 0 \in Minutes /\ MinuteOf(clock, h) \in Nat
      BY <2>1, MinuteOfFacts
    <3> QED
      BY <3>1 DEF CurrentMinute, MinuteOf
  <2>3. g \in Hosts /\ Passing(g)
    BY <2>1, <2>2 DEF ServicesInv, ServicesTypes
  <2>4. /\ stopped[g] \in 0 .. clock
        /\ MinuteOf(clock, h) <= MinuteOf(stopped[g], g) + 1
    BY <2>1, <2>2, <2>3 DEF Passing, LastSeen, ServicesTypes
  <2> DEFINE x == clock + ahead[h]
             y == stopped[g] + ahead[g]
  <2>5. x \in Nat /\ y \in Nat /\ y <= stopped[g] + Skew /\ clock <= x
        /\ Minute \in Nat \ {0}
    BY <2>1, <2>3, <2>4, ServicesAssumption DEF ServicesTypes
  <2>6. y \div Minute >= x \div Minute + (-1) /\ x \div Minute \in Nat /\ y \div Minute \in Nat
    <3>1. x \div Minute <= y \div Minute + 1
      BY <2>4 DEF MinuteOf
    <3> HIDE DEF x, y
    <3>2. x \div Minute \in Nat /\ y \div Minute \in Nat
      BY <2>5, Quotient
    <3> QED
      BY <3>1, <3>2
  <2> HIDE DEF x, y
  <2>7. /\ x < Minute * (x \div Minute) + Minute
        /\ Minute * (y \div Minute) <= y
        /\ Minute * (x \div Minute) \in Nat /\ Minute * (y \div Minute) \in Nat
    BY <2>5, Quotient
  <2>8. Minute * (y \div Minute) >= Minute * (x \div Minute) + Minute * (-1)
    BY <2>5, <2>6, Multiples
  <2>9. x < y + 2 * Minute
    BY <2>5, <2>7, <2>8
  <2> QED
    BY <2>1, <2>4, <2>5, <2>9, ServicesAssumption
<1> QED
  BY <1>1, ServicesInductive, PTL
=============================================================================
