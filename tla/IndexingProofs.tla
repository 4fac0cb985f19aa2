--------------------------- MODULE IndexingProofs ---------------------------
(***************************************************************************)
(* Every session that is read and wanted is at one place in the pipeline   *)
(* of the indexer, or has been stored: the pipeline loses none and handles *)
(* none twice, for any table, any size of pages and batches, any capacity  *)
(* of the channels and any number of persisters.  That nothing is handled  *)
(* twice is what makes storing a session again harmless: as long as its    *)
(* persisters are at work, its messages keep the order they were read in.  *)
(***************************************************************************)
EXTENDS Indexing, FiniteSetTheorems, SequenceTheorems, TLAPS

Sessions == 1 .. Rows

(* The sessions in a channel of sets of sessions.                          *)
In(q) == UNION Range(q)
Apart(q) == \A i, j \in DOMAIN q : i # j => q[i] \cap q[j] = {}

\* What has been sent on for storage and is not stored yet.
AtWork(s) == \E w \in Persisters : persisting[w] # Idle /\ persisting[w][1] = s
Sent == {s \in Sessions : s \in Range(completedSessions) \/ AtWork(s)}

\* What was read and is wanted.
Read == (1 .. lastId) \cap (inRange \ Broken)

Records == [message : Messages, parts : SUBSET Parts]

Types ==
  /\ inRange \in SUBSET Sessions
  /\ lastId \in 0 .. Rows /\ counted \in Nat
  /\ {outgoing, rawSessions, rawMessages} \subseteq Seq(SUBSET Sessions)
  /\ {found, hydrating} \subseteq SUBSET Sessions
  /\ rows \in [Sessions -> Seq(Messages)]
  /\ hydrated \in SUBSET Parts
  /\ completedSessions \in Seq(Sessions)
  /\ persisting \in [Persisters -> {Idle} \cup DocIds]
  /\ documents \in [DocIds -> Records \cup {NoDocument}]
  /\ failed \in SUBSET DocIds

(* A session is at one place, but for those that are being sent on, once   *)
(* for each of their messages.                                             *)
Once ==
  /\ Apart(outgoing) /\ Apart(rawSessions) /\ Apart(rawMessages)
  /\ In(outgoing) \cap (In(rawSessions) \cup found \cup In(rawMessages) \cup hydrating \cup Sent) = {}
  /\ In(rawSessions) \cap (found \cup In(rawMessages) \cup hydrating \cup Sent) = {}
  /\ found \cap (In(rawMessages) \cup hydrating \cup Sent) = {}
  /\ In(rawMessages) \cap (hydrating \cup Sent) = {}
  /\ hydrating \cap Sent # {} => hydrated = Parts
  /\ In(outgoing) \cup In(rawSessions) \cup found \cup In(rawMessages) \cup hydrating \cup Sent
       \subseteq Read
  /\ \A s \in found \cup In(rawMessages) \cup hydrating \cup Sent :
       Scannable(s) # {} /\ rows[s] \in Orders(s)

\* What is stored, and what was.
Written(s, k) ==
  \/ documents[<<s, k>>] = Document(rows[s][k], Parts \ BrokenParts[rows[s][k]])
  \/ <<s, k>> \in failed
Done(s) == rows[s] \in Orders(s) /\ \A k \in DOMAIN rows[s] : Written(s, k)
Original(s) ==
  \A k \in DOMAIN MessagesOf[s] : documents[<<s, k>>] = Document(MessagesOf[s][k], Parts)

Persisted ==
  /\ \A w \in Persisters : persisting[w] # Idle =>
       /\ persisting[w][2] \in DOMAIN rows[persisting[w][1]]
       /\ \A j \in 1 .. persisting[w][2] - 1 : Written(persisting[w][1], j)
  /\ \A s \in Earlier : Original(s) \/ Done(s) \/ AtWork(s)
  /\ \A s \in Earlier : s > lastId \/ s \in In(outgoing) \cup In(rawSessions) => Original(s)

(* What was read is on its way or has arrived.                             *)
Sending(s) == s \in hydrating /\ Scannable(s) \cap unsent # {}
Conserved ==
  \A s \in Read :
    \/ Scannable(s) = {}
    \/ s \in In(outgoing) \cup In(rawSessions) \cup found \cup In(rawMessages) \cup Sent
    \/ Sending(s) \/ Done(s)

(* The last page had nothing that was wanted.                              *)
PageWithout(r) == (r + 1 .. r + PageSize) \cap (inRange \ Broken) = {}
Ending ==
  /\ counted = 0 => \E r \in 0 .. lastId : PageWithout(r)
  /\ "sessions" \in done => outgoing = <<>> /\ counted = 0
  /\ "messages" \in done => "sessions" \in done /\ rawSessions = <<>> /\ found = {}
  /\ "completed" \in done => "messages" \in done /\ rawMessages = <<>> /\ hydrating = {}
  /\ ended = "returned" => "completed" \in done

IndexInv == Types /\ Once /\ Persisted /\ Conserved /\ Ending
-----------------------------------------------------------------------------
(* Channels.                                                               *)

LEMMA AppendFacts ==
  ASSUME NEW S, NEW q \in Seq(S), NEW x \in S
  PROVE  /\ Append(q, x) \in Seq(S)
         /\ Len(Append(q, x)) = Len(q) + 1
         /\ \A i \in 1 .. Len(q) : Append(q, x)[i] = q[i]
         /\ Append(q, x)[Len(q) + 1] = x
         /\ Range(Append(q, x)) = Range(q) \cup {x}
<1>1. /\ Append(q, x) \in Seq(S)
      /\ Len(Append(q, x)) = Len(q) + 1 /\ Len(q) \in Nat
      /\ \A i \in 1 .. Len(q) : Append(q, x)[i] = q[i]
      /\ Append(q, x)[Len(q) + 1] = x
  BY AppendProperties, LenProperties
<1>2. DOMAIN q = 1 .. Len(q) /\ DOMAIN Append(q, x) = 1 .. Len(q) + 1
  BY <1>1, LenProperties
<1>3. \A i \in 1 .. Len(q) + 1 : i \in 1 .. Len(q) \/ i = Len(q) + 1
  BY <1>1
<1>4. 1 .. Len(q) \subseteq 1 .. Len(q) + 1 /\ Len(q) + 1 \in 1 .. Len(q) + 1
  BY <1>1
<1>5. Range(Append(q, x)) = Range(q) \cup {x}
  <2> DEFINE p == Append(q, x)
  <2>1. /\ DOMAIN p = 1 .. Len(q) + 1
        /\ \A i \in 1 .. Len(q) : p[i] = q[i]
        /\ p[Len(q) + 1] = x
    BY <1>1, <1>2
  <2> HIDE DEF p
  <2>2. Range(p) = Range(q) \cup {x}
    BY <1>2, <1>3, <1>4, <2>1 DEF Range
  <2> QED
    BY <2>2 DEF p
<1> QED
  BY <1>1, <1>5

LEMMA TailFacts ==
  ASSUME NEW S, NEW q \in Seq(S), q # <<>>
  PROVE  /\ Head(q) \in S /\ Tail(q) \in Seq(S)
         /\ Range(q) = {Head(q)} \cup Range(Tail(q))
         /\ \A i \in DOMAIN Tail(q) : Tail(q)[i] = q[i + 1] /\ i + 1 \in DOMAIN q
         /\ Head(q) = q[1] /\ 1 \in DOMAIN q
<1>1. /\ Head(q) \in S /\ Tail(q) \in Seq(S) /\ Len(Tail(q)) = Len(q) - 1
      /\ \A i \in 1 .. Len(Tail(q)) : Tail(q)[i] = q[i + 1]
      /\ Len(q) \in Nat \ {0} /\ DOMAIN q = 1 .. Len(q)
      /\ DOMAIN Tail(q) = 1 .. Len(q) - 1
      /\ Head(q) = q[1]
  BY HeadTailProperties, EmptySeq, LenProperties
<1>2. /\ 1 \in 1 .. Len(q)
      /\ \A i \in 1 .. Len(q) - 1 : i + 1 \in 1 .. Len(q)
      /\ \A i \in 1 .. Len(q) : i = 1 \/ (i - 1 \in 1 .. Len(q) - 1 /\ i = (i - 1) + 1)
  BY <1>1
<1>3. Range(q) = {Head(q)} \cup Range(Tail(q))
  <2> DEFINE p == Tail(q)
  <2>1. /\ DOMAIN p = 1 .. Len(q) - 1
        /\ \A i \in 1 .. Len(q) - 1 : p[i] = q[i + 1]
    BY <1>1
  <2>2. Range(p) \subseteq Range(q) /\ Head(q) \in Range(q)
    BY <1>1, <1>2, <2>1 DEF Range
  <2>3. ASSUME NEW i \in 1 .. Len(q) PROVE q[i] \in {Head(q)} \cup Range(p)
    <3>1. CASE i = 1
      BY <1>1, <3>1
    <3>2. CASE i - 1 \in 1 .. Len(q) - 1 /\ i = (i - 1) + 1
      <4>1. p[i - 1] = q[i]
        BY <2>1, <3>2
      <4> HIDE DEF p
      <4> QED
        BY <2>1, <3>2, <4>1 DEF Range
    <3> QED
      BY <1>2, <3>1, <3>2
  <2> QED
    BY <1>1, <2>2, <2>3 DEF Range
<1> QED
  BY <1>1, <1>2, <1>3

LEMMA InAppend ==
  ASSUME NEW S, NEW q \in Seq(SUBSET S), NEW X \in SUBSET S
  PROVE  /\ Append(q, X) \in Seq(SUBSET S)
         /\ In(Append(q, X)) = In(q) \cup X
         /\ Apart(q) /\ X \cap In(q) = {} => Apart(Append(q, X))
<1>1. /\ Append(q, X) \in Seq(SUBSET S) /\ Len(Append(q, X)) = Len(q) + 1
      /\ \A i \in 1 .. Len(q) : Append(q, X)[i] = q[i]
      /\ Append(q, X)[Len(q) + 1] = X
      /\ Range(Append(q, X)) = Range(q) \cup {X}
  BY AppendFacts
<1>2. In(Append(q, X)) = In(q) \cup X
  BY <1>1 DEF In
<1>3. ASSUME Apart(q), X \cap In(q) = {} PROVE Apart(Append(q, X))
  <2> DEFINE p == Append(q, X)
  <2>1. /\ DOMAIN p = 1 .. Len(q) + 1 /\ DOMAIN q = 1 .. Len(q) /\ Len(q) \in Nat
        /\ \A i \in 1 .. Len(q) : p[i] = q[i]
        /\ p[Len(q) + 1] = X
    BY <1>1, LenProperties
  <2>2. \A i \in 1 .. Len(q) : q[i] \subseteq In(q)
    BY <2>1 DEF In, Range
  <2>3. \A i \in 1 .. Len(q) + 1 : i \in 1 .. Len(q) \/ i = Len(q) + 1
    BY <2>1
  <2> HIDE DEF p
  <2>4. Apart(p)
    BY <1>3, <2>1, <2>2, <2>3 DEF Apart
  <2> QED
    BY <2>4 DEF p
<1> QED
  BY <1>1, <1>2, <1>3

LEMMA InTail ==
  ASSUME NEW S, NEW q \in Seq(SUBSET S), q # <<>>
  PROVE  /\ Head(q) \in SUBSET S /\ Tail(q) \in Seq(SUBSET S)
         /\ In(q) = Head(q) \cup In(Tail(q))
         /\ Apart(q) => Apart(Tail(q)) /\ Head(q) \cap In(Tail(q)) = {}
<1> DEFINE p == Tail(q)
<1>1. /\ Head(q) \in SUBSET S /\ p \in Seq(SUBSET S)
      /\ Range(q) = {Head(q)} \cup Range(p)
      /\ \A i \in DOMAIN p : p[i] = q[i + 1] /\ i + 1 \in DOMAIN q
      /\ Head(q) = q[1] /\ 1 \in DOMAIN q
  BY TailFacts
<1>2. DOMAIN p = 1 .. Len(p) /\ Len(p) \in Nat
  BY <1>1, LenProperties
<1> HIDE DEF p
<1>3. In(q) = Head(q) \cup In(p)
  BY <1>1 DEF In
<1>4. \A i, j \in DOMAIN p : i # j => i + 1 # j + 1 /\ i + 1 # 1
  BY <1>2
<1>5. \A i \in DOMAIN p : i + 1 # 1
  BY <1>2
<1>6. ASSUME Apart(q) PROVE Apart(p) /\ q[1] \cap In(p) = {}
  <2>1. Apart(p)
    BY <1>1, <1>4, <1>6 DEF Apart
  <2>2. \A i \in DOMAIN p : q[1] \cap p[i] = {}
    BY <1>1, <1>5, <1>6 DEF Apart
  <2> QED
    BY <2>1, <2>2 DEF In, Range
<1> QED
  BY <1>1, <1>3, <1>6 DEF p

LEMMA InEmpty == In(<<>>) = {} /\ Apart(<<>>) /\ Range(<<>>) = {}
  BY DEF In, Apart, Range
-----------------------------------------------------------------------------
(* The messages of a session, and the documents they are stored as.        *)

LEMMA MessageFacts ==
  ASSUME NEW s \in Sessions
  PROVE  /\ MessagesOf[s] \in Seq(Messages)
         /\ DOMAIN MessagesOf[s] = 1 .. Len(MessagesOf[s]) /\ Len(MessagesOf[s]) \in Nat
         /\ Scannable(s) \subseteq Messages /\ IsFiniteSet(Scannable(s))
         /\ Cardinality(Scannable(s)) \in 0 .. Len(MessagesOf[s])
         /\ Cardinality(Scannable(s)) = 0 <=> Scannable(s) = {}
         /\ \A t \in Sessions \ {s} : Scannable(s) \cap Scannable(t) = {}
<1>1. MessagesOf[s] \in Seq(Messages)
  BY IndexingAssumption DEF Sessions
<1>2. /\ DOMAIN MessagesOf[s] = 1 .. Len(MessagesOf[s]) /\ Len(MessagesOf[s]) \in Nat
      /\ MessagesOf[s] \in [1 .. Len(MessagesOf[s]) -> Messages]
  BY <1>1, LenProperties
<1>3. Range(MessagesOf[s]) \subseteq Messages
  BY DEF Messages, Sessions
<1> DEFINE D == DOMAIN MessagesOf[s]
           R == Range(MessagesOf[s])
<1>4. MessagesOf[s] \in Surjection(D, R) /\ MessagesOf[s] \in [D -> R]
  BY <1>2 DEF Surjection, Range
<1>5. IsFiniteSet(D) /\ Cardinality(D) = Len(MessagesOf[s])
  BY <1>2, FS_Interval
<1>6. IsFiniteSet(R) /\ Cardinality(R) <= Cardinality(D)
  <2> HIDE DEF D, R
  <2> QED
    BY <1>4, <1>5, FS_Surjection
<1>7. Scannable(s) \subseteq R
  BY DEF Scannable
<1>8. /\ IsFiniteSet(Scannable(s)) /\ Cardinality(Scannable(s)) <= Cardinality(R)
      /\ Cardinality(Scannable(s)) \in Nat /\ Cardinality(R) \in Nat
      /\ Cardinality(Scannable(s)) = 0 <=> Scannable(s) = {}
  BY <1>6, <1>7, FS_Subset, FS_CardinalityType, FS_EmptySet
<1>9. \A t \in Sessions \ {s} : Scannable(s) \cap Scannable(t) = {}
  BY IndexingAssumption DEF Range, Sessions, Scannable
<1>10. Cardinality(Scannable(s)) \in 0 .. Len(MessagesOf[s])
  BY <1>2, <1>5, <1>6, <1>8
<1> QED
  BY <1>1, <1>2, <1>3, <1>7, <1>8, <1>9, <1>10

\* Whatever order the database returns them in, they are the same messages.
LEMMA OrderFacts ==
  ASSUME NEW s \in Sessions, NEW q \in Orders(s)
  PROVE  /\ q \in Seq(Messages)
         /\ DOMAIN q = 1 .. Len(q) /\ Len(q) = Cardinality(Scannable(s))
         /\ DOMAIN q \subseteq DOMAIN MessagesOf[s]
         /\ Range(q) = Scannable(s)
<1> DEFINE n == Cardinality(Scannable(s))
           D == 1 .. n
           R == Scannable(s)
<1>1. q \in [D -> R] /\ IsInjective(q)
  BY DEF Orders
<1>2. n \in Nat /\ R \subseteq Messages /\ IsFiniteSet(R)
  BY MessageFacts
<1>3. D \subseteq DOMAIN MessagesOf[s]
  BY MessageFacts
<1>4. IsFiniteSet(D) /\ Cardinality(D) = n
  <2> HIDE DEF n
  <2>1. 1 \in Int /\ n \in Int
    BY <1>2
  <2> QED
    BY <1>2, <2>1, FS_Interval
<1>5. Cardinality(D) = Cardinality(R)
  BY <1>4
<1> HIDE DEF D, R
<1>6. q \in Injection(D, R)
  BY <1>1 DEF Injection
<1>7. q \in Surjection(D, R)
  BY <1>2, <1>4, <1>5, <1>6, FS_Injection
<1>8. Range(q) = R
  BY <1>1, <1>7 DEF Surjection, Range
<1>9. q \in [1 .. n -> Messages]
  BY <1>1, <1>2 DEF D
<1> HIDE DEF n
<1>10. q \in Seq(Messages)
  BY <1>2, <1>9, SeqDef
<1>11. Len(q) = n /\ DOMAIN q = 1 .. n
  BY <1>2, <1>9, <1>10, LenProperties
<1> QED
  BY <1>1, <1>3, <1>8, <1>10, <1>11 DEF n, R

LEMMA DocIdFacts ==
  /\ \A s \in Sessions : \A k \in DOMAIN MessagesOf[s] : <<s, k>> \in DocIds
  /\ \A d \in DocIds : /\ d = <<d[1], d[2]>>
                       /\ d[1] \in Sessions /\ d[2] \in DOMAIN MessagesOf[d[1]]
                       /\ d # Idle
  BY DEF DocIds, Sessions, Idle

LEMMA DocumentFacts ==
  ASSUME NEW m \in Messages, NEW parts \in SUBSET Parts
  PROVE  Document(m, parts) \in Records /\ Document(m, parts) # NoDocument
  BY IndexingAssumption DEF Document, Records

LEMMA InitIndexInv == Init => IndexInv
<1> SUFFICES ASSUME Init PROVE IndexInv
  OBVIOUS
<1>1. /\ inRange \in SUBSET Sessions /\ Earlier \subseteq Sessions
      /\ lastId \in 0 .. Rows /\ lastId = 0 /\ counted \in Nat /\ counted # 0
      /\ outgoing = <<>> /\ rawSessions = <<>> /\ rawMessages = <<>>
      /\ completedSessions = <<>> /\ found = {} /\ hydrating = {}
      /\ rows = [s \in Sessions |-> <<>>]
      /\ hydrated = {} /\ failed = {} /\ done = {} /\ ended = "no"
      /\ persisting = [w \in Persisters |-> Idle]
  BY IndexingAssumption DEF Init, Sessions
<1>2. \A d \in DocIds : documents[d] \in Records \cup {NoDocument}
  <2> SUFFICES ASSUME NEW d \in DocIds PROVE documents[d] \in Records \cup {NoDocument}
    OBVIOUS
  <2>1. d[1] \in Sessions /\ MessagesOf[d[1]][d[2]] \in Messages
    BY DocIdFacts, MessageFacts DEF Range
  <2>2. Document(MessagesOf[d[1]][d[2]], Parts) \in Records
    BY <2>1, DocumentFacts
  <2> QED
    BY <2>2 DEF Init
<1>3. Types
  <2>1. \A S : <<>> \in Seq(S)
    OBVIOUS
  <2>2. rows \in [Sessions -> Seq(Messages)]
    BY <1>1, <2>1
  <2>3. documents \in [DocIds -> Records \cup {NoDocument}]
    BY <1>2 DEF Init
  <2> QED
    BY <1>1, <2>1, <2>2, <2>3 DEF Types
<1>4. Sent = {} /\ \A s : ~AtWork(s)
  BY <1>1, InEmpty DEF Sent, AtWork
<1>5. Once
  BY <1>1, <1>4, InEmpty DEF Once
<1>6. Read = {}
  BY <1>1 DEF Read
<1>7. \A s \in Earlier : Original(s)
  BY <1>1, DocIdFacts DEF Init, Original
<1>8. Persisted
  BY <1>1, <1>7 DEF Persisted
<1>9. Conserved /\ Ending
  BY <1>1, <1>6 DEF Conserved, Ending
<1> QED
  BY <1>3, <1>5, <1>8, <1>9 DEF IndexInv
-----------------------------------------------------------------------------
(* The steps.                                                              *)

\* The types of the channels, one by one.
LEMMA Channels ==
  ASSUME Types
  PROVE  /\ outgoing \in Seq(SUBSET Sessions) /\ rawSessions \in Seq(SUBSET Sessions)
         /\ rawMessages \in Seq(SUBSET Sessions)
  BY DEF Types

\* What is stored, and was, does not change with where the sessions are.
LEMMA StoredSame ==
  ASSUME UNCHANGED <<documents, failed, rows, persisting>>
  PROVE  /\ \A s : Done(s)' <=> Done(s)
         /\ \A s : Original(s)' <=> Original(s)
         /\ \A s : AtWork(s)' <=> AtWork(s)
         /\ \A s, k : Written(s, k)' <=> Written(s, k)
  BY DEF Done, Original, AtWork, Written

LEMMA PersistedSame ==
  ASSUME Persisted, UNCHANGED <<documents, failed, rows, persisting>>,
         \A s \in Earlier : s > lastId' \/ s \in In(outgoing') \cup In(rawSessions') =>
           s > lastId \/ s \in In(outgoing) \cup In(rawSessions)
  PROVE  Persisted'
  BY StoredSame DEF Persisted

\* A goroutine ends, or the program.
LEMMA DoneStep ==
  ASSUME IndexInv,
         UNCHANGED <<inRange, readVars, rawSessions, messageVars, rawMessages, hydrateVars,
                     completedSessions, storeVars>>
  PROVE  Types' /\ Once' /\ Persisted' /\ Conserved'
<1>1. UNCHANGED <<inRange, lastId, outgoing, counted, rawSessions, found, rows, rawMessages,
                  hydrating, hydrated, unsent, completedSessions, persisting, documents,
                  failed>>
  BY DEF readVars, messageVars, hydrateVars, storeVars
<1>2. Types'
  BY <1>1 DEF IndexInv, Types
<1>3. Sent' = Sent /\ Read' = Read
  BY <1>1 DEF Sent, Read, AtWork
<1>4. Once'
  BY <1>1, <1>3 DEF IndexInv, Once
<1>5. Persisted'
  BY <1>1, PersistedSame DEF IndexInv
<1>6. Conserved'
  BY <1>1, <1>3, StoredSame DEF IndexInv, Conserved, Sending
<1> QED
  BY <1>2, <1>4, <1>5, <1>6

LEMMA SendSessionsStep ==
  ASSUME IndexInv, SendSessions
  PROVE  IndexInv'
<1>1. /\ outgoing # <<>> /\ rawSessions' = Append(rawSessions, Head(outgoing))
      /\ outgoing' = Tail(outgoing)
      /\ UNCHANGED <<inRange, lastId, counted, found, rows, rawMessages, hydrating, hydrated,
                     unsent, completedSessions, persisting, documents, failed, done, ended>>
  BY DEF SendSessions, messageVars, hydrateVars, storeVars
<1>2. /\ Head(outgoing) \in SUBSET Sessions
      /\ In(outgoing) = Head(outgoing) \cup In(outgoing')
      /\ Apart(outgoing') /\ Head(outgoing) \cap In(outgoing') = {}
      /\ outgoing' \in Seq(SUBSET Sessions)
  BY <1>1, Channels, InTail DEF IndexInv, Once
<1>3. /\ In(rawSessions') = In(rawSessions) \cup Head(outgoing)
      /\ Apart(rawSessions')
      /\ rawSessions' \in Seq(SUBSET Sessions)
  <2>1. Head(outgoing) \cap In(rawSessions) = {} /\ Apart(rawSessions)
    BY <1>2 DEF IndexInv, Once
  <2> DEFINE X == Head(outgoing)
  <2>2. X \in SUBSET Sessions /\ X \cap In(rawSessions) = {}
    BY <1>2, <2>1
  <2>3. rawSessions \in Seq(SUBSET Sessions)
    BY Channels DEF IndexInv
  <2> HIDE DEF X
  <2>4. /\ In(Append(rawSessions, X)) = In(rawSessions) \cup X
        /\ Apart(Append(rawSessions, X))
        /\ Append(rawSessions, X) \in Seq(SUBSET Sessions)
    <3>1. Apart(rawSessions) /\ X \cap In(rawSessions) = {} => Apart(Append(rawSessions, X))
      BY <2>2, <2>3, InAppend
    <3>2. /\ In(Append(rawSessions, X)) = In(rawSessions) \cup X
          /\ Append(rawSessions, X) \in Seq(SUBSET Sessions)
      BY <2>2, <2>3, InAppend
    <3> QED
      BY <2>1, <2>2, <3>1, <3>2
  <2> QED
    BY <1>1, <2>4 DEF X
<1>4. Sent' = Sent /\ Read' = Read
  BY <1>1 DEF Sent, AtWork, Read
<1>5. Types'
  BY <1>1, <1>2, <1>3 DEF IndexInv, Types
<1>6. Once'
  BY <1>1, <1>2, <1>3, <1>4 DEF IndexInv, Once
<1>7. Persisted'
  BY <1>1, <1>2, <1>3, PersistedSame DEF IndexInv
<1>8. Conserved'
  BY <1>1, <1>2, <1>3, <1>4, StoredSame DEF IndexInv, Conserved, Sending
<1>9. Ending'
  BY <1>1 DEF IndexInv, Ending, PageWithout
<1> QED
  BY <1>5, <1>6, <1>7, <1>8, <1>9 DEF IndexInv

LEMMA SendMessagesStep ==
  ASSUME IndexInv, SendMessages
  PROVE  IndexInv'
<1>1. /\ found # {} /\ rawMessages' = Append(rawMessages, found) /\ found' = {}
      /\ UNCHANGED <<inRange, lastId, outgoing, counted, rawSessions, rows, hydrating, hydrated,
                     unsent, completedSessions, persisting, documents, failed, done, ended>>
  BY DEF SendMessages, readVars, hydrateVars, storeVars
<1>2. /\ In(rawMessages') = In(rawMessages) \cup found
      /\ Apart(rawMessages')
      /\ rawMessages' \in Seq(SUBSET Sessions)
  <2>1. found \cap In(rawMessages) = {} /\ Apart(rawMessages) /\ found \in SUBSET Sessions
    BY DEF IndexInv, Once, Types
  <2>2. rawMessages \in Seq(SUBSET Sessions)
    BY Channels DEF IndexInv
  <2>3. /\ In(Append(rawMessages, found)) = In(rawMessages) \cup found
        /\ Apart(Append(rawMessages, found))
        /\ Append(rawMessages, found) \in Seq(SUBSET Sessions)
    <3>1. Apart(rawMessages) /\ found \cap In(rawMessages) = {} => Apart(Append(rawMessages, found))
      BY <2>1, <2>2, InAppend
    <3>2. /\ In(Append(rawMessages, found)) = In(rawMessages) \cup found
          /\ Append(rawMessages, found) \in Seq(SUBSET Sessions)
      BY <2>1, <2>2, InAppend
    <3> QED
      BY <2>1, <3>1, <3>2
  <2> QED
    BY <1>1, <2>3
<1>3. Sent' = Sent /\ Read' = Read
  BY <1>1 DEF Sent, AtWork, Read
<1>4. Types'
  BY <1>1, <1>2 DEF IndexInv, Types
<1>5. Once'
  BY <1>1, <1>2, <1>3 DEF IndexInv, Once
<1>6. Persisted'
  BY <1>1, PersistedSame DEF IndexInv
<1>7. Conserved'
  BY <1>1, <1>2, <1>3, StoredSame DEF IndexInv, Conserved, Sending
<1>8. Ending'
  BY <1>1 DEF IndexInv, Ending, PageWithout
<1> QED
  BY <1>4, <1>5, <1>6, <1>7, <1>8 DEF IndexInv

LEMMA ReceiveMessagesStep ==
  ASSUME IndexInv, ReceiveMessages
  PROVE  IndexInv'
<1>1. /\ hydrating = {} /\ rawMessages # <<>> /\ rawMessages' = Tail(rawMessages)
      /\ hydrating' = Head(rawMessages) /\ hydrated' = {}
      /\ unsent' = UNION {Scannable(s) : s \in hydrating'}
      /\ UNCHANGED <<inRange, lastId, outgoing, counted, rawSessions, found, rows,
                     completedSessions, persisting, documents, failed, done, ended>>
  BY DEF ReceiveMessages, readVars, messageVars, storeVars
<1>2. /\ Head(rawMessages) \in SUBSET Sessions
      /\ In(rawMessages) = Head(rawMessages) \cup In(rawMessages')
      /\ Apart(rawMessages') /\ Head(rawMessages) \cap In(rawMessages') = {}
      /\ rawMessages' \in Seq(SUBSET Sessions)
  BY <1>1, Channels, InTail DEF IndexInv, Once
<1>3. Sent' = Sent /\ Read' = Read
  BY <1>1 DEF Sent, AtWork, Read
<1>4. Types'
  BY <1>1, <1>2 DEF IndexInv, Types
<1>5. Once'
  BY <1>1, <1>2, <1>3 DEF IndexInv, Once
<1>6. Persisted'
  BY <1>1, PersistedSame DEF IndexInv
<1>7. Conserved'
  <2>1. \A s \in Head(rawMessages) : Sending(s)'
    <3> SUFFICES ASSUME NEW s \in Head(rawMessages)
                 PROVE  Scannable(s) \cap unsent' # {}
      BY <1>1 DEF Sending
    <3>1. Scannable(s) # {}
      BY <1>2 DEF IndexInv, Once
    <3> QED
      BY <1>1, <3>1
  <2>2. \A s : ~Sending(s)
    BY <1>1 DEF Sending
  <2> QED
    BY <1>1, <1>2, <1>3, <2>1, <2>2, StoredSame DEF IndexInv, Conserved
<1>8. Ending'
  BY <1>1 DEF IndexInv, Ending, PageWithout
<1> QED
  BY <1>4, <1>5, <1>6, <1>7, <1>8 DEF IndexInv

LEMMA HydrateStep ==
  ASSUME IndexInv, NEW part \in Parts, Hydrate(part)
  PROVE  IndexInv'
<1>1. /\ part \notin hydrated /\ hydrated' = hydrated \cup {part}
      /\ UNCHANGED <<inRange, lastId, outgoing, counted, rawSessions, found, rows, rawMessages,
                     hydrating, unsent, completedSessions, persisting, documents, failed,
                     done, ended>>
  BY DEF Hydrate, readVars, messageVars, storeVars
<1>2. Sent' = Sent /\ Read' = Read
  BY <1>1 DEF Sent, AtWork, Read
<1>3. Types'
  BY <1>1 DEF IndexInv, Types
<1>4. Once'
  BY <1>1, <1>2 DEF IndexInv, Once
<1>5. Persisted'
  BY <1>1, PersistedSame DEF IndexInv
<1>6. Conserved'
  BY <1>1, <1>2, StoredSame DEF IndexInv, Conserved, Sending
<1>7. Ending'
  BY <1>1 DEF IndexInv, Ending, PageWithout
<1> QED
  BY <1>3, <1>4, <1>5, <1>6, <1>7 DEF IndexInv

\* Hydrating the messages of a session fixes their order, before anything of
\* it is stored.
LEMMA HydrateMessagesStep ==
  ASSUME IndexInv, HydrateMessages
  PROVE  IndexInv'
<1>1. /\ found = {} /\ rawSessions # <<>> /\ rawSessions' = Tail(rawSessions)
      /\ found' = {s \in Head(rawSessions) : Scannable(s) # {}}
      /\ UNCHANGED <<inRange, lastId, outgoing, counted, rawMessages, hydrating, hydrated,
                     unsent, completedSessions, persisting, documents, failed, done, ended>>
  BY DEF HydrateMessages, readVars, hydrateVars, storeVars
<1>2. PICK q \in [found' -> UNION {Orders(s) : s \in found'}] :
        /\ \A s \in found' : q[s] \in Orders(s)
        /\ rows' = [s \in 1 .. Rows |-> IF s \in found' THEN q[s] ELSE rows[s]]
  BY DEF HydrateMessages
<1>3. /\ Head(rawSessions) \in SUBSET Sessions
      /\ In(rawSessions) = Head(rawSessions) \cup In(rawSessions')
      /\ Apart(rawSessions') /\ Head(rawSessions) \cap In(rawSessions') = {}
      /\ rawSessions' \in Seq(SUBSET Sessions)
  BY <1>1, Channels, InTail DEF IndexInv, Once
<1>4. Sent' = Sent /\ Read' = Read /\ \A s : AtWork(s)' <=> AtWork(s)
  BY <1>1 DEF Sent, AtWork, Read
<1>5. /\ found' \in SUBSET Sessions
      /\ \A s \in found' : rows'[s] \in Orders(s)
      /\ \A s \in Sessions : rows'[s] \in Seq(Messages)
      /\ \A s \in Sessions \ found' : rows'[s] = rows[s]
      /\ rows' = [s \in Sessions |-> rows'[s]]
  BY <1>1, <1>2, <1>3, OrderFacts DEF IndexInv, Types, Sessions
<1>6. Types'
  BY <1>1, <1>3, <1>5 DEF IndexInv, Types
<1>7. Once'
  <2>1. \A s \in found' \cup In(rawMessages') \cup hydrating' \cup Sent' :
          Scannable(s) # {} /\ rows'[s] \in Orders(s)
    <3>1. \A s \in found' : Scannable(s) # {} /\ rows'[s] \in Orders(s)
      BY <1>1, <1>5
    <3>2. ASSUME NEW s \in In(rawMessages) \cup hydrating \cup Sent, s \notin found'
          PROVE  Scannable(s) # {} /\ rows'[s] \in Orders(s)
      <4>1. Scannable(s) # {} /\ rows[s] \in Orders(s)
        BY <3>2 DEF IndexInv, Once
      <4>2. s \in Sessions
        BY <3>2 DEF IndexInv, Once, Read, Types
      <4> QED
        BY <1>5, <3>2, <4>1, <4>2
    <3> QED
      BY <1>1, <1>4, <3>1, <3>2
  <2> QED
    BY <1>1, <1>3, <1>4, <2>1 DEF IndexInv, Once
<1>8. \A s \in Sessions \ found' : /\ \A k : Written(s, k)' <=> Written(s, k)
                                   /\ Done(s)' <=> Done(s)
  BY <1>1, <1>5 DEF Written, Done
<1>9. \A s \in found' : s \in Sessions /\ s \in In(rawSessions) /\ ~AtWork(s) /\ s \notin Sent
  BY <1>1, <1>3 DEF IndexInv, Once, Sent
<1>10. Persisted'
  <2>1. ASSUME NEW w \in Persisters, persisting[w] # Idle,
               NEW j \in 1 .. persisting[w][2] - 1
        PROVE  Written(persisting[w][1], j)'
    <3>1. AtWork(persisting[w][1]) /\ persisting[w][1] \in Sessions
      <4>1. persisting[w] # Idle /\ persisting[w] \in DocIds
        BY <2>1 DEF IndexInv, Types
      <4> QED
        BY <4>1, DocIdFacts DEF AtWork
    <3>2. persisting[w][1] \in Sessions \ found'
      BY <1>9, <3>1
    <3>3. Written(persisting[w][1], j)
      BY <2>1 DEF IndexInv, Persisted
    <3> QED
      BY <1>1, <1>5, <3>2, <3>3 DEF Written
  <2>2. \A s : Original(s)' <=> Original(s)
    BY <1>1 DEF Original
  <2>3. \A s \in Earlier : Original(s)' \/ Done(s)' \/ AtWork(s)'
    <3>1. \A s \in Earlier : s \in found' => Original(s)
      BY <1>9 DEF IndexInv, Persisted
    <3>2. Earlier \subseteq Sessions
      BY IndexingAssumption DEF Sessions
    <3> QED
      BY <1>4, <1>8, <2>2, <3>1, <3>2 DEF IndexInv, Persisted
  <2>4. \A s \in Earlier : s > lastId' \/ s \in In(outgoing') \cup In(rawSessions') => Original(s)'
    BY <1>1, <1>3, <2>2 DEF IndexInv, Persisted
  <2>8. \A w \in Persisters : persisting[w] # Idle =>
          persisting[w][2] \in DOMAIN rows'[persisting[w][1]]
    <3> SUFFICES ASSUME NEW w \in Persisters, persisting[w] # Idle
                 PROVE  persisting[w][2] \in DOMAIN rows'[persisting[w][1]]
      OBVIOUS
    <3>1. AtWork(persisting[w][1])
      BY DEF AtWork
    <3>2. persisting[w][1] \in Sessions
      BY DocIdFacts DEF IndexInv, Types
    <3>3. persisting[w][1] \in Sessions \ found'
      BY <1>9, <3>1, <3>2
    <3> QED
      BY <1>5, <3>3 DEF IndexInv, Persisted
  <2>5. (\A w \in Persisters : persisting[w] # Idle =>
           /\ persisting[w][2] \in DOMAIN rows[persisting[w][1]]
           /\ \A j \in 1 .. persisting[w][2] - 1 : Written(persisting[w][1], j))'
    BY <1>1, <2>1, <2>8
  <2>6. (\A s \in Earlier : Original(s) \/ Done(s) \/ AtWork(s))'
    BY <2>3
  <2>7. (\A s \in Earlier : s > lastId \/ s \in In(outgoing) \cup In(rawSessions) => Original(s))'
    BY <2>4
  <2> QED
    BY <2>5, <2>6, <2>7 DEF Persisted
<1>11. Conserved'
  <2>1. ASSUME NEW s \in Read, Scannable(s) # {}, s \notin found'
        PROVE  \/ s \in In(outgoing') \cup In(rawSessions') \cup In(rawMessages') \cup Sent'
               \/ Sending(s)' \/ Done(s)'
    <3>1. Sending(s)' <=> Sending(s)
      BY <1>1 DEF Sending
    <3>2. s \in Sessions \ found'
      BY <2>1 DEF Read, IndexInv, Types
    <3>3. \/ s \in In(outgoing) \cup In(rawSessions) \cup found \cup In(rawMessages) \cup Sent
          \/ Sending(s) \/ Done(s)
      BY <2>1 DEF IndexInv, Conserved
    <3>4. s \notin Head(rawSessions)
      BY <1>1, <2>1
    <3> QED
      BY <1>1, <1>3, <1>4, <1>8, <3>1, <3>2, <3>3, <3>4
  <2> QED
    BY <1>4, <2>1 DEF Conserved
<1>12. Ending'
  BY <1>1 DEF IndexInv, Ending, PageWithout
<1> QED
  BY <1>6, <1>7, <1>10, <1>11, <1>12 DEF IndexInv

\* A session is sent on once for every message of it.
LEMMA SendCompletedStep ==
  ASSUME IndexInv, NEW m \in Messages, SendCompleted(m)
  PROVE  IndexInv'
<1>1. PICK t \in hydrating :
        m \in Scannable(t) /\ completedSessions' = Append(completedSessions, t)
  BY DEF SendCompleted
<1>2. /\ m \in unsent /\ hydrated = Parts /\ unsent' = unsent \ {m}
      /\ hydrating' = IF unsent' = {} THEN {} ELSE hydrating
      /\ UNCHANGED <<inRange, lastId, outgoing, counted, rawSessions, found, rows, rawMessages,
                     hydrated, persisting, documents, failed, done, ended>>
  BY DEF SendCompleted, WaitHydrated, readVars, messageVars, storeVars
<1>3. t \in Sessions /\ hydrating' \subseteq hydrating
  BY <1>2 DEF IndexInv, Types
<1>4. /\ completedSessions' \in Seq(Sessions)
      /\ Range(completedSessions') = Range(completedSessions) \cup {t}
  BY <1>1, <1>3, AppendFacts DEF IndexInv, Types
<1>5. /\ \A s : AtWork(s)' <=> AtWork(s)
      /\ Sent' = Sent \cup {t} /\ Read' = Read
  BY <1>2, <1>3, <1>4 DEF Sent, AtWork, Read
<1>6. Types'
  BY <1>2, <1>3, <1>4 DEF IndexInv, Types
<1>7. Once'
  BY <1>2, <1>3, <1>5 DEF IndexInv, Once
<1>8. Persisted'
  BY <1>2, PersistedSame DEF IndexInv
<1>9. Conserved'
  <2>1. ASSUME NEW s \in Sessions, Sending(s), s # t PROVE Sending(s)'
    <3>1. m \notin Scannable(s)
      BY <1>1, <1>3, <2>1, MessageFacts
    <3>2. Scannable(s) \cap unsent' # {}
      BY <1>2, <2>1, <3>1 DEF Sending
    <3> QED
      BY <1>2, <2>1, <3>2 DEF Sending
  <2>2. Read \subseteq Sessions
    BY DEF Read, IndexInv, Types
  <2> QED
    BY <1>2, <1>5, <2>1, <2>2, StoredSame DEF IndexInv, Conserved
<1>10. Ending'
  <2>1. hydrating # {}
    BY <1>1
  <2> QED
    BY <1>2, <2>1 DEF IndexInv, Ending, PageWithout
<1> QED
  BY <1>6, <1>7, <1>8, <1>9, <1>10 DEF IndexInv

LEMMA ReceiveCompletedStep ==
  ASSUME IndexInv, NEW w \in Persisters, ReceiveCompleted(w)
  PROVE  IndexInv'
<1> DEFINE t == Head(completedSessions)
<1>1. /\ persisting[w] = Idle /\ completedSessions # <<>>
      /\ persisting' = [persisting EXCEPT ![w] = <<t, 1>>]
      /\ completedSessions' = Tail(completedSessions)
      /\ UNCHANGED <<inRange, lastId, outgoing, counted, rawSessions, found, rows, rawMessages,
                     hydrating, hydrated, unsent, documents, failed, done, ended>>
  BY DEF ReceiveCompleted, readVars, messageVars, hydrateVars
<1>2. /\ t \in Sessions /\ completedSessions' \in Seq(Sessions)
      /\ Range(completedSessions) = {t} \cup Range(completedSessions')
  BY <1>1, TailFacts DEF IndexInv, Types
<1> HIDE DEF t
<1>3. <<t, 1>> \in DocIds /\ <<t, 1>> # Idle /\ 1 \in DOMAIN rows[t]
  <2>1. rows[t] \in Orders(t) /\ Scannable(t) # {}
    BY <1>2 DEF IndexInv, Once, Sent
  <2>2. 1 \in DOMAIN rows[t] /\ DOMAIN rows[t] \subseteq DOMAIN MessagesOf[t]
    BY <1>2, <2>1, OrderFacts, MessageFacts
  <2> QED
    BY <1>2, <2>2, DocIdFacts
<1>4. /\ persisting'[w] = <<t, 1>> /\ <<t, 1>>[1] = t /\ <<t, 1>>[2] = 1
      /\ \A v \in Persisters \ {w} : persisting'[v] = persisting[v]
      /\ persisting' \in [Persisters -> {Idle} \cup DocIds]
  BY <1>1, <1>3 DEF IndexInv, Types
<1>5. \A s : AtWork(s)' <=> AtWork(s) \/ s = t
  BY <1>1, <1>3, <1>4 DEF AtWork
<1>6. Sent' = Sent /\ Read' = Read
  BY <1>1, <1>2, <1>5 DEF Sent, Read
<1>7. Types'
  BY <1>1, <1>2, <1>4 DEF IndexInv, Types
<1>8. Once'
  BY <1>1, <1>6 DEF IndexInv, Once
<1>9. /\ \A s : Done(s)' <=> Done(s)
      /\ \A s : Original(s)' <=> Original(s)
      /\ \A s, k : Written(s, k)' <=> Written(s, k)
      /\ \A s : Sending(s)' <=> Sending(s)
  BY <1>1 DEF Done, Original, Written, Sending
<1>10. Persisted'
  <2>1. ASSUME NEW v \in Persisters
        PROVE  (persisting[v] # Idle =>
                  /\ persisting[v][2] \in DOMAIN rows[persisting[v][1]]
                  /\ \A j \in 1 .. persisting[v][2] - 1 : Written(persisting[v][1], j))'
    <3>1. CASE v = w
      BY <1>1, <1>3, <1>4, <3>1
    <3>2. CASE v # w
      BY <1>1, <1>4, <1>9, <3>2 DEF IndexInv, Persisted
    <3> QED
      BY <3>1, <3>2
  <2> QED
    BY <1>1, <1>5, <1>9, <2>1 DEF IndexInv, Persisted
<1>11. Conserved'
  BY <1>1, <1>6, <1>9 DEF IndexInv, Conserved
<1>12. Ending'
  BY <1>1 DEF IndexInv, Ending, PageWithout
<1> QED
  BY <1>7, <1>8, <1>10, <1>11, <1>12 DEF IndexInv

\* What is stored is all of the message, and the same whoever stores it.
LEMMA PersistMessageStep ==
  ASSUME IndexInv, NEW w \in Persisters, PersistMessage(w)
  PROVE  IndexInv'
<1>0. PICK t \in Sessions, k \in Nat :
        persisting[w] = <<t, k>> /\ k \in DOMAIN rows[t] /\ <<t, k>> \in DocIds
  <2>1. persisting[w] \in DocIds
    BY DEF IndexInv, Types, PersistMessage
  <2>2. persisting[w][1] \in Sessions /\ persisting[w][2] \in DOMAIN MessagesOf[persisting[w][1]]
        /\ persisting[w] = <<persisting[w][1], persisting[w][2]>>
    BY <2>1, DocIdFacts
  <2>3. persisting[w][2] \in Nat
    BY <2>2, MessageFacts
  <2>4. persisting[w][2] \in DOMAIN rows[persisting[w][1]]
    BY DEF IndexInv, Persisted, PersistMessage
  <2> QED
    BY <2>1, <2>2, <2>3, <2>4
<1> DEFINE n == Len(rows[t])
           d == Document(rows[t][k], Parts \ BrokenParts[rows[t][k]])
           next == IF k = n THEN Idle ELSE <<t, k + 1>>
<1>4. AtWork(t) /\ t \in Sent
  BY <1>0 DEF AtWork, Sent, PersistMessage
<1>3. /\ DOMAIN rows[t] = 1 .. n /\ n \in Nat /\ rows[t] \in Orders(t)
      /\ DOMAIN rows[t] \subseteq DOMAIN MessagesOf[t]
      /\ rows[t][k] \in Messages
  <2>1. rows[t] \in Orders(t)
    BY <1>0, <1>4 DEF IndexInv, Once
  <2>2. rows[t] \in Seq(Messages) /\ Len(rows[t]) \in Nat
    BY <1>0, <2>1, OrderFacts, LenProperties
  <2>3. DOMAIN rows[t] = 1 .. Len(rows[t]) /\ DOMAIN rows[t] \subseteq DOMAIN MessagesOf[t]
    BY <1>0, <2>1, OrderFacts
  <2>4. rows[t][k] \in Messages
    BY <1>0, <2>2, <2>3
  <2> QED
    BY <2>1, <2>2, <2>3, <2>4
<1>5. PartsOf(t, rows[t][k]) = Parts \ BrokenParts[rows[t][k]]
  BY <1>4 DEF IndexInv, Once, PartsOf
<1>1. /\ persisting[w] # Idle
      /\ \/ documents' = [documents EXCEPT ![<<t, k>>] = d] /\ failed' = failed
         \/ failed' = failed \cup {<<t, k>>} /\ documents' = documents
      /\ persisting' = [persisting EXCEPT ![w] = next]
      /\ UNCHANGED <<inRange, lastId, outgoing, counted, rawSessions, found, rows, rawMessages,
                     hydrating, hydrated, unsent, completedSessions, done, ended>>
  <2>1. persisting[w][1] = t /\ persisting[w][2] = k
    BY <1>0
  <2>2. /\ persisting[w] # Idle
        /\ UNCHANGED <<inRange, lastId, outgoing, counted, rawSessions, found, rows, rawMessages,
                       hydrating, hydrated, unsent, completedSessions, done, ended>>
    BY DEF PersistMessage, readVars, messageVars, hydrateVars
  <2> DEFINE e == Document(rows[t][k], PartsOf(t, rows[t][k]))
  <2>3. \/ documents' = [documents EXCEPT ![<<t, k>>] = e] /\ failed' = failed
        \/ failed' = failed \cup {<<t, k>>} /\ documents' = documents
    BY <2>1, Zenon DEF PersistMessage, DocId
  <2>4. persisting' = [persisting EXCEPT ![w] = next]
    BY <2>1, Zenon DEF PersistMessage
  <2>5. e = d
    BY <1>5
  <2> HIDE DEF next, n, d, e
  <2> QED
    BY <2>2, <2>3, <2>4, <2>5
<1>2. <<t, k>> \in DocIds /\ t \in Sessions /\ k \in DOMAIN rows[t]
      /\ persisting[w][1] = t /\ persisting[w][2] = k
  BY <1>0
<1>6. /\ next \in DocIds \cup {Idle}
      /\ next # Idle => next[1] = t /\ next[2] = k + 1 /\ k + 1 \in DOMAIN rows[t]
  <2>1. CASE k # n
    <3>1. k + 1 \in DOMAIN rows[t]
      BY <1>2, <1>3, <2>1
    <3>2. <<t, k + 1>> \in DocIds
      BY <1>2, <1>3, <3>1, DocIdFacts
    <3> QED
      BY <2>1, <3>1, <3>2
  <2> QED
    BY <2>1
<1> HIDE DEF next, n
<1>7. /\ persisting'[w] = next
      /\ \A v \in Persisters \ {w} : persisting'[v] = persisting[v]
      /\ persisting' \in [Persisters -> {Idle} \cup DocIds]
  BY <1>1, <1>6 DEF IndexInv, Types
<1>8. d \in Records
  BY <1>3, DocumentFacts
<1> HIDE DEF d
<1>9. /\ documents' \in [DocIds -> Records \cup {NoDocument}]
      /\ failed' \in SUBSET DocIds
  <2>1. documents \in [DocIds -> Records \cup {NoDocument}] /\ failed \in SUBSET DocIds
    BY DEF IndexInv, Types
  <2>2. CASE documents' = [documents EXCEPT ![<<t, k>>] = d] /\ failed' = failed
    BY <1>8, <2>1, <2>2
  <2>3. CASE failed' = failed \cup {<<t, k>>} /\ documents' = documents
    BY <1>2, <2>1, <2>3
  <2> QED
    BY <1>1, <2>2, <2>3
<1>10. /\ Written(t, k)'
       /\ \A s \in Sessions : \A j \in DOMAIN MessagesOf[s] : Written(s, j) => Written(s, j)'
  <2>1. \A d1 \in DocIds \ {<<t, k>>} :
          documents'[d1] = documents[d1] /\ (d1 \in failed => d1 \in failed')
    BY <1>1, <1>2 DEF IndexInv, Types
  <2>2. documents'[<<t, k>>] = d \/ <<t, k>> \in failed'
    BY <1>1, <1>2 DEF IndexInv, Types
  <2>3. Written(t, k)'
    BY <1>1, <2>2 DEF Written, d
  <2>4. ASSUME NEW s \in Sessions, NEW j \in DOMAIN MessagesOf[s], Written(s, j)
        PROVE  Written(s, j)'
    <3>1. CASE s = t /\ j = k
      BY <2>3, <3>1
    <3>2. CASE <<s, j>> # <<t, k>>
      BY <1>1, <2>1, <2>4, <3>2, DocIdFacts DEF Written
    <3> QED
      BY <3>1, <3>2
  <2> QED
    BY <2>3, <2>4
<1>11. \A s \in Sessions : Done(s) => Done(s)'
  <2> SUFFICES ASSUME NEW s \in Sessions, Done(s) PROVE Done(s)'
    OBVIOUS
  <2>1. rows[s] \in Orders(s) /\ \A j \in DOMAIN rows[s] : Written(s, j)
    BY DEF Done
  <2>2. DOMAIN rows[s] \subseteq DOMAIN MessagesOf[s]
    BY <2>1, OrderFacts
  <2> QED
    BY <1>1, <1>10, <2>1, <2>2 DEF Done
<1>12. \A s \in Sessions \ {t} : /\ Original(s) => Original(s)'
                                 /\ AtWork(s)' <=> AtWork(s)
  <2>1. \A s \in Sessions \ {t} : \A j \in DOMAIN MessagesOf[s] :
          documents'[<<s, j>>] = documents[<<s, j>>]
    <3> SUFFICES ASSUME NEW s \in Sessions \ {t}, NEW j \in DOMAIN MessagesOf[s]
                 PROVE  documents'[<<s, j>>] = documents[<<s, j>>]
      OBVIOUS
    <3>1. <<s, j>> \in DocIds /\ <<s, j>> # <<t, k>>
      BY DocIdFacts
    <3>2. documents \in [DocIds -> Records \cup {NoDocument}]
      BY DEF IndexInv, Types
    <3> QED
      BY <1>1, <3>1, <3>2
  <2>2. \A s \in Sessions \ {t} : AtWork(s)' <=> AtWork(s)
    BY <1>2, <1>6, <1>7 DEF AtWork
  <2> QED
    BY <2>1, <2>2 DEF Original
<1>13. AtWork(t)' \/ Done(t)'
  <2>1. CASE next # Idle
    BY <1>6, <1>7, <2>1 DEF AtWork
  <2>2. CASE next = Idle
    <3>1. k = n
      BY <2>2 DEF next, Idle
    <3>2. \A j \in 1 .. k - 1 : Written(t, j)
      BY <1>1, <1>2 DEF IndexInv, Persisted
    <3>3. \A j \in DOMAIN rows[t] : j = k \/ j \in 1 .. k - 1
      BY <1>3, <3>1
    <3> QED
      BY <1>1, <1>2, <1>3, <1>10, <3>2, <3>3 DEF Done
  <2> QED
    BY <2>1, <2>2
<1>14. Sent' \subseteq Sent /\ Sent \subseteq Sent' \cup {t} /\ Read' = Read
       /\ (AtWork(t)' => t \in Sent')
  BY <1>1, <1>2, <1>4, <1>12 DEF Sent, Read
<1>15. Types'
  BY <1>1, <1>7, <1>9 DEF IndexInv, Types
<1>16. Once'
  BY <1>1, <1>14 DEF IndexInv, Once
<1>17. Persisted'
  <2>1. ASSUME NEW v \in Persisters
        PROVE  (persisting[v] # Idle =>
                  /\ persisting[v][2] \in DOMAIN rows[persisting[v][1]]
                  /\ \A j \in 1 .. persisting[v][2] - 1 : Written(persisting[v][1], j))'
    <3>1. CASE v = w
      <4>1. \A j \in 1 .. k - 1 : Written(t, j)
        BY <1>1, <1>2 DEF IndexInv, Persisted
      <4>2. \A j \in 1 .. k : (j = k \/ j \in 1 .. k - 1) /\ j \in DOMAIN MessagesOf[t]
        BY <1>2, <1>3
      <4>3. \A j \in 1 .. k : Written(t, j)'
        BY <1>2, <1>10, <4>1, <4>2
      <4>4. next # Idle => next[2] - 1 = k
        BY <1>0, <1>6
      <4> QED
        BY <1>1, <1>6, <1>7, <3>1, <4>3, <4>4 DEF Written
    <3>2. CASE v # w
      <4>1. SUFFICES ASSUME persisting[v] # Idle
                     PROVE  (/\ persisting[v][2] \in DOMAIN rows[persisting[v][1]]
                             /\ \A j \in 1 .. persisting[v][2] - 1 : Written(persisting[v][1], j))'
        BY <1>1, <1>7, <3>2
      <4>2. PICK s \in Sessions, last \in Nat :
              persisting[v] = <<s, last>> /\ last \in DOMAIN MessagesOf[s]
        <5>1. persisting[v] \in DocIds
          BY <4>1 DEF IndexInv, Types
        <5>2. /\ persisting[v] = <<persisting[v][1], persisting[v][2]>>
              /\ persisting[v][1] \in Sessions
              /\ persisting[v][2] \in DOMAIN MessagesOf[persisting[v][1]]
          BY <5>1, DocIdFacts
        <5>3. persisting[v][2] \in Nat
          BY <5>2, MessageFacts
        <5> QED
          BY <5>2, <5>3
      <4>3. last \in DOMAIN rows[s] /\ \A j \in 1 .. last - 1 : Written(s, j)
        <5>1. /\ persisting[v][2] \in DOMAIN rows[persisting[v][1]]
              /\ \A j \in 1 .. persisting[v][2] - 1 : Written(persisting[v][1], j)
          BY <4>1 DEF IndexInv, Persisted
        <5>2. persisting[v][1] = s /\ persisting[v][2] = last
          BY <4>2
        <5> QED
          BY <5>1, <5>2, Zenon
      <4>4. 1 .. last - 1 \subseteq DOMAIN MessagesOf[s]
        BY <4>2, MessageFacts
      <4>5. \A j \in 1 .. last - 1 : Written(s, j)'
        BY <1>10, <4>3, <4>4
      <4>6. persisting'[v] = <<s, last>> /\ rows' = rows
        BY <1>1, <1>7, <3>2, <4>2
      <4> QED
        BY <4>3, <4>5, <4>6
    <3> QED
      BY <3>1, <3>2
  <2>2. Earlier \subseteq Sessions
    BY IndexingAssumption DEF Sessions
  <2>3. (\A s \in Earlier : Original(s) \/ Done(s) \/ AtWork(s))'
    BY <1>11, <1>12, <1>13, <2>2 DEF IndexInv, Persisted
  <2>4. t \notin In(outgoing) \cup In(rawSessions) /\ ~(t > lastId)
    BY <1>4 DEF IndexInv, Once, Read, Types
  <2>5. (\A s \in Earlier : s > lastId \/ s \in In(outgoing) \cup In(rawSessions) => Original(s))'
    BY <1>1, <1>12, <2>2, <2>4 DEF IndexInv, Persisted
  <2>6. (\A v \in Persisters : persisting[v] # Idle =>
           /\ persisting[v][2] \in DOMAIN rows[persisting[v][1]]
           /\ \A j \in 1 .. persisting[v][2] - 1 : Written(persisting[v][1], j))'
    BY <2>1
  <2> QED
    BY <2>3, <2>5, <2>6 DEF Persisted
<1>18. Conserved'
  <2>1. \A s : Sending(s)' <=> Sending(s)
    BY <1>1 DEF Sending
  <2>2. Read \subseteq Sessions
    BY DEF Read, IndexInv, Types
  <2> QED
    BY <1>1, <1>11, <1>13, <1>14, <2>1, <2>2 DEF IndexInv, Conserved
<1>19. Ending'
  BY <1>1 DEF IndexInv, Ending, PageWithout
<1> QED
  BY <1>15, <1>16, <1>17, <1>18, <1>19 DEF IndexInv
-----------------------------------------------------------------------------
(* Pages.                                                                  *)

LEMMA SessionsFinite == IsFiniteSet(Sessions)
<1>1. 1 \in Int /\ Rows \in Int
  BY IndexingAssumption
<1> QED
  BY <1>1, FS_Interval DEF Sessions

\* Some sessions have a last one.
LEMMA LastFacts ==
  ASSUME NEW page \in SUBSET Sessions, page # {}
  PROVE  \E s \in page : \A r \in page : r <= s
<1> DEFINE After(s) == {r \in page : r > s}
           U == {After(s) : s \in page}
<1>1. IsFiniteSet(page)
  BY SessionsFinite, FS_Subset
<1>2. IsWellFoundedOn(StrictSubsetOrdering(page), SUBSET page)
  BY <1>1, FS_StrictSubsetOrderingWellFounded, FS_FiniteSubsetsOfFinite
<1>3. U \subseteq SUBSET page /\ U # {}
  OBVIOUS
<1>4. PICK L \in U : \A K \in U : <<K, L>> \notin StrictSubsetOrdering(page)
  <2> HIDE DEF U
  <2> QED
    BY <1>2, <1>3, WFMin
<1>5. PICK s \in page : L = After(s)
  OBVIOUS
<1>6. ASSUME NEW r \in page, ~(r <= s) PROVE FALSE
  <2>1. s \in Int /\ r \in Int /\ r > s /\ \A q \in page : q \in Int
    BY <1>6 DEF Sessions
  <2>2. r \in After(s) /\ r \notin After(r)
    BY <2>1
  <2>3. \A q \in page : q > r => q > s
    BY <2>1
  <2>4. After(r) \subseteq After(s)
    BY <2>3
  <2>5. After(r) # After(s) /\ After(r) \in SUBSET page /\ After(s) \in SUBSET page
    BY <2>2, Zenon
  <2>6. <<After(r), After(s)>> \in StrictSubsetOrdering(page)
    BY <2>4, <2>5 DEF StrictSubsetOrdering
  <2> QED
    BY <1>4, <1>5, <2>6
<1> QED
  BY <1>6


\* What a page holds, and where it ends.
LEMMA PageFacts ==
  ASSUME Types
  PROVE  /\ Page \in SUBSET Sessions /\ Wanted \in SUBSET Sessions
         /\ LastOf(Page) \in lastId .. Rows
         /\ \A s \in Wanted : s > lastId
         /\ (1 .. LastOf(Page)) \cap (inRange \ Broken) = Read \cup Wanted
         /\ Wanted = {} => PageWithout(lastId)
<1>1. /\ lastId \in Nat /\ Rows \in Nat /\ lastId <= Rows /\ PageSize \in Nat \ {0}
      /\ inRange \in SUBSET Sessions
  BY IndexingAssumption DEF Types
<1>2. /\ Page \in SUBSET Sessions /\ Wanted \in SUBSET Sessions
      /\ \A s \in Page : s > lastId /\ s <= lastId + PageSize
      /\ Wanted \subseteq Page
  BY <1>1 DEF Page, Wanted, Sessions
<1>3. /\ LastOf(Page) \in lastId .. Rows /\ LastOf(Page) <= lastId + PageSize
      /\ \A r \in Page : r <= LastOf(Page)
  <2>1. CASE Page = {}
    BY <1>1, <2>1 DEF LastOf
  <2>2. CASE Page # {}
    <3> DEFINE P == Page
               last == CHOOSE s \in P : \A r \in P : r <= s
    <3>1. P \in SUBSET Sessions /\ P # {}
      BY <1>2, <2>2
    <3> HIDE DEF P
    <3>2. last \in P /\ \A r \in P : r <= last
      BY <3>1, LastFacts
    <3>3. LastOf(Page) = last
      BY <2>2 DEF LastOf, P
    <3> HIDE DEF last
    <3>4. last \in Page /\ \A r \in Page : r <= last
      BY <3>2 DEF P
    <3>5. last \in 1 .. Rows /\ last > lastId /\ last <= lastId + PageSize
      BY <1>2, <3>4 DEF Sessions
    <3> QED
      BY <1>1, <3>3, <3>4, <3>5
  <2> QED
    BY <2>1, <2>2
<1>4. \A s \in inRange \ Broken :
        s > lastId /\ s <= lastId + PageSize => s \in Wanted
  BY <1>1 DEF Page, Wanted, Sessions
<1> DEFINE last == LastOf(Page)
<1>5. /\ last \in Nat /\ last >= lastId /\ last <= lastId + PageSize
      /\ \A s \in Wanted : s \in 1 .. last /\ s \in inRange \ Broken /\ s > lastId
  <2>1. Wanted \subseteq inRange \ Broken
    BY DEF Wanted, Page
  <2> QED
    BY <1>1, <1>2, <1>3, <2>1 DEF Sessions
<1> HIDE DEF last
<1>6. (1 .. last) \cap (inRange \ Broken) \subseteq Read \cup Wanted
  <2> SUFFICES ASSUME NEW s \in (1 .. last) \cap (inRange \ Broken), s \notin Wanted
               PROVE  s \in Read
    OBVIOUS
  <2>1. ~(s > lastId)
    BY <1>1, <1>4, <1>5
  <2> QED
    BY <1>1, <1>5, <2>1 DEF Read
<1>7. Read \cup Wanted \subseteq (1 .. last) \cap (inRange \ Broken)
  BY <1>1, <1>5 DEF Read
<1>8. ASSUME Wanted = {} PROVE PageWithout(lastId)
  BY <1>1, <1>4, <1>8 DEF PageWithout
<1> QED
  BY <1>2, <1>3, <1>5, <1>6, <1>7, <1>8 DEF last

LEMMA QuotientsGrow ==
  ASSUME NEW m \in Nat \ {0}, NEW x \in Nat, NEW y \in Nat, x <= y
  PROVE  x \div m \in Nat /\ y \div m \in Nat /\ x \div m <= y \div m
<1>1. /\ x = m * (x \div m) + (x % m) /\ 0 <= x % m /\ x % m < m
      /\ y = m * (y \div m) + (y % m) /\ 0 <= y % m /\ y % m < m
      /\ x % m \in Int /\ y % m \in Int
  OBVIOUS
<1>2. x \div m \in Nat /\ y \div m \in Nat
  OBVIOUS
<1>3. ASSUME x \div m > y \div m PROVE FALSE
  <2>1. (x \div m) - (y \div m) - 1 \in Nat
    BY <1>2, <1>3
  <2>2. m * ((x \div m) - (y \div m) - 1) >= 0
    BY <2>1
  <2>3. m * (x \div m) >= m * (y \div m) + m
    BY <1>2, <2>2
  <2> QED
    BY <1>1, <1>2, <2>3
<1> QED
  BY <1>2, <1>3

\* Each of the wanted sessions is in one of the batches.
LEMMA BatchesFacts ==
  ASSUME Types
  PROVE  /\ Batches \in Seq(SUBSET Sessions) /\ In(Batches) = Wanted /\ Apart(Batches)
         /\ Cardinality(Wanted) \in Nat
         /\ Cardinality(Wanted) = 0 => Wanted = {}
<1>1. Wanted \in SUBSET Sessions
  BY PageFacts
<1>2. IsFiniteSet(Wanted)
  BY <1>1, SessionsFinite, FS_Subset
<1>3. Cardinality(Wanted) \in Nat /\ (Cardinality(Wanted) = 0 => Wanted = {})
  BY <1>2, FS_CardinalityType, FS_EmptySet
<1> DEFINE Rank(s) == Cardinality({r \in Wanted : r < s})
           n == Cardinality(Wanted) \div BatchSize + 1
<1>4. \A s \in Wanted : Rank(s) \in Nat /\ Rank(s) <= Cardinality(Wanted)
  BY <1>2, FS_Subset, FS_CardinalityType
<1>5. BatchSize \in Nat \ {0}
  BY IndexingAssumption
<1>6. n \in Nat
  BY <1>3, <1>5, QuotientsGrow
<1>7. \A s \in Wanted : Rank(s) \div BatchSize \in Nat /\ Rank(s) \div BatchSize + 1 \in 1 .. n
  <2> SUFFICES ASSUME NEW s \in Wanted
               PROVE  Rank(s) \div BatchSize \in Nat /\ Rank(s) \div BatchSize + 1 \in 1 .. n
    OBVIOUS
  <2> DEFINE x == Rank(s)
             y == Cardinality(Wanted)
  <2>1. x \in Nat /\ y \in Nat /\ x <= y
    BY <1>3, <1>4
  <2> HIDE DEF x, y
  <2>2. x \div BatchSize \in Nat /\ y \div BatchSize \in Nat /\ x \div BatchSize <= y \div BatchSize
    BY <1>5, <2>1, QuotientsGrow
  <2>3. x \div BatchSize + 1 \in 1 .. y \div BatchSize + 1
    BY <2>2
  <2> QED
    BY <2>2, <2>3 DEF x, y
<1>8. \A k : Batch(k) = {s \in Wanted : Rank(s) \div BatchSize = k - 1}
  BY DEF Batch
<1>9. /\ Batches = [k \in 1 .. n |-> Batch(k)] /\ DOMAIN Batches = 1 .. n
      /\ \A k \in 1 .. n : Batches[k] = Batch(k)
  BY DEF Batches
<1> HIDE DEF Rank, n
<1>10. \A k : Batch(k) \subseteq Wanted
  BY <1>8
<1>11. Batches \in [1 .. n -> SUBSET Sessions]
  BY <1>1, <1>9, <1>10
<1>12. Batches \in Seq(SUBSET Sessions)
  BY <1>6, <1>11, SeqDef
<1>13. Wanted \subseteq In(Batches)
  <2> SUFFICES ASSUME NEW s \in Wanted PROVE s \in In(Batches)
    OBVIOUS
  <2> DEFINE k == Rank(s) \div BatchSize + 1
  <2>1. k \in 1 .. n /\ k - 1 = Rank(s) \div BatchSize
    BY <1>7
  <2> HIDE DEF k
  <2>2. s \in Batch(k)
    BY <1>8, <2>1
  <2> QED
    BY <1>9, <2>1, <2>2 DEF In, Range
<1>14. In(Batches) \subseteq Wanted
  BY <1>9, <1>10 DEF In, Range
<1>15. Apart(Batches)
  <2> SUFFICES ASSUME NEW i \in 1 .. n, NEW j \in 1 .. n, NEW s \in Batch(i), s \in Batch(j)
               PROVE  i = j
    BY <1>9 DEF Apart
  <2>1. i - 1 = j - 1
    BY <1>8
  <2> QED
    BY <1>6, <2>1
<1> QED
  BY <1>3, <1>12, <1>13, <1>14, <1>15

LEMMA FetchSessionsStep ==
  ASSUME IndexInv, FetchSessions
  PROVE  IndexInv'
<1>1. /\ outgoing = <<>> /\ outgoing' = Batches /\ counted' = Cardinality(Wanted)
      /\ lastId' = LastOf(Page) /\ "sessions" \notin done
      /\ UNCHANGED <<inRange, rawSessions, found, rows, rawMessages, hydrating, hydrated,
                     unsent, completedSessions, persisting, documents, failed, done, ended>>
  BY DEF FetchSessions, messageVars, hydrateVars, storeVars
<1>2. Types
  BY DEF IndexInv
<1>3. /\ outgoing' \in Seq(SUBSET Sessions) /\ In(outgoing') = Wanted /\ Apart(outgoing')
      /\ counted' \in Nat /\ (counted' = 0 => Wanted = {})
  BY <1>1, <1>2, BatchesFacts
<1>4. /\ Wanted \in SUBSET Sessions
      /\ lastId' \in lastId .. Rows
      /\ \A s \in Wanted : s > lastId
      /\ (1 .. lastId') \cap (inRange \ Broken) = Read \cup Wanted
      /\ (Wanted = {} => PageWithout(lastId))
  BY <1>1, <1>2, PageFacts
<1>5. lastId \in Nat /\ lastId' \in 0 .. Rows /\ lastId <= lastId' /\ Rows \in Nat
  BY <1>2, <1>4, IndexingAssumption DEF Types
<1>6. Sent' = Sent /\ Read' = Read \cup Wanted
  BY <1>1, <1>4 DEF Sent, AtWork, Read
<1>7. Wanted \cap Read = {}
  BY <1>4, <1>5 DEF Read
<1>8. In(outgoing) = {}
  BY <1>1, InEmpty
<1>9. Types'
  BY <1>1, <1>2, <1>3, <1>5 DEF Types
<1>10. Once'
  <2>1. /\ In(rawSessions) \cup found \cup In(rawMessages) \cup hydrating \cup Sent \subseteq Read
    BY DEF IndexInv, Once
  <2> QED
    BY <1>1, <1>3, <1>6, <1>7, <2>1 DEF IndexInv, Once
<1>11. Persisted'
  <2>1. Earlier \subseteq Sessions
    BY IndexingAssumption DEF Sessions
  <2>2. \A s \in Earlier : s > lastId' => s > lastId
    BY <1>5, <2>1 DEF Sessions
  <2> QED
    BY <1>1, <1>3, <1>4, <2>2, PersistedSame DEF IndexInv
<1>12. Conserved'
  BY <1>1, <1>3, <1>6, <1>8, StoredSame DEF IndexInv, Conserved, Sending
<1>13. Ending'
  <2>1. \A r : PageWithout(r)' <=> PageWithout(r)
    BY <1>1 DEF PageWithout
  <2>2. counted' = 0 => PageWithout(lastId) /\ lastId \in 0 .. lastId'
    BY <1>3, <1>4, <1>5
  <2>3. (counted = 0 => \E r \in 0 .. lastId : PageWithout(r))'
    BY <2>1, <2>2
  <2> QED
    BY <1>1, <2>3 DEF IndexInv, Ending
<1> QED
  BY <1>9, <1>10, <1>11, <1>12, <1>13 DEF IndexInv


\* The goroutines and the program end.
LEMMA EndSteps ==
  ASSUME IndexInv, CloseSessions \/ CloseMessages \/ CloseCompleted \/ Return \/ Fatal
  PROVE  IndexInv'
<1>1. UNCHANGED <<inRange, readVars, rawSessions, messageVars, rawMessages, hydrateVars,
                  completedSessions, storeVars>>
  BY DEF CloseSessions, CloseMessages, CloseCompleted, Return, Fatal
<1>2. Types' /\ Once' /\ Persisted' /\ Conserved'
  BY <1>1, DoneStep
<1>3. UNCHANGED <<inRange, lastId, outgoing, counted, rawSessions, found, rawMessages, hydrating>>
  BY <1>1 DEF readVars, messageVars, hydrateVars
<1>4. \A r : PageWithout(r)' <=> PageWithout(r)
  BY <1>3 DEF PageWithout
<1>5. Ending'
  <2>1. CASE CloseSessions
    BY <1>3, <1>4, <2>1 DEF CloseSessions, IndexInv, Ending
  <2>2. CASE CloseMessages
    BY <1>3, <1>4, <2>2 DEF CloseMessages, IndexInv, Ending
  <2>3. CASE CloseCompleted
    BY <1>3, <1>4, <2>3 DEF CloseCompleted, IndexInv, Ending
  <2>4. CASE Return
    BY <1>3, <1>4, <2>4 DEF Return, IndexInv, Ending
  <2>5. CASE Fatal
    BY <1>3, <1>4, <2>5 DEF Fatal, IndexInv, Ending
  <2> QED
    BY <2>1, <2>2, <2>3, <2>4, <2>5
<1> QED
  BY <1>2, <1>5 DEF IndexInv

LEMMA UnchangedStep ==
  ASSUME IndexInv, UNCHANGED vars
  PROVE  IndexInv'
<1>1. UNCHANGED <<inRange, readVars, rawSessions, messageVars, rawMessages, hydrateVars,
                  completedSessions, storeVars, done, ended>>
  BY DEF vars
<1>2. Types' /\ Once' /\ Persisted' /\ Conserved'
  BY <1>1, DoneStep
<1>3. UNCHANGED <<inRange, lastId, outgoing, counted, rawSessions, found, rawMessages,
                  hydrating, done, ended>>
  BY <1>1 DEF readVars, messageVars, hydrateVars
<1>4. Ending'
  BY <1>3 DEF IndexInv, Ending, PageWithout
<1> QED
  BY <1>2, <1>4 DEF IndexInv

LEMMA StepIndexInv == IndexInv /\ [Next]_vars => IndexInv'
<1> SUFFICES ASSUME IndexInv, [Next]_vars PROVE IndexInv'
  OBVIOUS
<1>1. CASE ReadSessions
  BY <1>1, FetchSessionsStep, SendSessionsStep, EndSteps DEF ReadSessions
<1>2. CASE ReadMessages
  BY <1>2, HydrateMessagesStep, SendMessagesStep, EndSteps DEF ReadMessages
<1>3. CASE Complete
  BY <1>3, ReceiveMessagesStep, HydrateStep, SendCompletedStep, EndSteps DEF Complete
<1>4. ASSUME NEW w \in Persisters, Persist(w) PROVE IndexInv'
  BY <1>4, ReceiveCompletedStep, PersistMessageStep DEF Persist
<1>5. CASE Return \/ Fatal
  BY <1>5, EndSteps
<1>6. CASE Ended \/ UNCHANGED vars
  BY <1>6, UnchangedStep DEF Ended
<1> QED
  BY <1>1, <1>2, <1>3, <1>4, <1>5, <1>6 DEF Next

LEMMA IndexInvCorrect == Spec => []IndexInv
<1>1. Init => IndexInv
  BY InitIndexInv
<1>2. IndexInv /\ [Next]_vars => IndexInv'
  BY StepIndexInv
<1> QED
  BY <1>1, <1>2, PTL DEF Spec
-----------------------------------------------------------------------------
(* What is indexed.                                                        *)

LEMMA StoredFacts ==
  ASSUME IndexInv, NEW s \in Sessions, Original(s) \/ Done(s)
  PROVE  Indexed(s) \/ Failed(s)
<1>1. SUFFICES ASSUME ~Failed(s), NEW m \in Scannable(s) PROVE HasDocument(m)
  BY DEF Indexed
<1>2. \A k \in DOMAIN MessagesOf[s] : <<s, k>> \in DocIds /\ <<s, k>> \notin failed
  BY <1>1, DocIdFacts DEF Failed
<1>3. PICK k \in DOMAIN MessagesOf[s], parts \in SUBSET Parts :
        /\ documents[<<s, k>>] = Document(m, parts)
        /\ Parts \ BrokenParts[m] \subseteq parts
  <2>1. CASE Original(s)
    <3>1. m \in Range(MessagesOf[s])
      BY DEF Scannable
    <3>2. PICK k \in DOMAIN MessagesOf[s] : m = MessagesOf[s][k]
      BY <3>1 DEF Range
    <3> QED
      BY <2>1, <3>2 DEF Original
  <2>2. CASE Done(s)
    <3>1. /\ rows[s] \in Orders(s)
          /\ \A k \in DOMAIN rows[s] : Written(s, k)
      BY <2>2 DEF Done
    <3>2. Range(rows[s]) = Scannable(s) /\ DOMAIN rows[s] \subseteq DOMAIN MessagesOf[s]
      BY <3>1, OrderFacts
    <3>3. PICK k \in DOMAIN rows[s] : m = rows[s][k]
      BY <3>2 DEF Range
    <3> QED
      BY <1>2, <3>1, <3>2, <3>3 DEF Written
  <2> QED
    BY <2>1, <2>2
<1>4. m \in Messages
  BY MessageFacts
<1>5. documents[<<s, k>>] # NoDocument
  BY <1>3, <1>4, DocumentFacts
<1>6. documents[<<s, k>>].message = m /\ documents[<<s, k>>].parts = parts
  BY <1>3 DEF Document
<1> QED
  BY <1>2, <1>3, <1>5, <1>6 DEF HasDocument

LEMMA IndexInvImpliesStaysIndexed == IndexInv => StaysIndexed
<1> SUFFICES ASSUME IndexInv, NEW s \in Earlier
             PROVE  \/ Indexed(s) \/ Failed(s)
                    \/ \E w \in Persisters : persisting[w] # Idle /\ persisting[w][1] = s
  BY DEF StaysIndexed
<1>1. s \in Sessions
  BY IndexingAssumption DEF Sessions
<1>2. Original(s) \/ Done(s) \/ AtWork(s)
  BY DEF IndexInv, Persisted
<1> QED
  BY <1>1, <1>2, StoredFacts DEF AtWork

LEMMA IndexInvImpliesIndexed == IndexInv => IndexedUnlessLeftBehind
<1> SUFFICES ASSUME IndexInv, ended = "returned", NEW s \in inRange \ Broken
             PROVE  \/ Indexed(s) \/ Failed(s) \/ ~Stored(s)
                    \/ \E r \in 0 .. s - PageSize - 1 :
                         (r + 1 .. r + PageSize) \cap (inRange \ Broken) = {}
  BY DEF IndexedUnlessLeftBehind
<1>1. s \in Sessions /\ lastId \in Nat /\ Rows \in Nat /\ PageSize \in Nat \ {0}
  BY IndexingAssumption DEF IndexInv, Types
<1>2. /\ outgoing = <<>> /\ rawSessions = <<>> /\ rawMessages = <<>>
      /\ found = {} /\ hydrating = {} /\ counted = 0
  BY DEF IndexInv, Ending
<1>3. CASE s \in Read
  <2>1. Scannable(s) = {} \/ s \in Sent \/ Done(s)
    BY <1>2, <1>3, InEmpty DEF IndexInv, Conserved, Sending
  <2>2. CASE s \in Sent
    BY <2>2 DEF Sent, Stored, AtWork
  <2>3. CASE Scannable(s) = {}
    BY <2>3 DEF Indexed
  <2> QED
    BY <1>1, <2>1, <2>2, <2>3, StoredFacts
<1>4. CASE s \notin Read
  <2>1. s > lastId /\ s \in Int
    BY <1>1, <1>4 DEF Read, Sessions
  <2>2. PICK r \in 0 .. lastId : PageWithout(r)
    BY <1>2 DEF IndexInv, Ending
  <2>3. s \notin r + 1 .. r + PageSize
    BY <2>2 DEF PageWithout
  <2>4. r \in 0 .. s - PageSize - 1
    BY <1>1, <2>1, <2>3
  <2> QED
    BY <2>2, <2>4 DEF PageWithout
<1> QED
  BY <1>3, <1>4

(* When the indexer has returned, every message in the range that was      *)
(* asked for and whose row can be scanned has its document, but those of a *)
(* session that could not be stored or is not stored yet, and those behind *)
(* a page of rows out of the range: indexSessionsFromDb and the goroutines *)
(* it feeds.                                                               *)
THEOREM IndexedCorrect == Spec => []IndexedUnlessLeftBehind
  BY IndexInvCorrect, IndexInvImpliesIndexed, PTL

(* Indexing again never takes the last document of a message away, but     *)
(* while a persister is at its session or for an error: persistSession,    *)
(* and the ids it gives to the documents.                                  *)
THEOREM StaysIndexedCorrect == Spec => []StaysIndexed
  BY IndexInvCorrect, IndexInvImpliesStaysIndexed, PTL
=============================================================================
