------------------------------ MODULE Indexing ------------------------------
(***************************************************************************)
(* "elasticsearch index": the sessions in the database are read and their  *)
(* messages are stored in Elasticsearch, one document each                 *)
(* (elasticsearch/index.go, elasticsearch.go).  A pipeline of goroutines - *)
(* sessions, messages, the rest of a message, storage - with a channel     *)
(* between any two.  The program ends when the first three are done; for   *)
(* storage it does not wait.  A row that cannot be scanned is logged and   *)
(* skipped, whatever it is a row of; as nobody asks for rows.Err(), so is  *)
(* the rest of a result that is cut short.                                 *)
(***************************************************************************)
EXTENDS Integers, Sequences, FiniteSets, Functions

CONSTANTS
  Rows,          \* how many rows the session table has; row 1 is the newest
  Broken,        \* the sessions whose row cannot be scanned
  Ranges,        \* the rows between notBefore and notAfter: sets of rows
  MessagesOf,    \* the messages of a session
  BrokenMessages, \* the messages whose row cannot be scanned
  BrokenParts,   \* the parts of a message with a row that cannot be scanned
  Earlier,       \* the sessions that were stored before
  PageSize,      \* 512
  BatchSize,     \* 65: more than 64
  RawCapacity,   \* of the channels rawSessions and rawMessages: 10
  Capacity,      \* of completedSessions: 1024
  Persisters,    \* 128
  NoDocument,
  MaxFailures    \* bound: how often Elasticsearch fails

Messages == UNION {Range(MessagesOf[s]) : s \in 1 .. Rows}
Parts == {"recipients", "headers", "results"}
DocIds == UNION {{<<s, k>> : k \in DOMAIN MessagesOf[s]} : s \in 1 .. Rows}

\* A message is a row of its own, which names its session.
ASSUME IndexingAssumption ==
  /\ {Rows, RawCapacity, Capacity, MaxFailures} \subseteq Nat
  /\ {PageSize, BatchSize} \subseteq Nat \ {0}
  /\ Broken \subseteq 1 .. Rows /\ Earlier \subseteq 1 .. Rows
  /\ Ranges \subseteq SUBSET (1 .. Rows)
  /\ MessagesOf \in [1 .. Rows -> Seq(Messages)]
  /\ \A s, t \in 1 .. Rows : \A i \in DOMAIN MessagesOf[s] : \A j \in DOMAIN MessagesOf[t] :
       MessagesOf[s][i] = MessagesOf[t][j] => s = t /\ i = j
  /\ BrokenMessages \subseteq Messages
  /\ BrokenParts \in [Messages -> SUBSET Parts]
  /\ NoDocument \notin [message : Messages, parts : SUBSET Parts]

VARIABLES
  inRange,           \* the rows between notBefore and notAfter
  lastId,            \* the row up to which indexSessionsFromDb has read
  outgoing,          \* what it is to send to rawSessions
  counted,           \* the rows it counted in the page
  rawSessions,
  found,             \* the sessions with messages that are to be sent on
  rows,              \* the messages of a session that were read, in order
  rawMessages,
  hydrating,         \* the sessions whose messages are being hydrated
  hydrated,          \* the parts that are
  unsent,            \* their messages that were not sent on for storage
  completedSessions,
  persisting,        \* what a persister is at: a session, its next message
  documents,
  done,              \* the goroutines that are done
  ended,             \* how the program ended
  failed             \* the documents that were not stored for an error

readVars == <<lastId, outgoing, counted>>
messageVars == <<found, rows>>
hydrateVars == <<hydrating, hydrated, unsent>>
storeVars == <<persisting, documents, failed>>
vars == <<inRange, readVars, rawSessions, messageVars, rawMessages, hydrateVars,
          completedSessions, storeVars, done, ended>>

Idle == <<>>

\* What is stored of a message, and the parts of it that are complete: see
\* MarshalJSONWithSingleMessage.
Document(m, parts) == [message |-> m, parts |-> parts]

Init ==
  /\ inRange \in Ranges
  /\ lastId = 0 /\ outgoing = <<>> /\ counted = PageSize
  /\ rawSessions = <<>> /\ rawMessages = <<>> /\ completedSessions = <<>>
  /\ found = {} /\ rows = [s \in 1 .. Rows |-> <<>>]
  /\ hydrating = {} /\ hydrated = {} /\ unsent = {}
  /\ persisting = [w \in Persisters |-> Idle]
  /\ documents = [d \in DocIds |->
       IF d[1] \in Earlier THEN Document(MessagesOf[d[1]][d[2]], Parts) ELSE NoDocument]
  /\ failed = {}
  /\ done = {} /\ ended = "no"

Running == ended = "no"
-----------------------------------------------------------------------------
(* indexSessionsFromDb.                                                    *)

\* The rows of the next page that can be scanned, and those that are wanted.
Page == ((lastId + 1 .. lastId + PageSize) \cap (1 .. Rows)) \ Broken
Wanted == Page \cap inRange

\* The maps that are sent: a full one whenever there is one, the rest, empty
\* or not, at the end.
Batch(k) ==
  {s \in Wanted : Cardinality({r \in Wanted : r < s}) \div BatchSize = k - 1}
Batches == [k \in 1 .. Cardinality(Wanted) \div BatchSize + 1 |-> Batch(k)]

\* Mutant of LastOf: the next page starts behind a row more.
BehindLastOf(page) ==
  1 + IF page = {} THEN lastId ELSE CHOOSE s \in page : \A r \in page : r <= s

\* A row that cannot be scanned is not the last id; it will be in the next
\* page again.
LastOf(page) ==
  IF page = {} THEN lastId ELSE CHOOSE s \in page : \A r \in page : r <= s

\* indexFetchSessionsFromDb up to the sends.  What is counted are the rows
\* that are wanted, and a page without any is taken for the end of the table.
FetchSessions ==
  /\ Running
  /\ "sessions" \notin done
  /\ outgoing = <<>> /\ counted > 0
  /\ outgoing' = Batches
  /\ counted' = Cardinality(Wanted)
  /\ lastId' = LastOf(Page)
  /\ UNCHANGED <<inRange, rawSessions, messageVars, rawMessages, hydrateVars,
                 completedSessions, storeVars, done, ended>>

SendSessions ==
  /\ Running
  /\ outgoing # <<>>
  /\ Len(rawSessions) < RawCapacity
  /\ rawSessions' = Append(rawSessions, Head(outgoing))
  /\ outgoing' = Tail(outgoing)
  /\ UNCHANGED <<inRange, lastId, counted, messageVars, rawMessages, hydrateVars,
                 completedSessions, storeVars, done, ended>>

CloseSessions ==
  /\ Running
  /\ "sessions" \notin done
  /\ outgoing = <<>> /\ counted = 0
  /\ done' = done \cup {"sessions"}
  /\ UNCHANGED <<inRange, readVars, rawSessions, messageVars, rawMessages, hydrateVars,
                 completedSessions, storeVars, ended>>
-----------------------------------------------------------------------------
(* indexHydrateMessagesFromDb.                                             *)

\* The messages of a session whose rows can be read.
Scannable(s) == Range(MessagesOf[s]) \ BrokenMessages

Orders(s) ==
  {q \in [1 .. Cardinality(Scannable(s)) -> Scannable(s)] : IsInjective(q)}

\* The query names no order.  A session without messages is not sent on, and
\* a message that cannot be read leaves no gap.
HydrateMessages ==
  /\ Running
  /\ found = {} /\ rawSessions # <<>>
  /\ rawSessions' = Tail(rawSessions)
  /\ found' = {s \in Head(rawSessions) : Scannable(s) # {}}
  /\ \E q \in [found' -> UNION {Orders(s) : s \in found'}] :
       /\ \A s \in found' : q[s] \in Orders(s)
       /\ rows' = [s \in 1 .. Rows |-> IF s \in found' THEN q[s] ELSE rows[s]]
  /\ UNCHANGED <<inRange, readVars, rawMessages, hydrateVars, completedSessions,
                 storeVars, done, ended>>

SendMessages ==
  /\ Running
  /\ found # {}
  /\ Len(rawMessages) < RawCapacity
  /\ rawMessages' = Append(rawMessages, found)
  /\ found' = {}
  /\ UNCHANGED <<inRange, readVars, rawSessions, rows, hydrateVars, completedSessions,
                 storeVars, done, ended>>

CloseMessages ==
  /\ Running
  /\ "sessions" \in done /\ "messages" \notin done
  /\ rawSessions = <<>> /\ found = {}
  /\ done' = done \cup {"messages"}
  /\ UNCHANGED <<inRange, readVars, rawSessions, messageVars, rawMessages, hydrateVars,
                 completedSessions, storeVars, ended>>
-----------------------------------------------------------------------------
(* The goroutine that has messages hydrated and sends them on.             *)

ReceiveMessages ==
  /\ Running
  /\ hydrating = {} /\ rawMessages # <<>>
  /\ rawMessages' = Tail(rawMessages)
  /\ hydrating' = Head(rawMessages)
  /\ hydrated' = {}
  /\ unsent' = UNION {Scannable(s) : s \in hydrating'}
  /\ UNCHANGED <<inRange, readVars, rawSessions, messageVars, completedSessions,
                 storeVars, done, ended>>

\* indexHydrateRecipientsFromDb and the two like it, each in a goroutine: all
\* rows of the part that can be scanned.
Hydrate(part) ==
  /\ Running
  /\ hydrating # {} /\ part \notin hydrated
  /\ hydrated' = hydrated \cup {part}
  /\ UNCHANGED <<inRange, readVars, rawSessions, messageVars, rawMessages, hydrating,
                 unsent, completedSessions, storeVars, done, ended>>

\* wg2.Wait()
WaitHydrated == hydrated = Parts

\* A session is sent once for every message of it.
SendCompleted(m) ==
  /\ Running
  /\ m \in unsent /\ WaitHydrated
  /\ Len(completedSessions) < Capacity
  /\ \E s \in hydrating :
       /\ m \in Scannable(s)
       /\ completedSessions' = Append(completedSessions, s)
  /\ unsent' = unsent \ {m}
  /\ hydrating' = IF unsent' = {} THEN {} ELSE hydrating
  /\ UNCHANGED <<inRange, readVars, rawSessions, messageVars, rawMessages, hydrated,
                 storeVars, done, ended>>

\* Mutant of CloseCompleted: the goroutine ends without wg.Done().
CloseCompletedOnly ==
  /\ Running
  /\ "messages" \in done /\ "completed" \notin done
  /\ rawMessages = <<>> /\ hydrating = {}
  /\ UNCHANGED vars

CloseCompleted ==
  /\ Running
  /\ "messages" \in done /\ "completed" \notin done
  /\ rawMessages = <<>> /\ hydrating = {}
  /\ done' = done \cup {"completed"}
  /\ UNCHANGED <<inRange, readVars, rawSessions, messageVars, rawMessages, hydrateVars,
                 completedSessions, storeVars, ended>>
-----------------------------------------------------------------------------
(* persistSessionChan.                                                     *)

\* The parts of message m of session s that a persister finds complete.
PartsOf(s, m) == (IF s \in hydrating THEN hydrated ELSE Parts) \ BrokenParts[m]

ReceiveCompleted(w) ==
  /\ Running
  /\ persisting[w] = Idle /\ completedSessions # <<>>
  /\ persisting' = [persisting EXCEPT ![w] = <<Head(completedSessions), 1>>]
  /\ completedSessions' = Tail(completedSessions)
  /\ UNCHANGED <<inRange, readVars, rawSessions, messageVars, rawMessages, hydrateVars,
                 documents, failed, done, ended>>

\* Mutant of DocId: the id of the session, without that of the message.
DocIdOfSession(s, k) == <<s, 1>>

DocId(s, k) == <<s, k>>

\* A round of the loop of persistSession.  An error is logged.
PersistMessage(w) ==
  /\ Running
  /\ persisting[w] # Idle
  /\ LET s == persisting[w][1]
         k == persisting[w][2]
         m == rows[s][k]
     IN /\ \/ /\ documents' = [documents EXCEPT ![DocId(s, k)] = Document(m, PartsOf(s, m))]
              /\ UNCHANGED failed
           \/ /\ Cardinality(failed) < MaxFailures
              /\ failed' = failed \cup {DocId(s, k)}
              /\ UNCHANGED documents
        /\ persisting' = [persisting EXCEPT ![w] = IF k = Len(rows[s]) THEN Idle ELSE <<s, k + 1>>]
  /\ UNCHANGED <<inRange, readVars, rawSessions, messageVars, rawMessages, hydrateVars,
                 completedSessions, done, ended>>
-----------------------------------------------------------------------------
\* wg.Wait(), and the program ends.
Return ==
  /\ Running
  /\ done = {"sessions", "messages", "completed"}
  /\ ended' = "returned"
  /\ UNCHANGED <<inRange, readVars, rawSessions, messageVars, rawMessages, hydrateVars,
                 completedSessions, storeVars, done>>

\* A query fails: Log.Fatalf.
Fatal ==
  /\ Running
  /\ done # {"sessions", "messages", "completed"}
  /\ ended' = "fatal"
  /\ UNCHANGED <<inRange, readVars, rawSessions, messageVars, rawMessages, hydrateVars,
                 completedSessions, storeVars, done>>

Ended == ~Running /\ UNCHANGED vars

ReadSessions == FetchSessions \/ SendSessions \/ CloseSessions
ReadMessages == HydrateMessages \/ SendMessages \/ CloseMessages
Complete ==
  \/ ReceiveMessages \/ CloseCompleted
  \/ \E part \in Parts : Hydrate(part)
  \/ \E m \in Messages : SendCompleted(m)
Persist(w) == ReceiveCompleted(w) \/ PersistMessage(w)

Next ==
  \/ ReadSessions \/ ReadMessages \/ Complete \/ Return \/ Fatal \/ Ended
  \/ \E w \in Persisters : Persist(w)

Spec == Init /\ [][Next]_vars

\* Every goroutine goes on while it can.
FairSpec ==
  /\ Spec
  /\ WF_vars(ReadSessions) /\ WF_vars(ReadMessages) /\ WF_vars(Complete)
  /\ \A w \in Persisters : WF_vars(Persist(w))
  /\ WF_vars(Return)
-----------------------------------------------------------------------------
\* The index has a document of the message, with all of it that could be read.
HasDocument(m) ==
  \E d \in DocIds :
    /\ documents[d] # NoDocument /\ documents[d].message = m
    /\ Parts \ BrokenParts[m] \subseteq documents[d].parts

Indexed(s) == \A m \in Scannable(s) : HasDocument(m)

\* A document of session s could not be stored.
Failed(s) == \E d \in failed : d[1] = s

\* The persisters have not finished with session s.
Stored(s) ==
  /\ s \notin Range(completedSessions)
  /\ \A w \in Persisters : persisting[w] # Idle => persisting[w][1] # s

(* When the program has returned, every message of a session in the range  *)
(* that was asked for has its document, with four exceptions: messages and *)
(* sessions whose row could not be scanned, sessions that Elasticsearch    *)
(* refused a document of, what the persisters had not finished with, which *)
(* nobody waits for, and what comes after so many rows out of the range    *)
(* that they fill a page.                                                  *)
IndexedUnlessLeftBehind ==
  ended = "returned" => \A s \in inRange \ Broken :
    \/ Indexed(s) \/ Failed(s)
    \/ ~Stored(s)
    \/ \E r \in 0 .. s - PageSize - 1 :
         (r + 1 .. r + PageSize) \cap (inRange \ Broken) = {}

(* Indexing again what was indexed before never takes the last document of *)
(* a message away, but while a persister is at its session or for an error *)
(* of Elasticsearch, although the database may return the messages of a    *)
(* session in another order, under other ids, and several persisters may   *)
(* store it.  Of a message whose row cannot be scanned any more the        *)
(* document may be overwritten by another's: nothing is said of it.        *)
StaysIndexed ==
  \A s \in Earlier :
    Indexed(s) \/ Failed(s) \/ \E w \in Persisters : persisting[w] # Idle /\ persisting[w][1] = s

(* The program ends, though its channels are small and what it reads may   *)
(* be empty pages, empty batches and sessions without messages.            *)
IndexReturns == <>(ended # "no")
=============================================================================
