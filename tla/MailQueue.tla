----------------------------- MODULE MailQueue ------------------------------
(***************************************************************************)
(* Importing one Postfix queue into Redis (core/mailQueue.go).             *)
(* mailQueueUpdate walks the queue directory; a goroutine makes batches of *)
(* the files; each batch has a goroutine that runs postcat on it; and one  *)
(* more collects the envelopes they send and writes them in a transaction. *)
(* An update returns before that transaction is over, and the one that is  *)
(* made when the program starts runs next to those of the ticker.          *)
(***************************************************************************)
EXTENDS Integers, FiniteSets

CONSTANTS
  Files,            \* the queue files there are at first, in lexical order
  Unparsable,       \* those whose envelope mailQueueParseEnvelopeString refuses
  BatchSize,        \* 256
  EnvelopeCapacity, \* of the channel: 512
  Ticks,            \* bound: how often the ticker fires
  MaxDelivered,     \* bound: the messages Postfix delivers meanwhile
  RedisFails        \* whether WATCH and EXEC may fail

ASSUME MailQueueAssumption ==
  /\ IsFiniteSet(Files) /\ Files \subseteq Nat
  /\ Unparsable \subseteq Files
  /\ {BatchSize, EnvelopeCapacity} \subseteq Nat \ {0}
  /\ {Ticks, MaxDelivered} \subseteq Nat
  /\ RedisFails \in BOOLEAN

\* The update made when the program starts, and those of the ticker.
AtStart == 0
Updates == {AtStart} \cup (1 .. Ticks)

VARIABLES
  spool,     \* the queue files there are
  walker,    \* where mailQueueUpdate is
  todo,      \* the files it has yet to visit
  batcher,   \* where mailQueueProcessFileList is
  batch,     \* filesBatch
  parsers,   \* the goroutines made for batches: [batch, unsent]
  wg,        \* the WaitGroup
  envelopes, \* the channel of envelopes
  writer,    \* where mailQueueAddToRedis is
  watched,   \* the version of the key its WATCH saw
  pushes,    \* the LPush commands queued in its transaction
  version,   \* how often the key was written
  list,      \* what it holds, and the update that wrote it
  walked,    \* the files visited (history)
  lost       \* the files of the batches postcat failed on (history)

walkVars == <<spool, walker, todo, walked>>
batchVars == <<batcher, batch>>
parseVars == <<parsers, wg, lost>>
writeVars == <<writer, watched, pushes>>
keyVars == <<version, list>>
vars == <<walkVars, batchVars, parseVars, envelopes, writeVars, keyVars>>

\* Files are visited, and envelopes printed, in lexical order.
IsFirst(f, S) == f \in S /\ \A g \in S : f <= g

\* A goroutine that has not run postcat yet has nothing to send.
Unread(b) == [batch |-> b, read |-> FALSE, unsent |-> {}]
Parsers == [batch : SUBSET Files, read : BOOLEAN, unsent : SUBSET Files]

Nothing == [by |-> -1, items |-> {}]

Init ==
  /\ spool = Files
  /\ walker = [u \in Updates |-> "due"]
  /\ todo = [u \in Updates |-> {}]
  /\ batcher = [u \in Updates |-> "none"]
  /\ batch = [u \in Updates |-> {}]
  /\ parsers = [u \in Updates |-> {}]
  /\ wg = [u \in Updates |-> 0]
  /\ envelopes = [u \in Updates |-> {}]
  /\ writer = [u \in Updates |-> "none"]
  /\ watched = [u \in Updates |-> 0]
  /\ pushes = [u \in Updates |-> {}]
  /\ version = 0
  /\ list = Nothing
  /\ walked = [u \in Updates |-> {}]
  /\ lost = [u \in Updates |-> {}]
-----------------------------------------------------------------------------
\* Postfix delivers a message.
Delivered(f) ==
  /\ f \in spool /\ Cardinality(Files \ spool) < MaxDelivered
  /\ spool' = spool \ {f}
  /\ UNCHANGED <<walker, todo, walked, batchVars, parseVars, envelopes,
                 writeVars, keyVars>>

\* The ticker waits for mailQueueUpdate to return.
MayStart(u) == u > 1 => walker[u - 1] = "returned"

\* mailQueueUpdate starts its goroutines and reads the directory.
Start(u) ==
  /\ walker[u] = "due" /\ MayStart(u)
  /\ walker' = [walker EXCEPT ![u] = "walking"]
  /\ todo' = [todo EXCEPT ![u] = spool]
  /\ wg' = [wg EXCEPT ![u] = 1]
  /\ batcher' = [batcher EXCEPT ![u] = "batching"]
  /\ writer' = [writer EXCEPT ![u] = "starting"]
  /\ UNCHANGED <<spool, walked, batch, parsers, lost, envelopes,
                 watched, pushes, keyVars>>

\* The callback of filepath.Walk sends a file that has not gone since to
\* mailQueueProcessFileList, which adds it to its batch and starts the goroutine
\* of a batch that is full.  The two are one step here although the walker may
\* be ahead by the time wg.Add is called: wg cannot be zero before, because of
\* what it was set to by Start, and nobody else sees the batch.
Walk(u) ==
  /\ walker[u] = "walking"
  /\ \E f \in Files :
       LET b == batch[u] \cup ({f} \cap spool)
           full == Cardinality(b) >= BatchSize IN
       /\ IsFirst(f, todo[u])
       /\ todo' = [todo EXCEPT ![u] = @ \ {f}]
       /\ walked' = [walked EXCEPT ![u] = @ \cup ({f} \cap spool)]
       /\ batch' = [batch EXCEPT ![u] = IF full THEN {} ELSE b]
       /\ parsers' = [parsers EXCEPT ![u] = IF full THEN @ \cup {Unread(b)} ELSE @]
       /\ wg' = [wg EXCEPT ![u] = IF full THEN @ + 1 ELSE @]
  /\ UNCHANGED <<spool, walker, batcher, lost, envelopes, writeVars, keyVars>>

CloseFiles(u) ==
  /\ walker[u] = "walking" /\ todo[u] = {}
  /\ walker' = [walker EXCEPT ![u] = "waiting"]
  /\ UNCHANGED <<spool, todo, walked, batchVars, parseVars, envelopes,
                 writeVars, keyVars>>

\* wg.Wait, then close(envelopes).
CloseEnvelopes(u) ==
  /\ walker[u] = "waiting" /\ wg[u] = 0
  /\ walker' = [walker EXCEPT ![u] = "returned"]
  /\ UNCHANGED <<spool, todo, walked, batchVars, parseVars, envelopes,
                 writeVars, keyVars>>
-----------------------------------------------------------------------------
\* Mutant of LastBatch: the list counts itself off as well.
LastBatchDone(u) ==
  /\ batcher[u] = "batching"
  /\ walker[u] = "waiting"
  /\ batcher' = [batcher EXCEPT ![u] = "returned"]
  /\ parsers' = [parsers EXCEPT ![u] = @ \cup {Unread(batch[u])}]
  /\ wg' = [wg EXCEPT ![u] = @ - 1]
  /\ UNCHANGED <<walkVars, batch, lost, envelopes, writeVars, keyVars>>

\* mailQueueProcessFileList is told that there are no more files.  The
\* goroutine of the last batch, which may be empty, takes over what the list
\* itself was counted for in wg.
LastBatch(u) ==
  /\ batcher[u] = "batching"
  /\ walker[u] = "waiting"
  /\ batcher' = [batcher EXCEPT ![u] = "returned"]
  /\ parsers' = [parsers EXCEPT ![u] = @ \cup {Unread(batch[u])}]
  /\ UNCHANGED <<walkVars, batch, wg, lost, envelopes, writeVars, keyVars>>
-----------------------------------------------------------------------------
(* mailQueueProcessFiles.                                                  *)

\* postcat fails as a whole when one of its files has gone, or by itself.
Postcat(u, p) ==
  /\ p \in parsers[u] /\ ~p.read
  /\ \E ok \in {p.batch \subseteq spool, FALSE} :
     /\ parsers' = [parsers EXCEPT ![u] =
          (@ \ {p}) \cup {[p EXCEPT !.read = TRUE,
                             !.unsent = IF ok THEN p.batch \ Unparsable ELSE {}]}]
     /\ lost' = [lost EXCEPT ![u] = IF ok THEN @ ELSE @ \cup p.batch]
  /\ UNCHANGED <<walkVars, batchVars, wg, envelopes, writeVars, keyVars>>

Send(u, p) ==
  /\ p \in parsers[u]
  /\ Cardinality(envelopes[u]) < EnvelopeCapacity
  /\ \E f \in Files :
       /\ IsFirst(f, p.unsent)
       /\ envelopes' = [envelopes EXCEPT ![u] = @ \cup {f}]
       /\ parsers' = [parsers EXCEPT ![u] =
            (@ \ {p}) \cup {[p EXCEPT !.unsent = @ \ {f}]}]
  /\ UNCHANGED <<walkVars, batchVars, wg, lost, writeVars, keyVars>>

\* Mutant of ParserReturns: a goroutine that gives up does not call wg.Done.
ParserReturnsEarly(u, p) ==
  /\ p \in parsers[u] /\ p.read /\ p.unsent = {}
  /\ parsers' = [parsers EXCEPT ![u] = @ \ {p}]
  /\ wg' = [wg EXCEPT ![u] = IF p.batch \subseteq lost[u] THEN @ ELSE @ - 1]
  /\ UNCHANGED <<walkVars, batchVars, lost, envelopes, writeVars, keyVars>>

ParserReturns(u, p) ==
  /\ p \in parsers[u] /\ p.read /\ p.unsent = {}
  /\ parsers' = [parsers EXCEPT ![u] = @ \ {p}]
  /\ wg' = [wg EXCEPT ![u] = @ - 1]
  /\ UNCHANGED <<walkVars, batchVars, lost, envelopes, writeVars, keyVars>>
-----------------------------------------------------------------------------
(* mailQueueAddToRedis.                                                    *)

\* redisNewTransaction.  If WATCH fails there is no transaction, using it
\* panics, and the goroutine ends: nobody receives the envelopes.
Watch(u) ==
  /\ writer[u] = "starting"
  /\ \/ /\ writer' = [writer EXCEPT ![u] = "collecting"]
        /\ watched' = [watched EXCEPT ![u] = version]
     \/ /\ RedisFails
        /\ writer' = [writer EXCEPT ![u] = "panicked"]
        /\ UNCHANGED watched
  /\ UNCHANGED <<walkVars, batchVars, parseVars, envelopes, pushes, keyVars>>

Collect(u) ==
  /\ writer[u] = "collecting"
  /\ \E f \in envelopes[u] :
       /\ envelopes' = [envelopes EXCEPT ![u] = @ \ {f}]
       /\ pushes' = [pushes EXCEPT ![u] = @ \cup {f}]
  /\ UNCHANGED <<walkVars, batchVars, parseVars, writer, watched, keyVars>>

\* Mutant of Exec: the transaction does not wait for the channel to close.
ExecAtOnce(u) ==
  /\ writer[u] = "collecting" /\ envelopes[u] = {}
  /\ IF version = watched[u]
     THEN /\ version' = version + 1
          /\ list' = [by |-> u, items |-> pushes[u]]
     ELSE UNCHANGED keyVars
  /\ writer' = [writer EXCEPT ![u] = "returned"]
  /\ UNCHANGED <<walkVars, batchVars, parseVars, envelopes, watched, pushes>>

\* The channel is closed and empty: Del and the LPush commands take effect
\* together, unless the key was written since WATCH.
Exec(u) ==
  /\ writer[u] = "collecting"
  /\ walker[u] = "returned" /\ envelopes[u] = {}
  /\ \/ /\ version = watched[u]
        /\ version' = version + 1
        /\ list' = [by |-> u, items |-> pushes[u]]
     \/ /\ version # watched[u] \/ RedisFails
        /\ UNCHANGED keyVars
  /\ writer' = [writer EXCEPT ![u] = "returned"]
  /\ UNCHANGED <<walkVars, batchVars, parseVars, envelopes, watched, pushes>>
-----------------------------------------------------------------------------
WalkerStep(u) == Start(u) \/ Walk(u) \/ CloseFiles(u) \/ CloseEnvelopes(u)
ParserStep(u) ==
  \E p \in parsers[u] : Postcat(u, p) \/ Send(u, p) \/ ParserReturns(u, p)
WriterStep(u) == Watch(u) \/ Collect(u) \/ Exec(u)

UpdateStep(u) == WalkerStep(u) \/ LastBatch(u) \/ ParserStep(u) \/ WriterStep(u)

Next == (\E u \in Updates : UpdateStep(u)) \/ (\E f \in Files : Delivered(f))

Spec == Init /\ [][Next]_vars

\* The goroutines are scheduled; Postfix may deliver or not.
FairSpec ==
  /\ Spec
  /\ \A u \in Updates : /\ WF_vars(WalkerStep(u)) /\ WF_vars(LastBatch(u))
                        /\ WF_vars(ParserStep(u)) /\ WF_vars(WriterStep(u))
-----------------------------------------------------------------------------
(* Every variable has its type.                                            *)
TypeOK ==
  /\ spool \subseteq Files
  /\ walker \in [Updates -> {"due", "walking", "waiting", "returned"}]
  /\ {todo, batch, envelopes, pushes, walked, lost} \subseteq [Updates -> SUBSET Files]
  /\ batcher \in [Updates -> {"none", "batching", "returned"}]
  /\ parsers \in [Updates -> SUBSET Parsers]
  /\ wg \in [Updates -> Nat]
  /\ writer \in [Updates -> {"none", "starting", "collecting", "panicked", "returned"}]
  /\ watched \in [Updates -> Nat]
  /\ version \in Nat
  /\ list \in [by : Updates \cup {-1}, items : SUBSET Files]

(* Nobody has an envelope left to send when the channel of envelopes is    *)
(* closed: a send on a closed channel would panic.                         *)
NoSendOnClosed ==
  \A u \in Updates :
    walker[u] = "returned" =>
      batcher[u] = "returned" /\ parsers[u] = {}

(* What Redis holds is what one update found: every file it visited but    *)
(* the unparsable ones and those of the batches postcat failed on, and     *)
(* none is lost between the goroutines or written without the others.      *)
ListIsWhole ==
  list # Nothing =>
    list.items = walked[list.by] \ (lost[list.by] \cup Unparsable)

(* An update that starts returns, so that the ticker goes on, unless its   *)
(* transaction could not be started and there are more envelopes than the  *)
(* channel has room for.                                                   *)
UpdateEnds ==
  \A u \in Updates :
    walker[u] = "walking" ~>
      \/ walker[u] = "returned"
      \/ writer[u] = "panicked" /\ Cardinality(envelopes[u]) = EnvelopeCapacity
=============================================================================
