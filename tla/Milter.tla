------------------------------- MODULE Milter --------------------------------
(***************************************************************************)
(* The milter sessions (core/milter.go, core/milterSession.go): one for    *)
(* every connection of the MTA, kept in an index from Connect to Close.    *)
(* The MTA calls the handlers of one session one after the other; sessions *)
(* run concurrently, and so do a ticker that prunes the sessions that are  *)
(* too old and one that takes the sessions that ended out of a ring buffer *)
(* and gives them to the modules, one of which stores them.                *)
(*                                                                         *)
(* What messageGetVerdict does is left to module Verdict: here it takes    *)
(* some time and records the verdict it returns.  Exit-on-panic is off.    *)
(***************************************************************************)
EXTENDS CheckResults, FiniteSets, Sequences

CONSTANTS
  Sessions,          \* the connections
  Rcpts,             \* the recipients a message may have
  Ip,                \* the client of a session, or a negative number: what
                     \* Postfix gave for it is no IP
  Directives,        \* those of the whitelist: an IP of the network, and how many
                     \* addresses its mask leaves: one if no length is given
  Noop,              \* the noop directive
  RecipientVerdicts, \* what messageAcceptRecipient may make of a recipient
  Fallible,          \* the handlers in which a module may panic
  Capacity,          \* of the ring buffer, 256 sessions
  MaxTransactions,   \* bound: the mail transactions of a session
  MaxLost            \* bound: the documents that Elasticsearch refused

ASSUME MilterAssumption ==
  /\ Ip \in [Sessions -> Int]
  /\ Directives \subseteq [ip : Nat, size : Nat \ {0}]
  /\ Noop \in BOOLEAN
  /\ RecipientVerdicts \subseteq Verdicts
  /\ Fallible \subseteq {"EnvRcpt", "Eoh"}
  /\ Capacity \in Nat \ {0}
  /\ {MaxTransactions, MaxLost} \subseteq Nat

\* Mutant of RangeEnd: the range ends where it starts.
RangeEndBefore(d) == d.ip - (d.ip % d.size)

\* The ranges milterSessionStart makes of the directives: an IPv4 network has
\* its addresses written as those of IPv6 by then.
RangeStart(d) == d.ip - (d.ip % d.size)
RangeEnd(d) == RangeStart(d) + d.size - 1

IsWhitelisted(ip) ==
  \E d \in Directives : RangeStart(d) <= ip /\ ip <= RangeEnd(d)

Whitelisted == {s \in Sessions : IsWhitelisted(Ip[s])}

VARIABLES
  mta,          \* the MTA's side of a session (external)
  reply,        \* what the last handler of a session returned
  call,         \* the handler of a session that is under way, or "none"
  index,        \* the sessions in MilterDataIndex
  messages,     \* the Messages of a session
  aged,         \* the sessions that were connected over 15 minutes ago
  pruning,      \* the sessions prune has yet to delete, holding the lock
  ring,         \* milterSessionPersistQueue
  disconnecting, \* the sessions whose SessionDisconnect goroutines run
  stored,       \* <<s, i, v>>: message i of s was stored with verdict v
  lost,         \* <<s, i>>: it was refused when s was last to be stored
  disconnected, \* the sessions that were given to SessionDisconnect
  overwritten,  \* the sessions the ring buffer dropped when it was full
  prunedInEom   \* the sessions that were pruned during the handler Eom

sessionVars == <<mta, reply, call, messages>>
queueVars == <<disconnecting, stored, lost, disconnected>>
endVars == <<ring, overwritten>>
pruneVars == <<aged, pruning, prunedInEom>>
vars == <<sessionVars, index, pruneVars, endVars, queueVars>>

\* The callbacks of a session, and where the MTA is when it makes them.
Stages == {"new", "connected", "mail", "rcpt", "headers", "body", "closed"}
CalledIn ==
  [Helo |-> {"connected"}, EnvFrom |-> {"connected"}, EnvRcpt |-> {"mail", "rcpt"},
   Header |-> {"rcpt", "headers"}, Eoh |-> {"rcpt", "headers"},
   Body |-> {"body"}, Eom |-> {"body"}]
Callbacks == DOMAIN CalledIn
StageAfter ==
  [Helo |-> "connected", EnvFrom |-> "mail", EnvRcpt |-> "rcpt", Header |-> "headers",
   Eoh |-> "body", Body |-> "body", Eom |-> "connected"]

Refusals == {"Tempfail", "Reject"}
Replies == {"Continue", "Accept", "Discard"} \cup Refusals

\* A message: the transactions its data stems from, its recipients, the
\* verdict recorded with it and whether messageGetVerdict gave it.
NewMessage(n) == [of |-> {n}, rcpt |-> {}, verdict |-> ZeroVerdict, judged |-> FALSE]

Init ==
  /\ mta = [s \in Sessions |->
              [stage |-> "new", n |-> 0, rcpts |-> {}, delivered |-> FALSE]]
  /\ reply = [s \in Sessions |-> "Continue"]
  /\ call = [s \in Sessions |-> "none"]
  /\ index = {}
  /\ messages = [s \in Sessions |-> <<>>]
  /\ aged = {}
  /\ pruning = {}
  /\ ring = <<>>
  /\ disconnecting = {}
  /\ stored = {}
  /\ lost = {}
  /\ disconnected = {}
  /\ overwritten = {}
  /\ prunedInEom = {}
-----------------------------------------------------------------------------
(* The MTA's reaction to a reply: a refused recipient is only that, any    *)
(* other refusal ends the transaction.                                     *)

Replied(s, callback, r, rep) ==
  /\ reply' = [reply EXCEPT ![s] = rep]
  /\ mta' = [mta EXCEPT ![s] =
       [stage |-> IF rep \notin Refusals THEN StageAfter[callback]
                  ELSE IF callback = "EnvRcpt" THEN @.stage
                  ELSE "connected",
        n |-> IF callback = "EnvFrom" THEN @.n + 1 ELSE @.n,
        rcpts |-> IF callback = "EnvFrom" THEN {}
                  ELSE IF callback = "EnvRcpt" /\ rep \notin Refusals THEN @.rcpts \cup {r}
                  ELSE @.rcpts,
        delivered |-> callback = "Eom" /\ rep \in {"Accept", "Continue"}]]

\* The mutex of the index is held by prune only across several steps.
Unlocked == pruning = {}

Calls(s, callback) ==
  /\ Unlocked
  /\ call[s] = "none"
  /\ mta[s].stage \in CalledIn[callback]
  /\ callback = "EnvFrom" => mta[s].n < MaxTransactions

\* milterGetSession finds the session, and getLastMessage a message.
Found(s, callback) ==
  /\ s \in index
  /\ callback \notin {"Helo", "EnvFrom"} => messages[s] # <<>>

\* A panic of the handler; the deferred milterHandleError is still to run.
Panics(s, callback) ==
  /\ call' = [call EXCEPT ![s] = callback]
  /\ UNCHANGED <<mta, reply, messages>>

Returns(s, callback, r, rep) ==
  /\ Replied(s, callback, r, rep)
  /\ UNCHANGED call

LastMessage(s) == messages[s][Len(messages[s])]

WithLast(s, msg) == [messages EXCEPT ![s][Len(messages[s])] = msg]

\* The last message after data of the MTA's transaction is added to it.
Extended(s) == [LastMessage(s) EXCEPT !.of = @ \cup {mta[s].n}]

\* The ring buffer drops its oldest item when it is full (external).
Enqueue(s) ==
  IF Len(ring) < Capacity
  THEN ring' = Append(ring, s) /\ UNCHANGED overwritten
  ELSE ring' = Append(Tail(ring), s) /\ overwritten' = overwritten \cup {Head(ring)}
-----------------------------------------------------------------------------
Connect(s) ==
  /\ Unlocked
  /\ mta[s].stage = "new"
  /\ index' = index \cup {s}
  /\ mta' = [mta EXCEPT ![s].stage = "connected"]
  /\ UNCHANGED <<reply, call, messages, pruneVars, endVars, queueVars>>

\* The handlers that find no session (it was pruned) panic: Helo because it
\* uses the nil session, the others because milterGetSession does.
NotFound(s, callback) ==
  /\ Calls(s, callback)
  /\ ~Found(s, callback)
  /\ Panics(s, callback)
  /\ UNCHANGED <<index, pruneVars, endVars, queueVars>>

Helo(s) ==
  /\ Calls(s, "Helo") /\ Found(s, "Helo")
  /\ Returns(s, "Helo", {}, "Continue")
  /\ UNCHANGED <<messages, index, pruneVars, endVars, queueVars>>

\* Mutant of EnvFrom: the message of an aborted transaction is used again.
EnvFromReusing(s) ==
  /\ Calls(s, "EnvFrom") /\ Found(s, "EnvFrom")
  /\ messages' = [messages EXCEPT ![s] =
       IF @ # <<>> /\ ~LastMessage(s).judged THEN @ ELSE Append(@, NewMessage(mta[s].n + 1))]
  /\ Returns(s, "EnvFrom", {}, "Continue")
  /\ UNCHANGED <<index, pruneVars, endVars, queueVars>>

EnvFrom(s) ==
  /\ Calls(s, "EnvFrom") /\ Found(s, "EnvFrom")
  /\ messages' = [messages EXCEPT ![s] = Append(@, NewMessage(mta[s].n + 1))]
  /\ Returns(s, "EnvFrom", {}, "Continue")
  /\ UNCHANGED <<index, pruneVars, endVars, queueVars>>

\* Whatever the noop directive and the whitelist say.
RecipientReply(v) ==
  IF v \in {"TempFail", "Error"} THEN "Tempfail"
  ELSE IF v = "Reject" THEN "Reject"
  ELSE "Continue"

EnvRcpt(s, r) ==
  /\ Calls(s, "EnvRcpt") /\ Found(s, "EnvRcpt")
  /\ \/ \E v \in RecipientVerdicts :
          /\ messages' = IF RecipientReply(v) \in Refusals THEN messages
                         ELSE WithLast(s, [Extended(s) EXCEPT !.rcpt = @ \cup {r}])
          /\ Returns(s, "EnvRcpt", r, RecipientReply(v))
     \/ "EnvRcpt" \in Fallible /\ Panics(s, "EnvRcpt")
  /\ UNCHANGED <<index, pruneVars, endVars, queueVars>>

\* A header, or a piece of the body, is appended to the last message.
HeaderOrBody(s, callback) ==
  /\ callback \in {"Header", "Body"}
  /\ Calls(s, callback) /\ Found(s, callback)
  /\ messages' = WithLast(s, Extended(s))
  /\ Returns(s, callback, {}, "Continue")
  /\ UNCHANGED <<index, pruneVars, endVars, queueVars>>

\* The queue id is noted, and the modules configure the session.
Eoh(s) ==
  /\ Calls(s, "Eoh") /\ Found(s, "Eoh")
  /\ messages' = WithLast(s, Extended(s))
  /\ \/ Returns(s, "Eoh", {}, "Continue")
     \/ /\ "Eoh" \in Fallible
        /\ call' = [call EXCEPT ![s] = "Eoh"]
        /\ UNCHANGED <<mta, reply>>
  /\ UNCHANGED <<index, pruneVars, endVars, queueVars>>

\* Mutant of EomStart: the session is persisted with every message.
EomPersists(s) ==
  /\ Calls(s, "Eom") /\ Found(s, "Eom")
  /\ call' = [call EXCEPT ![s] = "judging"]
  /\ Enqueue(s)
  /\ UNCHANGED <<mta, reply, messages, index, pruneVars, queueVars>>

EomStart(s) ==
  /\ Calls(s, "Eom") /\ Found(s, "Eom")
  /\ call' = [call EXCEPT ![s] = "judging"]
  /\ UNCHANGED <<mta, reply, messages, index, pruneVars, endVars, queueVars>>

VerdictReply(v) ==
  IF v = "Permit" THEN "Accept" ELSE IF v = "TempFail" THEN "Tempfail" ELSE v

EomAnswer(s) ==
  /\ call[s] = "judging"
  /\ \E v \in FinalVerdicts :
       /\ messages' = WithLast(s, [LastMessage(s) EXCEPT !.verdict = v, !.judged = TRUE])
       /\ Replied(s, "Eom", {},
            IF Noop THEN "Continue"
            ELSE VerdictReply(IF s \in Whitelisted THEN "Permit" ELSE v))
  /\ call' = [call EXCEPT ![s] = "none"]
  /\ UNCHANGED <<index, pruneVars, endVars, queueVars>>

\* Mutant of HandleError: nobody sets sfsistat.
HandleErrorContinues(s) ==
  /\ call[s] \in Callbacks
  /\ Unlocked \/ Noop
  /\ \E r \in Rcpts : Replied(s, call[s], r, "Continue")
  /\ call' = [call EXCEPT ![s] = "none"]
  /\ UNCHANGED <<messages, index, pruneVars, endVars, queueVars>>

\* milterHandleError: the panic is turned into a Tempfail, unless noop is set
\* or the session is still indexed and its IP is whitelisted.
HandleError(s) ==
  /\ call[s] \in Callbacks
  /\ Unlocked \/ Noop
  /\ \E r \in Rcpts :
       Replied(s, call[s], r,
         IF Noop \/ (s \in index /\ s \in Whitelisted) THEN "Continue" ELSE "Tempfail")
  /\ call' = [call EXCEPT ![s] = "none"]
  /\ UNCHANGED <<messages, index, pruneVars, endVars, queueVars>>

\* The message of the transaction stays with the session.
Abort(s) ==
  /\ Unlocked
  /\ call[s] = "none"
  /\ mta[s].stage \in {"mail", "rcpt", "headers", "body"}
  /\ mta' = [mta EXCEPT ![s].stage = "connected"]
  /\ UNCHANGED <<reply, call, messages, index, pruneVars, endVars, queueVars>>
-----------------------------------------------------------------------------
(* The end of a session: it is put in the ring buffer, then deleted from   *)
(* the index.                                                              *)

\* Close finds the session, or has nothing left to do.
CloseStart(s) ==
  /\ Unlocked
  /\ call[s] = "none"
  /\ mta[s].stage \notin {"new", "closed"}
  /\ IF s \in index
     THEN call' = [call EXCEPT ![s] = "persisting"] /\ UNCHANGED mta
     ELSE mta' = [mta EXCEPT ![s].stage = "closed"] /\ UNCHANGED call
  /\ UNCHANGED <<reply, messages, index, pruneVars, endVars, queueVars>>

ClosePersist(s) ==
  /\ call[s] = "persisting"
  /\ Enqueue(s)
  /\ call' = [call EXCEPT ![s] = "deleting"]
  /\ UNCHANGED <<mta, reply, messages, index, pruneVars, queueVars>>

CloseDelete(s) ==
  /\ call[s] = "deleting"
  /\ Unlocked
  /\ index' = index \ {s}
  /\ call' = [call EXCEPT ![s] = "none"]
  /\ mta' = [mta EXCEPT ![s].stage = "closed"]
  /\ UNCHANGED <<reply, messages, pruneVars, endVars, queueVars>>

Age(s) ==
  /\ s \in index \ aged
  /\ aged' = aged \cup {s}
  /\ UNCHANGED <<sessionVars, index, pruning, prunedInEom, endVars, queueVars>>

\* prune locks the index and looks for the sessions that are too old.
PruneStart ==
  /\ Unlocked
  /\ pruning' = index \cap aged
  /\ UNCHANGED <<sessionVars, index, aged, prunedInEom, endVars, queueVars>>

\* Mutants of PruneDelete: the session is not persisted; the lock is kept.
PruneForgets(s) ==
  /\ s \in pruning
  /\ index' = index \ {s}
  /\ pruning' = pruning \ {s}
  /\ UNCHANGED <<sessionVars, aged, prunedInEom, endVars, queueVars>>

PruneKeepsLock(s) ==
  /\ s \in pruning
  /\ Enqueue(s)
  /\ index' = index \ {s}
  /\ UNCHANGED <<sessionVars, pruneVars, queueVars>>

PruneDelete(s) ==
  /\ s \in pruning
  /\ Enqueue(s)
  /\ index' = index \ {s}
  /\ pruning' = pruning \ {s}
  /\ prunedInEom' = IF call[s] = "judging" THEN prunedInEom \cup {s} ELSE prunedInEom
  /\ UNCHANGED <<sessionVars, aged, queueVars>>

\* Mutant of ProcessQueue: it stops before the last item.
ProcessAllButOne ==
  /\ Len(ring) > 1
  /\ ring' = Tail(ring)
  /\ disconnecting' = disconnecting \cup {Head(ring)}
  /\ UNCHANGED <<sessionVars, index, pruneVars, overwritten, stored, lost, disconnected>>

\* milterSessionProcessQueue starts the SessionDisconnect goroutines.
ProcessQueue ==
  /\ ring # <<>>
  /\ ring' = Tail(ring)
  /\ disconnecting' = disconnecting \cup {Head(ring)}
  /\ UNCHANGED <<sessionVars, index, pruneVars, overwritten, stored, lost, disconnected>>

\* SessionDisconnect stores one document for every message of the session;
\* one that was stored before is replaced.  That Elasticsearch refuses one is
\* logged, and nothing else comes of it.
SessionDisconnect(s) ==
  /\ s \in disconnecting
  /\ disconnecting' = disconnecting \ {s}
  /\ \E refused \in SUBSET DOMAIN messages[s] :
       /\ stored' = {d \in stored : d[1] # s \/ d[2] \in refused}
            \cup {<<s, i, messages[s][i].verdict>> : i \in DOMAIN messages[s] \ refused}
       /\ lost' = {d \in lost : d[1] # s} \cup {<<s, i>> : i \in refused}
       /\ Cardinality(lost') <= MaxLost
  /\ disconnected' = disconnected \cup {s}
  /\ UNCHANGED <<sessionVars, index, pruneVars, endVars>>
-----------------------------------------------------------------------------
\* What the MTA does, of its own accord.
MTAStep(s) ==
  \/ Connect(s) \/ Helo(s) \/ EnvFrom(s) \/ Eoh(s) \/ EomStart(s)
  \/ Abort(s) \/ CloseStart(s)
  \/ \E r \in Rcpts : EnvRcpt(s, r)
  \/ \E c \in Callbacks : HeaderOrBody(s, c) \/ NotFound(s, c)

\* What a handler does that was called.
HandlerStep(s) ==
  EomAnswer(s) \/ HandleError(s) \/ ClosePersist(s) \/ CloseDelete(s)

Prune == PruneStart \/ \E s \in Sessions : PruneDelete(s)

Next ==
  \/ \E s \in Sessions : MTAStep(s) \/ HandlerStep(s) \/ Age(s) \/ SessionDisconnect(s)
  \/ Prune
  \/ ProcessQueue

Spec == Init /\ [][Next]_vars

-----------------------------------------------------------------------------
(* Every variable has its type.                                            *)
Message ==
  [of : SUBSET (1 .. MaxTransactions), rcpt : SUBSET Rcpts,
   verdict : FinalVerdicts, judged : BOOLEAN]
Handling == Callbacks \cup {"none", "judging", "persisting", "deleting"}
TypeOK ==
  /\ mta \in [Sessions -> [stage : Stages, n : 0 .. MaxTransactions,
                           rcpts : SUBSET Rcpts, delivered : BOOLEAN]]
  /\ reply \in [Sessions -> Replies]
  /\ call \in [Sessions -> Handling]
  /\ messages \in [Sessions -> Seq(Message)]
  /\ ring \in Seq(Sessions)
  /\ index \subseteq Sessions /\ aged \subseteq Sessions /\ pruning \subseteq Sessions
  /\ disconnecting \subseteq Sessions /\ disconnected \subseteq Sessions
  /\ overwritten \subseteq Sessions /\ prunedInEom \subseteq Sessions
  /\ stored \in SUBSET (Sessions \X Nat \X FinalVerdicts)
  /\ lost \in SUBSET (Sessions \X Nat)

InRing == {ring[i] : i \in DOMAIN ring}

(* A session is never lost: until the modules were given it, it is in the  *)
(* index or in the ring buffer, or the ring buffer was full.               *)
SessionsAccounted ==
  \A s \in Sessions :
    mta[s].stage # "new" =>
      s \in index \cup InRing \cup disconnecting \cup disconnected \cup overwritten

(* What is judged is what the MTA sent in this transaction: nothing of an  *)
(* earlier one that was aborted or refused is left in it, and its          *)
(* recipients are the ones accepted.  With noop, or from a whitelisted IP, *)
(* the MTA may accept one whose handler panicked.                          *)
JudgedOnOwnData ==
  \A s \in Sessions :
    call[s] = "judging" =>
      /\ LastMessage(s).of = {mta[s].n}
      /\ LastMessage(s).rcpt \subseteq mta[s].rcpts
      /\ LastMessage(s).rcpt = mta[s].rcpts \/ Noop \/ s \in Whitelisted

(* The MTA delivers a message only on the verdict Permit for this message: *)
(* a panic, or a session that was pruned, does not let it through.  Noop   *)
(* and the whitelist are the exceptions.                                   *)
DeliveredOnPermit ==
  \A s \in Sessions :
    mta[s].delivered /\ ~Noop /\ s \notin Whitelisted =>
      /\ messages[s] # <<>>
      /\ LastMessage(s).judged /\ LastMessage(s).verdict = "Permit"
      /\ LastMessage(s).of = {mta[s].n}

StoredAsJudged(s) ==
  \A i \in DOMAIN messages[s] :
    messages[s][i].judged /\ <<s, i>> \notin lost =>
      <<s, i, messages[s][i].verdict>> \in stored

(* A session that was not pruned in the middle of Eom is stored with the   *)
(* verdicts of all its messages, although the modules read it in their own *)
(* goroutines, but for the documents that Elasticsearch refuses.           *)
VerdictsStoredUnlessPruned ==
  \A s \in disconnected \ prunedInEom : StoredAsJudged(s)

\* Who is in one network with a directive.
Directed ==
  {s \in Sessions : \E d \in Directives : Ip[s] \div d.size = d.ip \div d.size}

(* A client that a whitelist directive names, by its network or alone, is  *)
(* allowed no matter what, panics included, as long as its session is      *)
(* known and its recipients are: only one that was pruned is refused.      *)
WhitelistedUnlessPruned ==
  RecipientVerdicts \subseteq {"Permit", "Discard"} =>
    \A s \in Directed \cap index : reply[s] \notin Refusals \cup {"Discard"}
=============================================================================
