------------------------------ MODULE Feedback ------------------------------
(***************************************************************************)
(* From a bounce to a lesson.  A remote MTA refuses a message as spam; our *)
(* MTA hands the delivery report to the bounce handler                     *)
(* (bounceHandler/bounceHandler.go), which stores it, removes the message  *)
(* from the mail queue and reports its Message-Id to the instance          *)
(* (bayes/bayes.go).  Every process of the instance looks for the message  *)
(* in its cache; the one that has it publishes it to all processes, whose  *)
(* modules learn from it.                                                  *)
(*                                                                         *)
(* The reports come in at Here, whose cache is MessageCache.  Of the other *)
(* processes' caches the Message-Ids that are in them are given.           *)
(***************************************************************************)
EXTENDS MessageCache, Rpc

CONSTANTS
  Here,          \* the process that the bounces come to
  Judged,        \* the queue id and Message-Id of the messages judged by Here
  CachedAt,      \* the Message-Ids that the others have cached
  Bounces,
  BounceOf,      \* what a bounce says: the Message-Id and the queue id of the
                 \* message, and for how many recipients
  MailQueueEnabled,  \* of the configuration of Here
  ValidIds,      \* the queue ids that MailQueueDeleteItems does not ignore: not
                 \* empty, not "ALL" and at most 20 characters
  Learners,      \* the enabled modules of a process in the order they were
                 \* registered in
  SpamAssassin   \* the one of them that has a BayesLearn of its own

ASSUME FeedbackAssumption ==
  /\ Here \in Processes
  /\ Judged \subseteq QueueIds \X MsgIds
  /\ CachedAt \in [Processes \ {Here} -> SUBSET MsgIds]
  /\ MailQueueEnabled \in BOOLEAN
  /\ \A p \in Processes : Learners[p] # <<>>

VARIABLES
  stage,      \* where the handling of a bounce is
  spam,       \* whether one of the diagnostic codes in it says spam
  rows,       \* its rows in the database: one for it, one per recipient
  reporting,  \* the bounces whose ReportMessageId was started
  learning,   \* the lessons being learnt
  taught,     \* by process: which goroutine for which lesson called which module
  removed,    \* the messages that postsuper removed
  kept        \* the bounces for which it removed nothing although it might: it
              \* failed, or was given no queue id

bounceVars == <<stage, spam, rows>>
learnVars == <<learning, taught>>
queueVars == <<removed, kept>>
feedbackVars == <<rpcVars, bounceVars, reporting, learnVars, queueVars>>
allVars == <<vars, feedbackVars>>

FeedbackInit ==
  /\ Init
  /\ RpcInit
  /\ stage = [b \in Bounces |-> "new"]
  /\ spam = [b \in Bounces |-> FALSE]
  /\ rows = [b \in Bounces |-> 0]
  /\ reporting = {}
  /\ learning = [p \in Processes |-> {}]
  /\ taught = [p \in Processes |-> {}]
  /\ removed = {}
  /\ kept = {}
-----------------------------------------------------------------------------
(* The bounce handler.  Its goroutine, be it of a connection or of the IPC *)
(* socket, recovers from panics.                                           *)

Rows(b) == 1 + BounceOf[b].recipients

\* The diagnostic codes of the recipients: what one of them contains.
Codes == {"spam", "unsolicited", "contained unsafe content", "mailbox unavailable"}
GetBounceReasons(b) == [1 .. BounceOf[b].recipients -> Codes]

ShouldReportBayes(code) == code \in {"spam", "unsolicited", "contained unsafe content"}

\* A report that was read.  The last module to be initialised is this one.
Reads(b) ==
  /\ Here \in up
  /\ phase[Here] = "started"
  /\ stage[b] = "new"

\* parseReport up to saveBounce.
Parse(b) ==
  /\ Reads(b)
  /\ stage' = [stage EXCEPT ![b] = "saving"]
  /\ \E codes \in GetBounceReasons(b) :
       spam' = [spam EXCEPT ![b] = \E i \in DOMAIN codes : ShouldReportBayes(codes[i])]
  /\ UNCHANGED <<rpcVars, rows, reporting, learnVars, queueVars>>

\* The report is not what Postfix sends.
ParsePanics(b) ==
  /\ Reads(b)
  /\ stage' = [stage EXCEPT ![b] = "panicked"]
  /\ UNCHANGED <<rpcVars, spam, rows, reporting, learnVars, queueVars>>

\* Mutant of SaveRow: an error is logged, and the rest of the rows left out.
SaveRowOrLog(b) ==
  /\ Here \in up
  /\ stage[b] = "saving"
  /\ \/ /\ rows' = [rows EXCEPT ![b] = @ + 1]
        /\ stage' = IF rows'[b] = Rows(b) THEN [stage EXCEPT ![b] = "saved"] ELSE stage
     \/ /\ stage' = [stage EXCEPT ![b] = "saved"]
        /\ UNCHANGED rows
  /\ UNCHANGED <<rpcVars, spam, reporting, learnVars, queueVars>>

\* saveBounce inserts one row after the other, and panics if one fails.
SaveRow(b) ==
  /\ Here \in up
  /\ stage[b] = "saving"
  /\ \/ /\ rows' = [rows EXCEPT ![b] = @ + 1]
        /\ stage' = IF rows'[b] = Rows(b) THEN [stage EXCEPT ![b] = "saved"] ELSE stage
     \/ /\ stage' = [stage EXCEPT ![b] = "panicked"]
        /\ UNCHANGED rows
  /\ UNCHANGED <<rpcVars, spam, reporting, learnVars, queueVars>>

\* Mutant of Report: a message that is reported stays in the queue.
ReportOnly(b) ==
  /\ Here \in up
  /\ stage[b] = "saved"
  /\ \/ /\ ~spam[b] \/ Here \in bayes
        /\ stage' = [stage EXCEPT ![b] = "done"]
        /\ reporting' = IF spam[b] THEN reporting \cup {b} ELSE reporting
     \/ /\ spam[b] /\ Here \notin bayes
        /\ stage' = [stage EXCEPT ![b] = "panicked"]
        /\ UNCHANGED reporting
  /\ UNCHANGED <<rpcVars, spam, rows, learnVars, queueVars>>

\* The rest of parseReport.  Module returns nil when bayes is not enabled,
\* and what it points to is read nevertheless: the message stays in the queue.
Report(b) ==
  /\ Here \in up
  /\ stage[b] = "saved"
  /\ \/ /\ ~spam[b]
        /\ stage' = [stage EXCEPT ![b] = "done"]
        /\ UNCHANGED reporting
     \/ /\ spam[b] /\ Here \in bayes
        /\ stage' = [stage EXCEPT ![b] = "deleting"]
        /\ reporting' = reporting \cup {b}
     \/ /\ spam[b] /\ Here \notin bayes
        /\ stage' = [stage EXCEPT ![b] = "panicked"]
        /\ UNCHANGED reporting
  /\ UNCHANGED <<rpcVars, spam, rows, learnVars, queueVars>>

\* Whether MailQueueDeleteItems runs postsuper on the message at all.
MayDelete(b) == MailQueueEnabled /\ BounceOf[b].queueId \in ValidIds

\* parseReport reads the queue id anew, in another way than for the row, and may
\* find none; then MailQueueDeleteItems, on this host.  It only logs an error of
\* postsuper.
DeleteQueueItem(b) ==
  /\ Here \in up
  /\ stage[b] = "deleting"
  /\ stage' = [stage EXCEPT ![b] = "done"]
  /\ \/ /\ MayDelete(b)
        /\ removed' = removed \cup {BounceOf[b].queueId}
        /\ UNCHANGED kept
     \/ /\ kept' = IF MayDelete(b) THEN kept \cup {b} ELSE kept
        /\ UNCHANGED removed
  /\ UNCHANGED <<rpcVars, spam, rows, reporting, learnVars>>
-----------------------------------------------------------------------------
(* Bayes.                                                                  *)

\* The goroutine of ReportMessageId.
ReportMessageId(b) ==
  /\ Here \in up
  /\ b \in reporting
  /\ reporting' = reporting \ {b}
  /\ RedisPublish([to |-> Instance[Here], pattern |-> "reportMessageId", body |-> b])
  /\ UNCHANGED <<sending, bounceVars, learnVars, queueVars>>

\* A message without a Message-Id is reported under one that is generated, under
\* which nothing is found.
GetMessageId(b) == IF BounceOf[b].msgId \in MsgIds THEN BounceOf[b].msgId ELSE NoMsgId

\* GetByMessageId at process p.
Found(p, b) ==
  LET m == GetMessageId(b)
  IN IF m = NoMsgId THEN {}
     ELSE IF p = Here
          THEN {[bounce |-> b, by |-> p, msgId |-> msgIdRevIdx[q]] : q \in Lookup(m)}
          ELSE {[bounce |-> b, by |-> p, msgId |-> m] : x \in CachedAt[p] \cap {m}}

\* handleReportMessageIdQueueItem.  The message found is published as it is.
LookUp(p, m) ==
  /\ m.pattern = "reportMessageId"
  /\ Take(p, m)
  /\ \/ /\ Found(p, m.body) = {}
        /\ UNCHANGED <<bayes, up, phase, subscribed, listeners, inbox>>
     \/ \E l \in Found(p, m.body) :
          RedisPublish([to |-> Everyone, pattern |-> "learn", body |-> l])
  /\ UNCHANGED <<bounceVars, reporting, learnVars, queueVars>>

\* learn and the first round of its loop: at is the loop variable, waiting the
\* goroutines that did not call a module yet.
Learn(p, m) ==
  /\ m.pattern = "learn"
  /\ Take(p, m)
  /\ learning' = [learning EXCEPT ![p] = @ \cup {[lesson |-> m.body, at |-> 1, waiting |-> {1}]}]
  /\ UNCHANGED <<bayes, up, phase, subscribed, listeners, inbox,
                 bounceVars, reporting, taught, queueVars>>

\* A round of the loop.
StartLearner(p, r) ==
  /\ p \in up
  /\ r \in learning[p] /\ r.at < Len(Learners[p])
  /\ learning' = [learning EXCEPT ![p] = (@ \ {r}) \cup
       {[r EXCEPT !.at = @ + 1, !.waiting = @ \cup {r.at + 1}]}]
  /\ UNCHANGED <<rpcVars, bounceVars, reporting, taught, queueVars>>

\* module.BayesLearn, module being the variable of the loop, which may have
\* gone on.
Learner(p, r, i) == Learners[p][r.at]

\* A message that is made of what came from Redis has no session.
GetAsMessage(lesson) == [msgId |-> lesson.msgId, session |-> "nil"]

\* BayesLearn.  SpamAssassin's asks the session of the message for its
\* configuration, and nothing recovers from that panic: CluegetterRecover is
\* called, not deferred.  That of the others does nothing.
BayesLearn(p, r, i) ==
  /\ p \in up
  /\ r \in learning[p] /\ i \in r.waiting
  /\ learning' = [learning EXCEPT ![p] = (@ \ {r}) \cup {[r EXCEPT !.waiting = @ \ {i}]}]
  /\ taught' = [taught EXCEPT ![p] = @ \cup {<<r.lesson, i, Learner(p, r, i)>>}]
  /\ IF Learner(p, r, i) = SpamAssassin /\ GetAsMessage(r.lesson).session = "nil"
     THEN EndProcess(p)
     ELSE UNCHANGED <<bayes, up, phase, subscribed, listeners, inbox, sending>>
  /\ UNCHANGED <<bounceVars, reporting, queueVars>>

HandleBounce(b) ==
  Parse(b) \/ ParsePanics(b) \/ SaveRow(b) \/ Report(b) \/ DeleteQueueItem(b) \/ ReportMessageId(b)

HandleCall(p) ==
  \/ \E m \in sending[p] : LookUp(p, m) \/ Learn(p, m)
  \/ \E r \in learning[p] : StartLearner(p, r) \/ \E i \in r.waiting : BayesLearn(p, r, i)

FeedbackNext ==
  \/ /\ \/ \E i \in Judged, n \in 1 .. MaxEntrySize + 1 : Set(i[1], i[2], n)
        \/ Prune \/ Tick
     /\ UNCHANGED feedbackVars
  \/ /\ \/ \E p \in Processes : RpcNext(p) /\ UNCHANGED <<bounceVars, reporting, learnVars, queueVars>>
        \/ \E b \in Bounces : HandleBounce(b)
        \/ \E p \in Processes : HandleCall(p)
     /\ UNCHANGED vars

FeedbackSpec == FeedbackInit /\ [][FeedbackNext]_allVars

\* What the goroutines of a process do by themselves.
Proceeds(p) ==
  \/ RpcProceeds(p) /\ UNCHANGED <<bounceVars, reporting, learnVars, queueVars>>
  \/ HandleCall(p)
  \/ p = Here /\ \E b \in Bounces : HandleBounce(b) /\ stage[b] # "new"

(***************************************************************************)
(* Processes go on while they can, whichever of their goroutines is next:  *)
(* none of them goes round for ever.  That the cache is pruned is a        *)
(* ticker.  Nothing is assumed of bounces and of connections that break.   *)
(***************************************************************************)
FairFeedbackSpec ==
  /\ FeedbackSpec
  /\ WF_allVars(Prune /\ UNCHANGED feedbackVars)
  /\ \A p \in Processes : WF_allVars(Proceeds(p) /\ UNCHANGED vars)
-----------------------------------------------------------------------------
(* Every lesson in the system, wherever it is.                             *)
Lessons ==
  LET Bodies(c) == {m.body : m \in {k \in c : k.pattern = "learn"}}
      At(p) == {r.lesson : r \in learning[p]}
               \cup Bodies(sending[p] \cup {inbox[p][k] : k \in DOMAIN inbox[p]})
  IN UNION {At(p) : p \in Processes}

(* What is learnt is the message that was reported: whatever the cache     *)
(* stores anew or prunes in the meantime, the message in a lesson carries  *)
(* the Message-Id of the bounce, the bounce called it spam, and it was     *)
(* judged by the instance that got the bounce.                             *)
LearnedAsReported ==
  \A l \in Lessons :
    /\ spam[l.bounce]
    /\ l.msgId = BounceOf[l.bounce].msgId
    /\ Instance[l.by] = Instance[Here]

(* Nothing is done about a bounce that is not on record: a lesson, on      *)
(* whichever process, a report that is under way and a removal from the    *)
(* queue all come after every row of the bounce was stored.                *)
ActedOnIfStored ==
  \A b \in Bounces :
    \/ b \in reporting
    \/ \E l \in Lessons : l.bounce = b
    \/ /\ stage[b] \in {"deleting", "done"} /\ spam[b]
    => rows[b] = Rows(b)

(* A message that was refused as spam, by a bounce that is on record, is   *)
(* removed from the queue.  The exceptions are that the handler ends first *)
(* (it panics when bayes is disabled, or the process ended); that          *)
(* MailQueueDeleteItems is not to do anything (the mail queue is disabled, *)
(* or the queue id is one that it ignores); and that it could not: the     *)
(* second look-up of the queue id found none, or postsuper failed, which   *)
(* is logged and not tried again.                                          *)
RefusedLeaveTheQueue ==
  \A b \in Bounces :
    stage[b] = "saved" /\ spam[b] ~>
      \/ BounceOf[b].queueId \in removed
      \/ Here \notin up \cap bayes
      \/ ~MailQueueEnabled
      \/ BounceOf[b].queueId \notin ValidIds
      \/ b \in kept

(* A lesson that redisRpc received leads to one call of BayesLearn for     *)
(* every module, of that module or of one after it: the last module is     *)
(* taught for certain.  That is all the code gives, since its goroutines   *)
(* read the variable of the loop that started them: one module may be      *)
(* taught twice and another never.  The exceptions are that the process    *)
(* ends, and redisRpc having asked bayes for its channels before bayes     *)
(* made them: then the goroutine waits for ever and nothing is learnt.     *)
LessonsAreTaught ==
  \A p \in Processes, b \in Bounces, by \in {k \in Processes : Instance[k] = Instance[Here]} :
    LET l == [bounce |-> b, by |-> by, msgId |-> BounceOf[b].msgId]
        Last == Len(Learners[p])
    IN /\ [to |-> Everyone, pattern |-> "learn", body |-> l] \in sending[p]
       /\ listeners[p]["learn"] = "channel"
       ~> \/ \A i \in 1 .. Last : \E j \in i .. Last : <<l, i, Learners[p][j]>> \in taught[p]
          \/ p \notin up
=============================================================================
