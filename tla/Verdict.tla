------------------------------ MODULE Verdict -------------------------------
(***************************************************************************)
(* How one message gets its verdict: messageGetVerdict (core/message.go)   *)
(* and the goroutines it starts.  messageGetResults runs one goroutine per *)
(* module, which sends at most one result over an unbuffered channel, and  *)
(* one that closes the channel once all of those are done.  The milter     *)
(* goroutine receives results until the channel is closed or the breaker   *)
(* score is reached; in that case a drainer takes its place at the channel *)
(* so that the other goroutines can end.  Then it weighs the results,      *)
(* decides, starts a goroutine for every callback and saves the message.   *)
(***************************************************************************)
EXTENDS CheckResults, FiniteSets, FiniteSetsExt

CONSTANTS
  Modules,        \* the modules that are enabled, all of which are asked
  Checks,         \* Checks[m]: what the check of module m may return
  Panicking,      \* the modules whose check may panic
  Abortable,      \* the modules that return nil once they see done closed
  Calling,        \* the modules whose results carry callbacks
  CallbackPanics, \* whether a callback may panic
  Groups,         \* module groups: functions from members to weights, in tenths
  RejectScore, TempfailScore, BreakerScore,  \* the thresholds, in hundredths
  ExitOnPanic     \* the exit-on-panic directive

WeightUnit == 10

\* messageStartModuleGroups ends the program if a group has no modules or a
\* module is in two groups.  It takes any number for a weight; that weights are
\* positive is assumed here, as they are in cluegetter.conf.dist.  A group may
\* have modules that are not enabled.
GroupAssumption ==
  \A g \in Groups :
    /\ DOMAIN g # {}
    /\ \A m \in DOMAIN g : g[m] \in Nat \ {0}
    /\ \A h \in Groups : DOMAIN g \cap DOMAIN h # {} => g = h

ASSUME VerdictAssumption ==
  /\ IsFiniteSet(Modules)
  /\ \A m \in Modules : \A r \in Checks[m] : r = NoResult \/ IsResult(r)
  /\ {Panicking, Abortable, Calling} \subseteq SUBSET Modules
  /\ {CallbackPanics, ExitOnPanic} \subseteq BOOLEAN
  /\ {RejectScore, TempfailScore, BreakerScore} \subseteq Nat \ {0}
  /\ GroupAssumption

VARIABLES
  check,     \* check[m]: "running", "sending", "sent" or "done" (after wg.Done)
  result,    \* result[m]: what the check of m returned
  wg,        \* the counter of the WaitGroup
  closed,    \* whether resultsChan is closed
  aborted,   \* whether done is closed
  draining,  \* whether the drainer was started
  collected, \* the modules in flatResults
  main,      \* where messageGetVerdict is
  verdict,   \* Message.Verdict
  answer,    \* the verdict messageGetVerdict returned, or "None"
  pending,   \* <<m, v>>: the callbacks of m were started with verdict v and
             \* did not run yet
  called,    \* called[m]: the verdict the callbacks of m were given, or "None"
  cached,    \* whether the message was handed to the message cache
  crashed    \* whether a panic ended the process

checkVars == <<check, result, wg, closed>>
mainVars == <<aborted, draining, collected, main, verdict, answer, cached>>
callbackVars == <<pending, called>>
vars == <<checkVars, mainVars, callbackVars, crashed>>
-----------------------------------------------------------------------------
Init ==
  /\ check = [m \in Modules |-> "running"]
  /\ result = [m \in Modules |-> NoResult]
  /\ wg = Cardinality(Modules)
  /\ closed = FALSE
  /\ aborted = FALSE
  /\ draining = FALSE
  /\ collected = {}
  /\ main = "collecting"
  /\ verdict = ZeroVerdict
  /\ answer = "None"
  /\ pending = {}
  /\ called = [m \in Modules |-> "None"]
  /\ cached = FALSE
  /\ crashed = FALSE
-----------------------------------------------------------------------------
(* The goroutines of messageGetResults.                                    *)

Outcomes(m) ==
  Checks[m] \cup (IF aborted /\ m \in Abortable THEN {NoResult} ELSE {})

\* The check returns: nil sends nothing, a result has to be received.
CheckReturns(m) ==
  /\ check[m] = "running"
  /\ \E r \in Outcomes(m) :
       /\ result' = [result EXCEPT ![m] = r]
       /\ check' = [check EXCEPT ![m] = IF r = NoResult THEN "sent" ELSE "sending"]
  /\ UNCHANGED <<wg, closed, mainVars, callbackVars, crashed>>

\* The check panics: the deferred function reports an error in its place,
\* unless exit-on-panic makes it let the panic end the process.
CheckPanics(m) ==
  /\ check[m] = "running"
  /\ m \in Panicking
  /\ IF ExitOnPanic
     THEN /\ crashed' = TRUE
          /\ UNCHANGED <<check, result>>
     ELSE /\ check' = [check EXCEPT ![m] = "sending"]
          /\ result' = [result EXCEPT ![m] = ErrorResult]
          /\ UNCHANGED crashed
  /\ UNCHANGED <<wg, closed, mainVars, callbackVars>>

\* wg.Done is the first function deferred, so the last to run.
Finish(m) ==
  /\ check[m] = "sent"
  /\ check' = [check EXCEPT ![m] = "done"]
  /\ wg' = wg - 1
  /\ UNCHANGED <<result, closed, mainVars, callbackVars, crashed>>

\* Mutant of CloseResults: the WaitGroup is not waited for.
CloseAtOnce ==
  /\ ~closed
  /\ closed' = TRUE
  /\ UNCHANGED <<check, result, wg, mainVars, callbackVars, crashed>>

CloseResults ==
  /\ wg = 0
  /\ ~closed
  /\ closed' = TRUE
  /\ UNCHANGED <<check, result, wg, mainVars, callbackVars, crashed>>
-----------------------------------------------------------------------------
(* The loop of messageGetVerdict over the results.                         *)

\* A result that scores nothing is made a Permit when it is received.
Action(m) == IF result[m].score = 0 THEN "Permit" ELSE result[m].action

Suggesting(action, S) == {m \in S : Action(m) = action}

RawScore(action, S) ==
  MapThenSumSet(LAMBDA m : result[m].score, Suggesting(action, S))

\* The breaker looks at the score of the action of the result just received.
BreakerReached(m, S) ==
  /\ Action(m) # "Error"
  /\ RawScore(Action(m), S) >= BreakerScore

Collect(m) ==
  /\ main = "collecting"
  /\ check[m] = "sending"
  /\ check' = [check EXCEPT ![m] = "sent"]
  /\ collected' = collected \cup {m}
  /\ draining' = BreakerReached(m, collected')
  /\ main' = IF draining' THEN "stopping" ELSE "collecting"
  /\ UNCHANGED <<result, wg, closed, aborted, verdict, answer, cached,
                 callbackVars, crashed>>

\* The loop is over (broken off, or the channel is closed): close(done).
StopCollecting ==
  /\ main = "stopping" \/ (main = "collecting" /\ closed)
  /\ aborted' = TRUE
  /\ main' = "deciding"
  /\ UNCHANGED <<checkVars, draining, collected, verdict, answer, cached,
                 callbackVars, crashed>>

\* Mutant of Drain: the drainer ends when done is closed.
DrainUntilAborted(m) ==
  /\ draining /\ ~aborted
  /\ check[m] = "sending"
  /\ check' = [check EXCEPT ![m] = "sent"]
  /\ UNCHANGED <<result, wg, closed, mainVars, callbackVars, crashed>>

\* The drainer receives what the abandoned goroutines still send.
Drain(m) ==
  /\ draining
  /\ check[m] = "sending"
  /\ check' = [check EXCEPT ![m] = "sent"]
  /\ UNCHANGED <<result, wg, closed, mainVars, callbackVars, crashed>>
-----------------------------------------------------------------------------
(* messageWeighResults.                                                    *)

Errors(S) == Suggesting("Error", S)

\* Mutant of GroupFailed: the number of errors is compared with zero.
GroupFailedIfNoErrors(g) == Errors(collected \cap DOMAIN g) = {}

\* The errors of a group count only when every member of it reported one.
GroupFailed(g) == Errors(collected \cap DOMAIN g) = DOMAIN g

ErrorIgnored(m) == \E g \in Groups : m \in DOMAIN g /\ ~GroupFailed(g)

CountedErrors == {m \in Errors(collected) : ~ErrorIgnored(m)}

Weight(g, S) == MapThenSumSet(LAMBDA m : g[m], S)

\* The weight of the members that reported an error, or nothing, is spread
\* over the others.  The division is exact for the scores and weights used.
Weighted(g, m) ==
  (result[m].score * g[m] * Weight(g, DOMAIN g))
    \div (WeightUnit * Weight(g, (collected \cap DOMAIN g) \ Errors(collected)))

WeightedScore(m) ==
  IF \E g \in Groups : m \in DOMAIN g
  THEN Weighted(CHOOSE g \in Groups : m \in DOMAIN g, m)
  ELSE result[m].score

TotalScore(action) ==
  MapThenSumSet(WeightedScore, Suggesting(action, collected))
-----------------------------------------------------------------------------
(* The decision.                                                           *)

\* Mutant of Decision: no message is discarded.
DecisionWithoutDiscard ==
  IF TotalScore("Reject") >= RejectScore THEN "Reject"
  ELSE IF CountedErrors # {} THEN "TempFail"
  ELSE IF TotalScore("TempFail") + TotalScore("Reject") >= TempfailScore
  THEN "TempFail"
  ELSE "Permit"

Decision ==
  IF TotalScore("Discard") >= BreakerScore THEN "Discard"
  ELSE IF TotalScore("Reject") >= RejectScore THEN "Reject"
  ELSE IF CountedErrors # {} THEN "TempFail"
  ELSE IF TotalScore("TempFail") + TotalScore("Reject") >= TempfailScore
  THEN "TempFail"
  ELSE "Permit"

\* The message for the sender is taken from the first result that suggests
\* the verdict: an index out of range when there is none.  An error or a
\* Permit needs no such result.
ReasonMissing ==
  /\ Decision # "Permit"
  /\ Decision = "TempFail" => CountedErrors = {}
  /\ Suggesting(Decision, collected) = {}

\* Mutant of DecidePanics: recovering leaves the verdict at its zero value.
DecidePanicsPermitting ==
  /\ main = "deciding"
  /\ ReasonMissing
  /\ answer' = ZeroVerdict
  /\ main' = "returned"
  /\ UNCHANGED <<checkVars, aborted, draining, collected, verdict, cached,
                 callbackVars, crashed>>

\* Deciding panics, and the deferred recover answers TempFail without having
\* touched the message; or the process ends.
DecidePanics ==
  /\ main = "deciding"
  /\ ReasonMissing
  /\ IF ExitOnPanic
     THEN /\ crashed' = TRUE
          /\ UNCHANGED <<main, answer>>
     ELSE /\ answer' = "TempFail"
          /\ main' = "returned"
          /\ UNCHANGED crashed
  /\ UNCHANGED <<checkVars, aborted, draining, collected, verdict, cached,
                 callbackVars>>

\* The verdict is known: the callbacks of the results collected are started,
\* each with that verdict, and the message is updated.
Decide ==
  /\ main = "deciding"
  /\ ~ReasonMissing
  /\ verdict' = Decision
  /\ pending' = (collected \cap Calling) \X {Decision}
  /\ main' = "saving"
  /\ UNCHANGED <<checkVars, aborted, draining, collected, answer, cached,
                 called, crashed>>

\* messageSave hands the message to the cache, and the verdict is returned.
Save ==
  /\ main = "saving"
  /\ cached' = TRUE
  /\ answer' = verdict
  /\ main' = "returned"
  /\ UNCHANGED <<checkVars, aborted, draining, collected, verdict,
                 callbackVars, crashed>>

RunCallback(m) ==
  \E v \in FinalVerdicts :
    /\ <<m, v>> \in pending
    /\ pending' = pending \ {<<m, v>>}
    /\ called' = [called EXCEPT ![m] = v]
    /\ UNCHANGED <<checkVars, mainVars, crashed>>

\* CluegetterRecover is called, not deferred, by the goroutine: it recovers
\* nothing, and a panic of the callback ends the process.
CallbackFails(m) ==
  /\ CallbackPanics
  /\ \E v \in FinalVerdicts : <<m, v>> \in pending
  /\ crashed' = TRUE
  /\ UNCHANGED <<checkVars, mainVars, callbackVars>>
-----------------------------------------------------------------------------
\* A goroutine of messageGetResults, with whoever receives from it.
CheckStep(m) ==
  /\ ~crashed
  /\ \/ CheckReturns(m) \/ CheckPanics(m) \/ Finish(m)
     \/ Collect(m) \/ Drain(m)

CallbackStep(m) == ~crashed /\ (RunCallback(m) \/ CallbackFails(m))

CloserStep == ~crashed /\ CloseResults

MainStep == ~crashed /\ (StopCollecting \/ DecidePanics \/ Decide \/ Save)

\* The message was answered, or the process ended.
Ended == (crashed \/ main = "returned") /\ UNCHANGED vars

Next ==
  \/ \E m \in Modules : CheckStep(m) \/ CallbackStep(m)
  \/ CloserStep
  \/ MainStep
  \/ Ended

(***************************************************************************)
(* The Go scheduler runs every goroutine that can proceed.  That a check   *)
(* returns at all is assumed of the servers behind it: clamd, spamd,       *)
(* rspamd and Redis answer, or the client library gives up.                *)
(***************************************************************************)
Fairness ==
  /\ \A m \in Modules : WF_vars(CheckStep(m)) /\ WF_vars(CallbackStep(m))
  /\ WF_vars(CloserStep)
  /\ WF_vars(MainStep)

Spec == Init /\ [][Next]_vars

FairSpec == Spec /\ Fairness
-----------------------------------------------------------------------------
(* Every variable has its type.                                            *)
TypeOK ==
  /\ check \in [Modules -> {"running", "sending", "sent", "done"}]
  /\ result \in [Modules -> [action : Verdicts \cup {"None"}, score : Int]]
  /\ wg \in 0 .. Cardinality(Modules)
  /\ collected \in SUBSET Modules
  /\ main \in {"collecting", "stopping", "deciding", "saving", "returned"}
  /\ verdict \in FinalVerdicts
  /\ answer \in FinalVerdicts \cup {"None"}
  /\ pending \in SUBSET (Calling \X FinalVerdicts)
  /\ called \in [Modules -> FinalVerdicts \cup {"None"}]
  /\ {closed, aborted, draining, cached, crashed} \subseteq BOOLEAN

(* The results channel is closed only when no goroutine can send on it any *)
(* more: a send on a closed channel would be a panic nobody recovers.      *)
NoSendAfterClose == closed => \A m \in Modules : check[m] = "done"

(* A message is not permitted over the head of a check that failed, by an  *)
(* error or by a panic.  The exceptions are the ones the code makes: the   *)
(* breaker was reached first, or another member of the module's group did  *)
(* not fail, which includes one that is not enabled.                       *)
FailClosed ==
  answer = "Permit" /\ ~draining =>
    \A m \in Modules :
      Action(m) = "Error" =>
        \E g \in Groups :
          m \in DOMAIN g /\ \E n \in DOMAIN g : n \notin Modules \/ Action(n) # "Error"

(* What the breaker cuts off cannot turn the verdict around: once the      *)
(* TempFail, Reject or Discard results received reach the breaker score,   *)
(* the message is not permitted, whatever the abandoned checks would have  *)
(* said; as long as no module of a group was heard, whose weights would    *)
(* change the scores, and no negative score.                               *)
BreakerKeepsVerdict ==
  /\ answer # "None"
  /\ \A m \in collected : result[m].score >= 0 /\ \A g \in Groups : m \notin DOMAIN g
  /\ \E a \in {"TempFail", "Reject", "Discard"} : RawScore(a, collected) >= BreakerScore
  => answer # "Permit"

(* A callback is given the verdict the message was answered with (quotas   *)
(* tallies by it), although it may run before, during or after the answer. *)
CallbacksSeeAnswer ==
  \A m \in Modules : called[m] # "None" /\ answer # "None" => called[m] = answer

(* Every goroutine started for a message ends, the breaker being reached   *)
(* or not, and the message is answered ("Properly close all goroutines     *)
(* when breaker score is hit, prevents leaks").                            *)
GoroutinesEnd ==
  <>(crashed \/ (main = "returned" /\ closed /\ pending = {}))

-----------------------------------------------------------------------------
(* Modules that stand in for each other: a group, or one that is in none.  *)
Units ==
  {DOMAIN g : g \in Groups} \cup
  {{m} : m \in {n \in Modules : \A g \in Groups : n \notin DOMAIN g}}

Promise == INSTANCE Judgement WITH
  heard <- collected,
  failed <- Errors(collected),
  decision <- IF main = "saving" THEN verdict ELSE answer,
  recorded <- verdict,
  answered <- main = "returned",
  due <- {m \in Modules : \E v \in FinalVerdicts : <<m, v>> \in pending},
  told <- called,
  over <- crashed

(* The MTA, the record of the message and the callbacks of the modules     *)
(* that were heard, and of no others, are given the same verdict, once; a  *)
(* decision that panics defers the message and nothing else; and nothing   *)
(* is permitted when a module, or a group as a whole, is known to have     *)
(* failed: module Judgement.  (That all this comes about: GoroutinesEnd.)   *)
AnsweredAsPromised == Promise!Spec
=============================================================================
