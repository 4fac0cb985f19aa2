---------------------------- MODULE VerdictProofs ----------------------------
(***************************************************************************)
(* What holds of the verdict of a message for any set of modules, whatever *)
(* their checks return, with any thresholds and groups.  Most of it does   *)
(* not depend on the scores, which are sums over sets; what the breaker    *)
(* does to the verdict does, and there the sums are natural numbers.       *)
(***************************************************************************)
EXTENDS Verdict, FiniteSetTheorems, WellFoundedInduction, TLAPS

NotDone == {m \in Modules : check[m] # "done"}

\* What the program relies on: the WaitGroup counts the goroutines that are
\* not done; what was not drained was collected; an answer stands for the
\* results collected and for the callbacks that were started.
WaitGroupCounts ==
  /\ wg = Cardinality(NotDone)
  /\ closed => NotDone = {}

ResultsAccounted ==
  /\ \A m \in Modules : check[m] = "running" => result[m] = NoResult
  /\ \A m \in collected : check[m] \in {"sent", "done"}
  /\ ~draining =>
       \A m \in Modules :
         check[m] \in {"sent", "done"} /\ result[m] # NoResult => m \in collected
  /\ main \in {"deciding", "saving", "returned"} => draining \/ closed
  /\ main = "stopping" => draining
  /\ main = "collecting" => ~draining

ErrorsDefer ==
  /\ main = "saving" /\ verdict = "Permit" => CountedErrors = {}
  /\ answer = "Permit" => CountedErrors = {}
  /\ answer # "None" <=> main = "returned"

Told(v) == main = "saving" \/ (main = "returned" /\ answer = v)

CallbacksTold ==
  /\ \A p \in pending : p[2] = verdict /\ Told(verdict)
  /\ \A m \in Modules : called[m] # "None" => called[m] = verdict /\ Told(verdict)

VInv == TypeOK /\ WaitGroupCounts /\ ResultsAccounted /\ ErrorsDefer /\ CallbacksTold

-----------------------------------------------------------------------------
LEMMA DecisionIsFinal == Decision \in FinalVerdicts
  BY DEF Decision, FinalVerdicts, Verdicts

(* A decision to permit means that no error counts.                        *)
LEMMA PermitHasNoErrors ==
  ASSUME Decision = "Permit" PROVE CountedErrors = {}
  BY DEF Decision

(* A result that is still in the hands of its goroutine has no part in the *)
(* errors counted.                                                         *)
LEMMA CountedErrorsStable ==
  ASSUME collected' = collected,
         \A m \in collected : result'[m] = result[m]
  PROVE  CountedErrors' = CountedErrors
<1>1. \A S : S \subseteq collected => Errors(S)' = Errors(S)
  BY DEF Errors, Suggesting, Action
<1>2. Errors(collected)' = Errors(collected)
  BY <1>1 DEF Errors, Suggesting, Action
<1>3. \A g : GroupFailed(g)' = GroupFailed(g)
  BY DEF GroupFailed, Errors, Suggesting, Action
<1>4. \A m : ErrorIgnored(m)' = ErrorIgnored(m)
  BY <1>3 DEF ErrorIgnored
<1>5. QED
  BY <1>2, <1>4 DEF CountedErrors

-----------------------------------------------------------------------------
(* Every step keeps the types.                                             *)
LEMMA TypeStep ==
  ASSUME VInv, [Next]_vars
  PROVE  TypeOK'
<1> USE VerdictAssumption DEF VInv, TypeOK
<1>1. ASSUME NEW m \in Modules, CheckReturns(m)
      PROVE  TypeOK'
  <2>1. PICK r \in Outcomes(m) :
          /\ result' = [result EXCEPT ![m] = r]
          /\ check' = [check EXCEPT ![m] = IF r = NoResult THEN "sent" ELSE "sending"]
    BY <1>1 DEF CheckReturns
  <2>2. r \in [action : Verdicts \cup {"None"}, score : Int]
    BY <2>1 DEF Outcomes, IsResult, NoResult
  <2>3. QED
    BY <1>1, <2>1, <2>2 DEF CheckReturns, mainVars, callbackVars
<1>2. ASSUME NEW m \in Modules, CheckPanics(m)
      PROVE  TypeOK'
  <2>1. ErrorResult \in [action : Verdicts \cup {"None"}, score : Int]
    BY DEF ErrorResult, Result, ErrorScore, Verdicts
  <2>2. QED
    BY <1>2, <2>1 DEF CheckPanics, mainVars, callbackVars
<1>3. ASSUME NEW m \in Modules, Finish(m)
      PROVE  TypeOK'
  <2>1. /\ IsFiniteSet(NotDone) /\ m \in NotDone
        /\ Cardinality(Modules) \in Nat
    BY <1>3, FS_Subset, FS_CardinalityType DEF NotDone, Finish
  <2>2. Cardinality(NotDone) \in Nat /\ Cardinality(NotDone) # 0
    BY <2>1, FS_CardinalityType, FS_EmptySet
  <2>3. QED
    BY <1>3, <2>1, <2>2 DEF Finish, mainVars, callbackVars, WaitGroupCounts
<1>4. CASE CloseResults
  BY <1>4 DEF CloseResults, mainVars, callbackVars
<1>5. ASSUME NEW m \in Modules, Collect(m) \/ Drain(m)
      PROVE  TypeOK'
  BY <1>5 DEF Collect, Drain, mainVars, callbackVars, BreakerReached
<1>6. CASE StopCollecting \/ DecidePanics
  BY <1>6 DEF StopCollecting, DecidePanics, checkVars, callbackVars, FinalVerdicts, Verdicts
<1>7. CASE Decide
  BY <1>7, DecisionIsFinal DEF Decide, checkVars
<1>8. CASE Save
  BY <1>8 DEF Save, checkVars, callbackVars
<1>9. ASSUME NEW m \in Modules, CallbackStep(m)
      PROVE  TypeOK'
  BY <1>9 DEF CallbackStep, RunCallback, CallbackFails, checkVars, mainVars, callbackVars
<1>10. CASE UNCHANGED vars
  BY <1>10 DEF vars, checkVars, mainVars, callbackVars
<1>11. QED
  BY <1>1, <1>2, <1>3, <1>4, <1>5, <1>6, <1>7, <1>8, <1>9, <1>10
     DEF Next, CheckStep, CloserStep, MainStep, Ended

-----------------------------------------------------------------------------
(* The WaitGroup: only Finish changes who is done, and it counts down.     *)
LEMMA WaitGroupStep ==
  ASSUME VInv, [Next]_vars
  PROVE  WaitGroupCounts'
<1> USE VerdictAssumption DEF VInv, TypeOK, WaitGroupCounts
<1>1. ASSUME NEW m \in Modules, Finish(m)
      PROVE  WaitGroupCounts'
  <2>1. NotDone' = NotDone \ {m} /\ m \in NotDone
    BY <1>1 DEF Finish, NotDone
  <2>2. IsFiniteSet(NotDone)
    BY FS_Subset DEF NotDone
  <2>3. Cardinality(NotDone') = Cardinality(NotDone) - 1
    BY <2>1, <2>2, FS_RemoveElement
  <2>4. QED
    BY <1>1, <2>1, <2>3 DEF Finish
<1>2. CASE CloseResults
  <2>1. NotDone = {}
    <3>1. IsFiniteSet(NotDone)
      BY FS_Subset DEF NotDone
    <3>2. QED
      BY <1>2, <3>1, FS_EmptySet DEF CloseResults
  <2>2. NotDone' = NotDone
    BY <1>2 DEF CloseResults, NotDone
  <2>3. QED
    BY <1>2, <2>1, <2>2 DEF CloseResults
<1>3. ASSUME NEW m \in Modules,
             CheckReturns(m) \/ CheckPanics(m) \/ Collect(m) \/ Drain(m)
      PROVE  WaitGroupCounts'
  <2>1. NotDone' = NotDone
    BY <1>3 DEF CheckReturns, CheckPanics, Collect, Drain, NotDone
  <2>2. wg' = wg /\ closed' = closed
    BY <1>3 DEF CheckReturns, CheckPanics, Collect, Drain
  <2>3. QED
    BY <2>1, <2>2
<1>4. CASE UNCHANGED <<check, wg, closed>>
  BY <1>4 DEF NotDone
<1>5. QED
  BY <1>1, <1>2, <1>3, <1>4
     DEF Next, CheckStep, CloserStep, MainStep, CallbackStep, Ended, StopCollecting,
         DecidePanics, Decide, Save, RunCallback, CallbackFails, vars, checkVars

(* No result is lost: one that was received by the loop stays collected,   *)
(* and only the drainer takes one away from it.                            *)
LEMMA ResultsStep ==
  ASSUME VInv, [Next]_vars
  PROVE  ResultsAccounted'
<1> USE VerdictAssumption DEF VInv, TypeOK, ResultsAccounted
<1>1. ASSUME NEW m \in Modules, CheckReturns(m)
      PROVE  ResultsAccounted'
  BY <1>1 DEF CheckReturns, mainVars
<1>2. ASSUME NEW m \in Modules, CheckPanics(m)
      PROVE  ResultsAccounted'
  BY <1>2 DEF CheckPanics, mainVars
<1>3. ASSUME NEW m \in Modules, Finish(m)
      PROVE  ResultsAccounted'
  BY <1>3 DEF Finish, mainVars
<1>4. ASSUME NEW m \in Modules, Collect(m)
      PROVE  ResultsAccounted'
  <2>1. /\ check' = [check EXCEPT ![m] = "sent"]
        /\ collected' = collected \cup {m}
        /\ main' = IF draining' THEN "stopping" ELSE "collecting"
        /\ main = "collecting" /\ check[m] = "sending"
        /\ UNCHANGED <<result, closed>>
    BY <1>4 DEF Collect
  <2>2. \A n \in Modules : check'[n] = "running" => result'[n] = NoResult
    BY <2>1
  <2>3. \A n \in collected' : check'[n] \in {"sent", "done"}
    BY <2>1
  <2>4. \A n \in Modules :
          check'[n] \in {"sent", "done"} /\ result'[n] # NoResult => n \in collected'
    BY <2>1
  <2>5. main' = "stopping" => draining'
    BY <2>1
  <2>6. main' \notin {"deciding", "saving", "returned"}
    BY <2>1
  <2>7. main' = "collecting" => ~draining'
    BY <2>1
  <2>8. QED
    BY <2>2, <2>3, <2>4, <2>5, <2>6, <2>7
<1>5. ASSUME NEW m \in Modules, Drain(m)
      PROVE  ResultsAccounted'
  BY <1>5 DEF Drain, mainVars
<1>6. CASE CloseResults
  BY <1>6 DEF CloseResults, mainVars
<1>7. CASE MainStep
  BY <1>7 DEF MainStep, StopCollecting, DecidePanics, Decide, Save, checkVars
<1>8. CASE UNCHANGED <<checkVars, mainVars>>
  BY <1>8 DEF checkVars, mainVars
<1>9. QED
  BY <1>1, <1>2, <1>3, <1>4, <1>5, <1>6, <1>7, <1>8
     DEF Next, CheckStep, CloserStep, CallbackStep, Ended, RunCallback,
         CallbackFails, vars

(* An answer of Permit is one that no error counted against.               *)
LEMMA ErrorsStep ==
  ASSUME VInv, [Next]_vars
  PROVE  ErrorsDefer'
<1> USE VerdictAssumption DEF VInv, TypeOK, ErrorsDefer
<1>1. ASSUME collected' = collected, \A m \in collected : result'[m] = result[m],
             UNCHANGED <<main, verdict, answer>>
      PROVE  ErrorsDefer'
  BY <1>1, CountedErrorsStable
<1>2. ASSUME NEW m \in Modules,
             CheckReturns(m) \/ CheckPanics(m) \/ Finish(m) \/ Drain(m)
      PROVE  ErrorsDefer'
  <2>1. collected' = collected /\ UNCHANGED <<main, verdict, answer>>
    BY <1>2 DEF CheckReturns, CheckPanics, Finish, Drain, mainVars
  <2>2. \A n \in collected : result'[n] = result[n]
    BY <1>2 DEF CheckReturns, CheckPanics, Finish, Drain, ResultsAccounted
  <2>3. QED
    BY <1>1, <2>1, <2>2
<1>3. ASSUME NEW m \in Modules, Collect(m)
      PROVE  ErrorsDefer'
  BY <1>3 DEF Collect
<1>4. CASE StopCollecting
  BY <1>4 DEF StopCollecting
<1>5. CASE DecidePanics
  <2>1. CASE answer' = "TempFail" /\ main' = "returned"
    BY <2>1
  <2>2. CASE UNCHANGED <<main, answer>>
    BY <1>5, <2>2 DEF DecidePanics
  <2>3. QED
    BY <1>5, <2>1, <2>2 DEF DecidePanics
<1>6. CASE Decide
  <2>1. CountedErrors' = CountedErrors
    BY <1>6, CountedErrorsStable DEF Decide, checkVars
  <2>2. verdict' = "Permit" => CountedErrors' = {}
    BY <1>6, <2>1, PermitHasNoErrors DEF Decide
  <2>3. QED
    BY <1>6, <2>2 DEF Decide
<1>7. CASE Save
  <2>1. CountedErrors' = CountedErrors
    BY <1>7, CountedErrorsStable DEF Save, checkVars
  <2>2. answer' = verdict /\ main' = "returned" /\ main = "saving" /\ verdict' = verdict
    BY <1>7 DEF Save
  <2>3. QED
    BY <2>1, <2>2 DEF FinalVerdicts, Verdicts
<1>8. CASE UNCHANGED <<result, mainVars>>
  BY <1>1, <1>8 DEF mainVars
<1>9. QED
  BY <1>2, <1>3, <1>4, <1>5, <1>6, <1>7, <1>8
     DEF Next, CheckStep, CloserStep, CloseResults, CallbackStep, MainStep, Ended,
         RunCallback, CallbackFails, vars, checkVars

(* A callback is started with the verdict that is then answered.           *)
LEMMA CallbacksStep ==
  ASSUME VInv, [Next]_vars
  PROVE  CallbacksTold'
<1> USE VerdictAssumption DEF VInv, TypeOK, CallbacksTold, Told
<1>1. CASE UNCHANGED <<main, verdict, answer, callbackVars>>
  BY <1>1 DEF callbackVars
<1>2. ASSUME NEW m \in Modules, Collect(m)
      PROVE  CallbacksTold'
  BY <1>2 DEF Collect, callbackVars
<1>3. CASE StopCollecting \/ DecidePanics
  BY <1>3 DEF StopCollecting, DecidePanics, callbackVars
<1>4. CASE Decide
  BY <1>4 DEF Decide
<1>5. CASE Save
  BY <1>5 DEF Save, callbackVars
<1>6. ASSUME NEW m \in Modules, RunCallback(m)
      PROVE  CallbacksTold'
  <2>1. PICK v \in FinalVerdicts :
          /\ <<m, v>> \in pending
          /\ pending' = pending \ {<<m, v>>}
          /\ called' = [called EXCEPT ![m] = v]
          /\ UNCHANGED mainVars
    BY <1>6 DEF RunCallback
  <2>2. v = verdict
    BY <2>1
  <2>3. QED
    BY <2>1, <2>2 DEF mainVars
<1>7. QED
  BY <1>1, <1>2, <1>3, <1>4, <1>5, <1>6
     DEF Next, CheckStep, CheckReturns, CheckPanics, Finish, Drain, CloserStep,
         CloseResults, CallbackStep, CallbackFails, MainStep, Ended, vars, mainVars

-----------------------------------------------------------------------------
LEMMA VInvHolds == Spec => []VInv
<1>1. Init => VInv
  <2> SUFFICES ASSUME Init
               PROVE  VInv
    OBVIOUS
  <2> USE VerdictAssumption DEF Init
  <2>1. Cardinality(Modules) \in Nat
    BY FS_CardinalityType
  <2>2. TypeOK
    <3>1. NoResult \in [action : Verdicts \cup {"None"}, score : Int]
      BY DEF NoResult
    <3>2. ZeroVerdict \in FinalVerdicts
      BY DEF ZeroVerdict, FinalVerdicts, Verdicts
    <3>3. {closed, aborted, draining, cached, crashed} \subseteq BOOLEAN
      OBVIOUS
    <3>4. wg \in 0 .. Cardinality(Modules)
      BY <2>1
    <3>5. verdict \in FinalVerdicts
      BY <3>2
    <3>6. result \in [Modules -> [action : Verdicts \cup {"None"}, score : Int]]
      BY <3>1
    <3>7. QED
      BY <3>3, <3>4, <3>5, <3>6 DEF TypeOK
  <2>3. NotDone = Modules
    BY DEF NotDone
  <2>4. QED
    BY <2>2, <2>3 DEF VInv, WaitGroupCounts, ResultsAccounted, ErrorsDefer, CallbacksTold
<1>2. VInv /\ [Next]_vars => VInv'
  BY TypeStep, WaitGroupStep, ResultsStep, ErrorsStep, CallbacksStep DEF VInv
<1>3. QED
  BY <1>1, <1>2, PTL DEF Spec

(* Every variable has its type, the results being what the checks return.  *)
THEOREM TypeCorrect == Spec => []TypeOK
  BY VInvHolds, PTL DEF VInv

(* A goroutine never sends a result over a closed channel.                 *)
THEOREM ChannelCorrect == Spec => []NoSendAfterClose
<1>1. VInv => NoSendAfterClose
  BY DEF VInv, TypeOK, WaitGroupCounts, NotDone, NoSendAfterClose
<1>2. QED
  BY <1>1, VInvHolds, PTL

(* A message is permitted over a failed check only if the breaker cut the  *)
(* results off, or another member of the module's group did not fail or is *)
(* not enabled.                                                            *)
THEOREM FailClosedCorrect == Spec => []FailClosed
<1>1. VInv => FailClosed
  <2> SUFFICES ASSUME VInv, answer = "Permit", ~draining,
                      NEW m \in Modules, Action(m) = "Error"
               PROVE  \E g \in Groups :
                        m \in DOMAIN g /\ \E n \in DOMAIN g : n \notin Modules \/ Action(n) # "Error"
    BY DEF FailClosed
  <2> USE VerdictAssumption DEF VInv, TypeOK
  <2>1. closed /\ \A n \in Modules : check[n] = "done"
    BY DEF ErrorsDefer, ResultsAccounted, WaitGroupCounts, NotDone
  <2>2. \A n \in Modules : Action(n) = "Error" => n \in collected
    BY <2>1 DEF Action, NoResult, ResultsAccounted
  <2>3. CountedErrors = {}
    BY DEF ErrorsDefer
  <2>4. m \in Errors(collected) /\ ErrorIgnored(m)
    BY <2>2, <2>3 DEF CountedErrors, Errors, Suggesting
  <2>5. PICK g \in Groups : m \in DOMAIN g /\ ~GroupFailed(g)
    BY <2>4 DEF ErrorIgnored
  <2>6. PICK n \in DOMAIN g : n \notin Errors(collected \cap DOMAIN g)
    BY <2>5 DEF GroupFailed, Errors, Suggesting
  <2>7. n \in Modules => Action(n) # "Error"
    BY <2>2, <2>6 DEF Errors, Suggesting
  <2>8. QED
    BY <2>5, <2>7
<1>2. QED
  BY <1>1, VInvHolds, PTL

(* A callback is told the verdict the MTA is answered with.                *)
THEOREM CallbacksCorrect == Spec => []CallbacksSeeAnswer
<1>1. VInv => CallbacksSeeAnswer
  BY DEF VInv, ErrorsDefer, CallbacksTold, Told, CallbacksSeeAnswer
<1>2. QED
  BY <1>1, VInvHolds, PTL

-----------------------------------------------------------------------------
(* The refinement.  What the abstract state is made of does not change as  *)
(* long as the following do not.                                           *)
Seen == <<collected, Errors(collected), main, verdict, answer, callbackVars, crashed>>

LEMMA ErrorsStable ==
  ASSUME collected' = collected,
         \A m \in collected : result'[m] = result[m]
  PROVE  Errors(collected)' = Errors(collected)
  BY DEF Errors, Suggesting, Action

LEMMA UnseenSteps ==
  ASSUME VInv, UNCHANGED Seen
  PROVE  UNCHANGED Promise!vars
  BY DEF Seen, Promise!vars, callbackVars

(* To permit, no module and no group may be known to have failed: a group  *)
(* that failed as a whole has errors that count.                           *)
LEMMA PermitNeedsEveryUnit ==
  ASSUME VInv, Decision = "Permit", NEW u \in Units
  PROVE  ~(u \subseteq Errors(collected))
<1> USE VerdictAssumption DEF VInv, TypeOK
<1>1. SUFFICES ASSUME u \subseteq Errors(collected)
               PROVE  CountedErrors # {}
  BY PermitHasNoErrors
<1>2. CASE u \in {DOMAIN g : g \in Groups}
  <2>1. PICK g \in Groups : u = DOMAIN g
    BY <1>2
  <2>2. PICK m \in u : TRUE
    BY <2>1 DEF GroupAssumption
  <2>3. GroupFailed(g)
    BY <1>1, <2>1 DEF GroupFailed, Errors, Suggesting
  <2>4. ~ErrorIgnored(m)
    <3>1. \A h \in Groups : m \in DOMAIN h => h = g
      BY <2>1, <2>2 DEF GroupAssumption
    <3>2. QED
      BY <2>3, <3>1 DEF ErrorIgnored
  <2>5. QED
    BY <1>1, <2>2, <2>4 DEF CountedErrors
<1>3. ASSUME NEW m \in Modules, u = {m}, \A g \in Groups : m \notin DOMAIN g
      PROVE  CountedErrors # {}
  BY <1>1, <1>3 DEF CountedErrors, ErrorIgnored
<1>4. QED
  BY <1>2, <1>3 DEF Units

LEMMA PromiseStep ==
  ASSUME VInv, VInv', [Next]_vars
  PROVE  [Promise!Next]_Promise!vars
<1> USE VerdictAssumption DEF VInv, TypeOK
<1>1. ASSUME NEW m \in Modules,
             CheckReturns(m) \/ CheckPanics(m) \/ Finish(m) \/ Drain(m),
             ~crashed
      PROVE  [Promise!Next]_Promise!vars
  <2>1. CASE crashed'
    <3>1. CheckPanics(m) /\ UNCHANGED <<result, mainVars, callbackVars>>
      BY <1>1, <2>1 DEF CheckReturns, CheckPanics, Finish, Drain
    <3>2. Errors(collected)' = Errors(collected)
      BY <3>1, ErrorsStable DEF mainVars
    <3>3. Promise!End
      BY <1>1, <2>1, <3>1, <3>2 DEF Promise!End, mainVars, callbackVars
    <3>4. QED
      BY <3>3 DEF Promise!Next
  <2>2. CASE ~crashed'
    <3>1. UNCHANGED <<mainVars, callbackVars, crashed>>
      BY <1>1, <2>2 DEF CheckReturns, CheckPanics, Finish, Drain
    <3>2. \A n \in collected : result'[n] = result[n]
      BY <1>1 DEF CheckReturns, CheckPanics, Finish, Drain, ResultsAccounted
    <3>3. UNCHANGED Seen
      BY <3>1, <3>2, ErrorsStable DEF Seen, mainVars, callbackVars
    <3>4. QED
      BY <3>3, UnseenSteps
  <2>3. QED
    BY <2>1, <2>2
<1>2. ASSUME NEW m \in Modules, Collect(m), ~crashed
      PROVE  [Promise!Next]_Promise!vars
  <2>1. m \notin collected /\ collected' = collected \cup {m} /\ result' = result
    BY <1>2 DEF Collect, ResultsAccounted
  <2>2. Errors(collected)' \in {Errors(collected), Errors(collected) \cup {m}}
    BY <2>1 DEF Errors, Suggesting, Action
  <2>3. /\ main = "collecting" /\ main' \in {"collecting", "stopping"}
        /\ answer = "None"
        /\ UNCHANGED <<verdict, answer, callbackVars, crashed>>
    BY <1>2 DEF Collect, ErrorsDefer
  <2>4. Promise!Hear(m)
    BY <1>2, <2>1, <2>2, <2>3 DEF Promise!Hear, callbackVars
  <2>5. QED
    BY <2>4 DEF Promise!Next
<1>3. CASE CloseResults
  <2>1. UNCHANGED Seen
    BY <1>3, ErrorsStable DEF CloseResults, Seen, mainVars, callbackVars
  <2>2. QED
    BY <2>1, UnseenSteps
<1>4. CASE StopCollecting
  <2>1. Errors(collected)' = Errors(collected)
    BY <1>4, ErrorsStable DEF StopCollecting, checkVars
  <2>2. UNCHANGED Promise!vars
    BY <1>4, <2>1 DEF StopCollecting, Promise!vars, callbackVars
  <2>3. QED
    BY <2>2
<1>5. CASE DecidePanics /\ ~crashed
  <2>1. /\ main = "deciding" /\ answer = "None"
        /\ UNCHANGED <<collected, verdict, pending, called>>
    BY <1>5 DEF DecidePanics, ErrorsDefer, callbackVars
  <2>2. Errors(collected)' = Errors(collected)
    BY <1>5, <2>1, ErrorsStable DEF DecidePanics, checkVars
  <2>3. CASE crashed' = TRUE /\ UNCHANGED <<main, answer>>
    <3>1. Promise!End
      BY <1>5, <2>1, <2>2, <2>3 DEF Promise!End
    <3>2. QED
      BY <3>1 DEF Promise!Next
  <2>4. CASE answer' = "TempFail" /\ main' = "returned" /\ UNCHANGED crashed
    <3>1. Promise!Defer
      BY <1>5, <2>1, <2>2, <2>4 DEF Promise!Defer
    <3>2. QED
      BY <3>1 DEF Promise!Next
  <2>5. QED
    BY <1>5, <2>3, <2>4 DEF DecidePanics
<1>6. CASE Decide /\ ~crashed
  <2>1. /\ main = "deciding" /\ main' = "saving" /\ answer = "None"
        /\ verdict' = Decision
        /\ pending' = (collected \cap Calling) \X {Decision}
        /\ UNCHANGED <<collected, answer, called, crashed>>
    BY <1>6 DEF Decide, ErrorsDefer
  <2>2. Errors(collected)' = Errors(collected)
    BY <1>6, <2>1, ErrorsStable DEF Decide, checkVars
  <2>3. {m \in Modules : \E v \in FinalVerdicts : <<m, v>> \in pending'}
          = collected \cap Calling
    BY <2>1, DecisionIsFinal
  <2>4. Promise!Decide
    <3>1. Promise!FinalVerdicts = FinalVerdicts
      BY DEF Promise!FinalVerdicts, FinalVerdicts, Promise!Verdicts, Verdicts
    <3>2. \A u \in Units : verdict' = "Permit" => ~(u \subseteq Errors(collected))
      BY <2>1, PermitNeedsEveryUnit
    <3>3. QED
      BY <1>6, <2>1, <2>2, <2>3, <3>1, <3>2, DecisionIsFinal DEF Promise!Decide
  <2>5. QED
    BY <2>4 DEF Promise!Next
<1>7. CASE Save /\ ~crashed
  <2>1. /\ main = "saving" /\ main' = "returned" /\ answer' = verdict
        /\ UNCHANGED <<collected, verdict, pending, called, crashed>>
    BY <1>7 DEF Save, callbackVars
  <2>2. Errors(collected)' = Errors(collected)
    BY <1>7, <2>1, ErrorsStable DEF Save, checkVars
  <2>3. verdict # "None"
    BY DEF FinalVerdicts, Verdicts
  <2>4. Promise!Answer
    BY <1>7, <2>1, <2>2, <2>3 DEF Promise!Answer
  <2>5. QED
    BY <2>4 DEF Promise!Next
<1>8. ASSUME NEW m \in Modules, RunCallback(m), ~crashed
      PROVE  [Promise!Next]_Promise!vars
  <2>1. PICK v \in FinalVerdicts :
          /\ <<m, v>> \in pending
          /\ pending' = pending \ {<<m, v>>}
          /\ called' = [called EXCEPT ![m] = v]
          /\ UNCHANGED <<checkVars, mainVars, crashed>>
    BY <1>8 DEF RunCallback
  <2>2. v = verdict /\ Told(verdict)
    BY <2>1 DEF CallbacksTold
  <2>3. Errors(collected)' = Errors(collected)
    BY <2>1, ErrorsStable DEF checkVars, mainVars
  <2>4. {n \in Modules : \E w \in FinalVerdicts : <<n, w>> \in pending'}
          = {n \in Modules : \E w \in FinalVerdicts : <<n, w>> \in pending} \ {m}
    <3>1. \A n, w : <<n, w>> \in pending => w = verdict
      BY DEF CallbacksTold
    <3>2. QED
      BY <2>1, <2>2, <3>1
  <2>5. v = IF main = "saving" THEN verdict ELSE answer
    BY <2>2 DEF Told
  <2>6. Promise!Tell(m)
    BY <1>8, <2>1, <2>3, <2>4, <2>5 DEF Promise!Tell, mainVars
  <2>7. QED
    BY <2>6 DEF Promise!Next
<1>9. ASSUME NEW m \in Modules, CallbackFails(m), ~crashed
      PROVE  [Promise!Next]_Promise!vars
  <2>1. Errors(collected)' = Errors(collected)
    BY <1>9, ErrorsStable DEF CallbackFails, checkVars, mainVars
  <2>2. Promise!End
    BY <1>9, <2>1 DEF Promise!End, CallbackFails, mainVars, callbackVars
  <2>3. QED
    BY <2>2 DEF Promise!Next
<1>10. CASE UNCHANGED vars
  <2>1. UNCHANGED Seen
    BY <1>10, ErrorsStable DEF vars, checkVars, mainVars, callbackVars, Seen
  <2>2. QED
    BY <2>1, UnseenSteps
<1>11. QED
  BY <1>1, <1>2, <1>3, <1>4, <1>5, <1>6, <1>7, <1>8, <1>9, <1>10
     DEF Next, CheckStep, CallbackStep, CloserStep, MainStep, Ended

(* The MTA, the record and the callbacks are given one and the same        *)
(* verdict, and a failed check nobody stands in for is never permitted     *)
(* over: the pipeline implements module Judgement.                         *)
THEOREM PromiseKept == Spec => AnsweredAsPromised
<1>1. Init => Promise!Init
  BY DEF Init, Promise!Init, Errors, Suggesting, ZeroVerdict, Promise!ZeroVerdict
<1>2. QED
  BY <1>1, PromiseStep, VInvHolds, PTL DEF Spec, Promise!Spec, AnsweredAsPromised


-----------------------------------------------------------------------------
(* Sums over sets.  The sum of natural numbers that are given to the       *)
(* members of a set is the size of another set, which has as many elements *)
(* for each member: what a fold over the set yields is found without an    *)
(* induction over it.                                                      *)
Shares(g, S) == UNION {{m} \X (1 .. g[m]) : m \in S}

\* f solves the recursive equation that the fold is defined by.
Adds(f, g, S) ==
  f = [s \in SUBSET S |->
         IF s = {} THEN 0
         ELSE LET x == CHOOSE x \in s : TRUE IN g[x] + f[s \ {x}]]

LEMMA SharesCount ==
  ASSUME NEW T, IsFiniteSet(T), NEW g \in [T -> Nat], NEW S \in SUBSET T
  PROVE  /\ IsFiniteSet(Shares(g, S)) /\ Cardinality(Shares(g, S)) \in Nat
         /\ S = {} => Cardinality(Shares(g, S)) = 0
         /\ \A x \in S :
              Cardinality(Shares(g, S)) = g[x] + Cardinality(Shares(g, S \ {x}))
<1> DEFINE part(m) == {m} \X (1 .. g[m])
<1>1. ASSUME NEW m \in T
      PROVE  IsFiniteSet(part(m)) /\ Cardinality(part(m)) = g[m]
  <2>1. g[m] \in Nat /\ IsFiniteSet(1 .. g[m]) /\ Cardinality(1 .. g[m]) = g[m]
    <3>1. g[m] \in Nat
      OBVIOUS
    <3>2. QED
      BY <3>1, FS_Interval
  <2>2. IsFiniteSet({m}) /\ Cardinality({m}) = 1
    BY FS_Singleton
  <2>3. IsFiniteSet(part(m)) /\ Cardinality(part(m)) = 1 * g[m]
    BY <2>1, <2>2, FS_Product
  <2>4. QED
    BY <2>1, <2>3
<1>2. ASSUME NEW U \in SUBSET T
      PROVE  IsFiniteSet(Shares(g, U)) /\ Cardinality(Shares(g, U)) \in Nat
  <2>1. IsFiniteSet(U)
    BY FS_Subset
  <2>2. IsFiniteSet({part(m) : m \in U})
    <3>1. [m \in U |-> part(m)] \in Surjection(U, {part(m) : m \in U})
      BY DEF Surjection
    <3>2. QED
      BY <2>1, <3>1, FS_Surjection
  <2>3. IsFiniteSet(Shares(g, U))
    BY <1>1, <2>2, FS_UNION DEF Shares
  <2>4. QED
    BY <2>3, FS_CardinalityType
<1>3. S = {} => Cardinality(Shares(g, S)) = 0
  BY FS_EmptySet DEF Shares
<1>4. ASSUME NEW x \in S
      PROVE  Cardinality(Shares(g, S)) = g[x] + Cardinality(Shares(g, S \ {x}))
  <2> DEFINE R == Shares(g, S \ {x})
  <2>1. Shares(g, S) = part(x) \cup R
    BY DEF Shares
  <2>2. part(x) \cap R = {}
    BY DEF Shares
  <2>3. /\ IsFiniteSet(R) /\ Cardinality(R) \in Nat
        /\ IsFiniteSet(part(x)) /\ Cardinality(part(x)) = g[x] /\ g[x] \in Nat
    BY <1>1, <1>2
  <2> HIDE DEF part, R
  <2>4. Cardinality(part(x) \cup R)
          = Cardinality(part(x)) + Cardinality(R) - Cardinality(part(x) \cap R)
    BY <2>3, FS_Union
  <2>5. Cardinality(part(x) \cap R) = 0
    BY <2>2, FS_EmptySet
  <2>6. QED
    BY <2>1, <2>3, <2>4, <2>5 DEF R
<1>5. QED
  BY <1>2, <1>3, <1>4

(* There is a solution, and it is the only one.                            *)
LEMMA SumsExist ==
  ASSUME NEW S, IsFiniteSet(S), NEW g \in [S -> Nat]
  PROVE  Adds([s \in SUBSET S |-> Cardinality(Shares(g, s))], g, S)
<1> DEFINE f == [s \in SUBSET S |-> Cardinality(Shares(g, s))]
<1>1. ASSUME NEW s \in SUBSET S, s # {}
      PROVE  LET x == CHOOSE x \in s : TRUE IN f[s] = g[x] + f[s \ {x}]
  <2> DEFINE x == CHOOSE x \in s : TRUE
  <2>1. x \in s
    BY <1>1
  <2> HIDE DEF x
  <2>2. Cardinality(Shares(g, s)) = g[x] + Cardinality(Shares(g, s \ {x}))
    BY <2>1, SharesCount
  <2>3. f[s] = g[x] + f[s \ {x}]
    BY <2>2
  <2>4. QED
    BY <2>3 DEF x
<1>2. f[{}] = 0
  BY SharesCount
<1>3. QED
  BY <1>1, <1>2 DEF Adds

LEMMA SumsUnique ==
  ASSUME NEW S, IsFiniteSet(S), NEW g \in [S -> Nat], NEW f, Adds(f, g, S)
  PROVE  f[S] = Cardinality(Shares(g, S))
<1> DEFINE h == [s \in SUBSET S |-> Cardinality(Shares(g, s))]
           Apart == {s \in SUBSET S : f[s] # h[s]}
<1>1. Adds(h, g, S)
  BY SumsExist
<1>2. ASSUME Apart # {} PROVE FALSE
  <2>1. IsWellFoundedOn(StrictSubsetOrdering(S), SUBSET S)
    BY FS_StrictSubsetOrderingWellFounded, FS_FiniteSubsetsOfFinite
  <2>2. PICK s \in Apart : \A t \in Apart : <<t, s>> \notin StrictSubsetOrdering(S)
    <3>1. Apart \subseteq SUBSET S
      OBVIOUS
    <3> HIDE DEF Apart
    <3>2. QED
      BY <1>2, <2>1, <3>1, WFMin
  <2> DEFINE x == CHOOSE x \in s : TRUE
  <2> HIDE DEF h
  <2>3. s # {}
    BY <1>1 DEF Adds
  <2>4. x \in s
    BY <2>3
  <2>5. f[s] = g[x] + f[s \ {x}]
    BY <2>3 DEF Adds
  <2>6. h[s] = g[x] + h[s \ {x}]
    BY <1>1, <2>3 DEF Adds
  <2>7. s \ {x} \notin Apart
    <3> HIDE DEF x
    <3>1. s \ {x} \in SUBSET S /\ s \ {x} # s
      BY <2>4
    <3>2. <<s \ {x}, s>> \in StrictSubsetOrdering(S)
      BY <3>1 DEF StrictSubsetOrdering
    <3>3. QED
      BY <2>2, <3>2
  <2>8. QED
    BY <2>5, <2>6, <2>7
<1>3. QED
  BY <1>2

(* The scores of some results, and what they are together.                 *)
Scores(R, S) == [m \in S |-> R[m].score]

Together(R, S) == Cardinality(Shares(Scores(R, S), S))

LEMMA TogetherType ==
  ASSUME NEW S, IsFiniteSet(S), NEW R, \A m \in S : R[m].score \in Nat
  PROVE  Together(R, S) \in Nat
<1>1. Scores(R, S) \in [S -> Nat]
  BY DEF Scores
<1>2. QED
  BY <1>1, SharesCount DEF Together

LEMMA RawScoreIs ==
  ASSUME NEW S, IsFiniteSet(S), NEW R, \A m \in S : R[m].score \in Nat
  PROVE  MapThenSumSet(LAMBDA m : R[m].score, S) = Together(R, S)
<1> DEFINE Solves(e) ==
      e = [s \in SUBSET S |->
             IF s = {} THEN 0
             ELSE LET x == CHOOSE x \in s : TRUE IN R[x].score + e[s \ {x}]]
<1>1. MapThenSumSet(LAMBDA m : R[m].score, S) = (CHOOSE e : Solves(e))[S]
  BY DEF MapThenSumSet, MapThenFoldSet
<1>2. Scores(R, S) \in [S -> Nat]
  BY DEF Scores
<1>3. ASSUME NEW e
      PROVE  Adds(e, Scores(R, S), S) <=> Solves(e)
  <2>1. ASSUME NEW s \in SUBSET S, s # {}
        PROVE  LET x == CHOOSE x \in s : TRUE IN Scores(R, S)[x] = R[x].score
    BY <2>1 DEF Scores
  <2>2. QED
    BY <2>1 DEF Adds
<1>4. PICK e : Adds(e, Scores(R, S), S)
  BY <1>2, SumsExist
<1>5. Solves(e)
  BY <1>3, <1>4
<1> HIDE DEF Solves
<1>6. Solves(CHOOSE d : Solves(d))
  BY <1>5
<1>7. QED
  BY <1>1, <1>2, <1>3, <1>6, SumsUnique DEF Together

LEMMA WeightedScoreIs ==
  ASSUME NEW S, IsFiniteSet(S),
         \A m \in S : result[m].score \in Nat /\ WeightedScore(m) = result[m].score
  PROVE  MapThenSumSet(WeightedScore, S) = Together(result, S)
<1> DEFINE Solves(e) ==
      e = [s \in SUBSET S |->
             IF s = {} THEN 0
             ELSE LET x == CHOOSE x \in s : TRUE IN WeightedScore(x) + e[s \ {x}]]
<1>1. MapThenSumSet(WeightedScore, S) = (CHOOSE e : Solves(e))[S]
  BY DEF MapThenSumSet, MapThenFoldSet
<1>2. Scores(result, S) \in [S -> Nat]
  BY DEF Scores
<1>3. ASSUME NEW e
      PROVE  Adds(e, Scores(result, S), S) <=> Solves(e)
  <2>1. ASSUME NEW s \in SUBSET S, s # {}
        PROVE  LET x == CHOOSE x \in s : TRUE IN Scores(result, S)[x] = WeightedScore(x)
    BY <2>1 DEF Scores
  <2>2. QED
    BY <2>1 DEF Adds
<1>4. PICK e : Adds(e, Scores(result, S), S)
  BY <1>2, SumsExist
<1>5. Solves(e)
  BY <1>3, <1>4
<1> HIDE DEF Solves
<1>6. Solves(CHOOSE d : Solves(d))
  BY <1>5
<1>7. QED
  BY <1>1, <1>2, <1>3, <1>6, SumsUnique DEF Together


-----------------------------------------------------------------------------
(* The breaker.  What makes the verdict certain: the results received that *)
(* do not permit reach the breaker score, none is negative, and no weights *)
(* apply to them.                                                          *)
Unweighted ==
  \A m \in collected : result[m].score >= 0 /\ \A g \in Groups : m \notin DOMAIN g

CutOff ==
  /\ Unweighted
  /\ \E a \in {"TempFail", "Reject", "Discard"} : RawScore(a, collected) >= BreakerScore

\* Who has the breaker's certainty is not permitted.
BreakerInv ==
  CutOff => answer # "Permit" /\ (main = "saving" => verdict # "Permit")

LEMMA ScoreIsTogether ==
  ASSUME TypeOK, NEW a, \A m \in collected : result[m].score >= 0
  PROVE  RawScore(a, collected) = Together(result, Suggesting(a, collected))
<1>1. IsFiniteSet(Suggesting(a, collected))
  BY VerdictAssumption, FS_Subset DEF TypeOK, Suggesting
<1>2. \A m \in Suggesting(a, collected) : result[m].score \in Nat
  BY DEF TypeOK, Suggesting
<1>3. QED
  BY <1>1, <1>2, RawScoreIs DEF RawScore

LEMMA TotalIsTogether ==
  ASSUME TypeOK, NEW a, Unweighted
  PROVE  /\ TotalScore(a) = RawScore(a, collected)
         /\ TotalScore(a) \in Nat
<1>1. IsFiniteSet(Suggesting(a, collected))
  BY VerdictAssumption, FS_Subset DEF TypeOK, Suggesting
<1>2. \A m \in Suggesting(a, collected) :
        result[m].score \in Nat /\ WeightedScore(m) = result[m].score
  BY DEF TypeOK, Suggesting, WeightedScore, Unweighted
<1>3. TotalScore(a) = Together(result, Suggesting(a, collected))
  BY <1>1, <1>2, WeightedScoreIs DEF TotalScore
<1>4. Together(result, Suggesting(a, collected)) \in Nat
  BY <1>1, <1>2, TogetherType
<1>5. QED
  BY <1>3, <1>4, ScoreIsTogether DEF Unweighted

(* What is certain is decided: the thresholds are not above the breaker's. *)
LEMMA CutOffDecides ==
  ASSUME TypeOK, TempfailScore <= BreakerScore, CutOff
  PROVE  Decision # "Permit"
<1>1. \A a : TotalScore(a) = RawScore(a, collected) /\ TotalScore(a) \in Nat
  BY TotalIsTogether DEF CutOff
<1>2. PICK a \in {"TempFail", "Reject", "Discard"} : TotalScore(a) >= BreakerScore
  BY <1>1 DEF CutOff
<1>3. /\ TotalScore("TempFail") \in Nat /\ TotalScore("Reject") \in Nat
      /\ TempfailScore \in Nat /\ BreakerScore \in Nat
  BY <1>1, VerdictAssumption
<1>4. CASE a = "Discard"
  BY <1>2, <1>4 DEF Decision
<1>5. CASE a # "Discard"
  <2>1. TotalScore("TempFail") + TotalScore("Reject") >= TempfailScore
    BY <1>2, <1>3, <1>5
  <2>2. QED
    BY <2>1 DEF Decision
<1>6. QED
  BY <1>4, <1>5

LEMMA CutOffStable ==
  ASSUME TypeOK, TypeOK', collected' = collected,
         \A m \in collected : result'[m] = result[m], CutOff'
  PROVE  CutOff
<1>1. Unweighted
  BY DEF CutOff, Unweighted
<1>2. ASSUME NEW a PROVE RawScore(a, collected)' = RawScore(a, collected)
  <2> DEFINE S == Suggesting(a, collected)
  <2>1. S' = S /\ S \subseteq collected
    BY DEF Suggesting, Action
  <2>2. IsFiniteSet(S) /\ \A m \in S : result[m].score \in Nat /\ result'[m].score \in Nat
    <3>1. \A m \in S : result[m].score \in Nat
      BY <1>1, <2>1 DEF TypeOK, Unweighted
    <3>2. IsFiniteSet(S)
      BY <2>1, VerdictAssumption, FS_Subset DEF TypeOK
    <3>3. QED
      BY <2>1, <3>1, <3>2
  <2>3. RawScore(a, collected) = Together(result, S)
    BY <1>1, ScoreIsTogether DEF Unweighted
  <2>4. RawScore(a, collected)' = Together(result', S)
    <3>1. RawScore(a, collected)'
            = MapThenSumSet(LAMBDA m : result'[m].score, Suggesting(a, collected)')
      BY DEF RawScore, MapThenSumSet, MapThenFoldSet
    <3>2. MapThenSumSet(LAMBDA m : result'[m].score, S) = Together(result', S)
      BY <2>2, RawScoreIs
    <3>3. QED
      BY <2>1, <3>1, <3>2
  <2>5. Scores(result', S) = Scores(result, S)
    BY <2>1 DEF Scores
  <2>6. QED
    BY <2>3, <2>4, <2>5 DEF Together
<1>3. QED
  BY <1>1, <1>2 DEF CutOff

LEMMA BreakerStep ==
  ASSUME VInv, VInv', BreakerInv, TempfailScore <= BreakerScore, [Next]_vars
  PROVE  BreakerInv'
<1> USE DEF VInv
<1>1. ASSUME NEW m \in Modules, Collect(m) PROVE BreakerInv'
  <2>1. answer' = "None" /\ main' # "saving"
    BY <1>1 DEF Collect, ErrorsDefer
  <2>2. QED
    BY <2>1 DEF BreakerInv
<1>2. ASSUME collected' = collected, \A m \in collected : result'[m] = result[m],
             CutOff => answer' # "Permit" /\ (main' = "saving" => verdict' # "Permit")
      PROVE  BreakerInv'
  BY <1>2, CutOffStable DEF BreakerInv
<1>3. ASSUME NEW m \in Modules,
             CheckReturns(m) \/ CheckPanics(m) \/ Finish(m) \/ Drain(m)
      PROVE  BreakerInv'
  <2>1. collected' = collected /\ UNCHANGED <<main, verdict, answer>>
    BY <1>3 DEF CheckReturns, CheckPanics, Finish, Drain, mainVars
  <2>2. \A n \in collected : result'[n] = result[n]
    BY <1>3 DEF CheckReturns, CheckPanics, Finish, Drain, ResultsAccounted, TypeOK
  <2>3. QED
    BY <1>2, <2>1, <2>2 DEF BreakerInv
<1>4. CASE StopCollecting
  <2>1. answer' = "None" /\ main' # "saving"
    BY <1>4 DEF StopCollecting, ErrorsDefer
  <2>2. QED
    BY <2>1 DEF BreakerInv
<1>5. CASE DecidePanics
  <2>1. main = "deciding" /\ answer = "None" /\ answer' \in {"None", "TempFail"}
        /\ main' \in {"deciding", "returned"}
    BY <1>5 DEF DecidePanics, ErrorsDefer
  <2>2. QED
    BY <2>1 DEF BreakerInv
<1>6. CASE Decide
  <2>1. /\ answer' = "None" /\ verdict' = Decision
        /\ UNCHANGED <<collected, result>>
    BY <1>6 DEF Decide, ErrorsDefer, checkVars
  <2>2. QED
    BY <1>2, <2>1, CutOffDecides
<1>7. CASE Save
  <2>1. /\ main = "saving" /\ answer' = verdict /\ main' = "returned"
        /\ UNCHANGED <<collected, result>>
    BY <1>7 DEF Save, checkVars
  <2>2. QED
    BY <1>2, <2>1 DEF BreakerInv
<1>8. CASE UNCHANGED <<result, mainVars>>
  BY <1>2, <1>8 DEF mainVars, BreakerInv
<1>9. QED
  BY <1>1, <1>3, <1>4, <1>5, <1>6, <1>7, <1>8
     DEF Next, CheckStep, CloserStep, CloseResults, CallbackStep, MainStep, Ended,
         RunCallback, CallbackFails, vars, checkVars

(* The breaker does not turn the verdict around: once results that do not  *)
(* permit reach its score, no check that it cuts off could have made the   *)
(* message be permitted, if its score is not below that of a TempFail.     *)
THEOREM BreakerCorrect ==
  ASSUME TempfailScore <= BreakerScore
  PROVE  Spec => []BreakerKeepsVerdict
<1>1. Init => BreakerInv
  BY DEF Init, BreakerInv
<1>2. VInv /\ VInv' /\ BreakerInv /\ [Next]_vars => BreakerInv'
  BY BreakerStep
<1>3. BreakerInv => BreakerKeepsVerdict
  BY DEF BreakerInv, BreakerKeepsVerdict, CutOff, Unweighted
<1>4. QED
  BY <1>1, <1>2, <1>3, VInvHolds, PTL DEF Spec
=============================================================================
