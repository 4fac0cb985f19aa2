----------------------------- MODULE Judgement ------------------------------
(***************************************************************************)
(* What messageGetVerdict promises to those around it, without channels,   *)
(* breaker, scores or goroutines: modules are heard, one verdict is found, *)
(* and the MTA, the record of the message and the callbacks of those that  *)
(* were heard are all given this one; except that a decision that fails    *)
(* defers the message and says so to the MTA only.  A message is never     *)
(* permitted when modules have failed that nobody stands in for.  Module   *)
(* Verdict implements it (Verdict!AnsweredAsPromised).                     *)
(***************************************************************************)
EXTENDS CheckResults

CONSTANTS
  Modules,  \* the modules that are asked
  Calling,  \* those that want to be told the verdict
  Units     \* sets of modules, the members of which stand in for each other

VARIABLES
  heard,     \* the modules that were heard before the decision
  failed,    \* those of them that reported a failure
  decision,  \* the verdict, or "None"
  recorded,  \* the verdict recorded with the message
  answered,  \* whether the MTA was answered with the decision
  due,       \* the modules that are yet to be told the verdict
  told,      \* told[m]: the verdict m was told, or "None"
  over       \* whether the process ended

vars == <<heard, failed, decision, recorded, answered, due, told, over>>

Init ==
  /\ heard = {} /\ failed = {} /\ due = {}
  /\ decision = "None"
  /\ recorded = ZeroVerdict
  /\ told = [m \in Modules |-> "None"]
  /\ answered = FALSE /\ over = FALSE

Hear(m) ==
  /\ ~over /\ decision = "None" /\ m \notin heard
  /\ heard' = heard \cup {m}
  /\ failed' \in {failed, failed \cup {m}}
  /\ UNCHANGED <<decision, recorded, answered, due, told, over>>

Decide ==
  /\ ~over /\ decision = "None"
  /\ decision' \in FinalVerdicts
  /\ decision' = "Permit" => \A u \in Units : ~(u \subseteq failed)
  /\ recorded' = decision'
  /\ due' = heard \cap Calling
  /\ UNCHANGED <<heard, failed, answered, told, over>>

Defer ==
  /\ ~over /\ decision = "None"
  /\ decision' = "TempFail" /\ answered' = TRUE
  /\ UNCHANGED <<heard, failed, recorded, due, told, over>>

Answer ==
  /\ ~over /\ decision # "None" /\ ~answered
  /\ answered' = TRUE
  /\ UNCHANGED <<heard, failed, decision, recorded, due, told, over>>

Tell(m) ==
  /\ ~over /\ m \in due
  /\ due' = due \ {m}
  /\ told' = [told EXCEPT ![m] = decision]
  /\ UNCHANGED <<heard, failed, decision, recorded, answered, over>>

End ==
  /\ ~over
  /\ over' = TRUE
  /\ UNCHANGED <<heard, failed, decision, recorded, answered, due, told>>

Next ==
  \/ \E m \in Modules : Hear(m) \/ Tell(m)
  \/ Decide \/ Defer \/ Answer \/ End

Spec == Init /\ [][Next]_vars
=============================================================================
