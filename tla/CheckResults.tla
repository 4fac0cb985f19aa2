---------------------------- MODULE CheckResults ----------------------------
(***************************************************************************)
(* The vocabulary every check module shares with the message pipeline: the *)
(* verdict constants of core/message.go and the result a MessageCheck may  *)
(* return.  Scores are integers, in hundredths of a point, so that the     *)
(* fractional defaults of cluegetter.conf.dist can be written exactly.     *)
(***************************************************************************)
EXTENDS Integers

\* MessagePermit .. MessageDiscard.
Verdicts == {"Permit", "TempFail", "Reject", "Error", "Discard"}

\* The four values messageGetVerdict can give its verdict (never "Error").
FinalVerdicts == Verdicts \ {"Error"}

\* The zero value of Message.Verdict, an int: MessagePermit is 0.
ZeroVerdict == "Permit"

\* What a check reports; the texts and the determinants are left out.
Result(action, score) == [action |-> action, score |-> score]

IsResult(r) == r \in [action : Verdicts, score : Int]

\* A check that returns nil reports nothing.
NoResult == [action |-> "None", score |-> 0]

\* The score of every MessageError result the code builds, 25 points.
ErrorScore == 2500
ErrorResult == Result("Error", ErrorScore)
=============================================================================
