------------------------------- MODULE Bounces --------------------------------
(***************************************************************************)
(* Bounces between the two modules that keep something about them in       *)
(* Redis: sender rewriting, which has to find the address a bounce is for  *)
(* (twice for every attempt), and greylisting, which defers the bounce at  *)
(* first.  Both checks run at the same time once the recipient was         *)
(* accepted, and the verdict waits for both; a bounce that was deferred is *)
(* tried again, from RCPT TO on.                                           *)
(***************************************************************************)
EXTENDS Srs, FiniteSets

CONSTANTS
  KeyOf, SpfListed, InitialPeriod, Validity, WhiteValidity,
  Never  \* the constants of Greylisting

ASSUME BouncesAssumption ==
  /\ IsFiniteSet(Bounces)
  /\ {InitialPeriod, Validity, WhiteValidity} \subseteq Nat \ {0}
  /\ InitialPeriod < Validity
  /\ SpfListed \in BOOLEAN
  /\ Never \notin Nat

VARIABLES
  greylisting, first, white, whiteEnds,
  earliest, spfPassed, lapses,  \* the variables of Greylisting
  waiting,     \* the bounces that were deferred in this unit of time
  deferrals  \* deferrals[b]: how often b was deferred

greyVars == <<greylisting, first, white, whiteEnds, earliest, spfPassed, lapses>>
attemptVars == <<waiting, deferrals>>
allVars == <<vars, greyVars, attemptVars>>

Greylist == INSTANCE Greylisting WITH Mails <- Bounces

BouncesInit ==
  /\ Init
  /\ Greylist!GreyInit
  /\ waiting = {}
  /\ deferrals = [b \in Bounces |-> 0]

\* An MTA tries again, but not in the unit of time in which it was deferred.
Try(b) ==
  /\ b \notin waiting
  /\ RecipientCheck(b)
  /\ UNCHANGED <<greyVars, attemptVars>>

\* The two checks of messageGetResults that matter here.
ChecksOf(b) ==
  /\ UNCHANGED attemptVars
  /\ \/ SwapRecipients(b) /\ UNCHANGED greyVars
     \/ /\ bounce[b] \in {"accepted", "mapped", "emptied"}
        /\ Greylist!MessageCheck(b)
        /\ UNCHANGED <<msgVars, stage, from, persisting, entryVars, bounce>>

\* What greylisting suggests defers the bounce if the other scores let it; if
\* it permits, nothing in here defers the bounce.
GetVerdict(b) ==
  /\ Greylist!Said(b)
  /\ \E deferred \in BOOLEAN :
       /\ deferred => greylisting[b] = "deferring"
       /\ Answer(b, deferred)
       /\ IF deferred
          THEN /\ waiting' = waiting \cup {b}
               /\ deferrals' = [deferrals EXCEPT ![b] = @ + 1]
          ELSE UNCHANGED attemptVars
  /\ Greylist!Again(b)

\* Until the message has left, time does not matter to anybody in here.
Pass ==
  /\ stage = "forwarded"
  /\ Tick
  /\ Greylist!Forget(clock')
  /\ waiting' = {}
  /\ UNCHANGED deferrals

BouncesNext ==
  \/ (Check \/ Leave \/ Persist \/ Crash \/ Ended) /\ UNCHANGED <<greyVars, attemptVars>>
  \/ \E b \in Bounces : Try(b) \/ ChecksOf(b) \/ GetVerdict(b)
  \/ Pass

BouncesSpec == BouncesInit /\ [][BouncesNext]_allVars
-----------------------------------------------------------------------------
(* Nobody is permitted or whitelisted before the initial period is over.   *)
PermittedOnlyIfWaited == Greylist!PermittedOnlyIfWaited

(* A bounce is not deferred for ever: as often as its MTA may try within   *)
(* the initial period, once for each time that Redis failed or has         *)
(* forgotten the first attempt, and for each bounce alike whose check      *)
(* overlaps and overwrites the first attempt, which its GET did not find.  *)
DeferralsBounded == \A b \in Bounces : deferrals[b] <= Greylist!DeferralsAllowed(b)
=============================================================================
