---------------------------- MODULE BouncesProofs -----------------------------
(***************************************************************************)
(* Proofs about a forwarded message and its bounces, for any number of     *)
(* bounces, any headers, any periods and lifetimes.  Four things hold,     *)
(* each with an invariant of its own.                                      *)
(*                                                                         *)
(* A bounce that was accepted is lost only if Redis has forgotten the      *)
(* address or failed: what is needed of a bounce that was accepted, but is *)
(* yet to be checked, is that the address it was accepted for is still     *)
(* there, or that one of the two has happened, which holds of one that was *)
(* readdressed to nobody in any case.                                      *)
(*                                                                         *)
(* Nobody is permitted before the initial period is over: what Redis has   *)
(* as a first attempt is not earlier than the first attempt there was.     *)
(*                                                                         *)
(* Nobody is deferred for ever: a wait that begins pays, in advance, for   *)
(* all deferrals of a bounce within it.                                    *)
(*                                                                         *)
(* The domain a message is rewritten to is the first that is none of the   *)
(* recipients': the loops that find it are folds, and what they do is      *)
(* shown round by round.                                                   *)
(***************************************************************************)
EXTENDS Bounces, FiniteSetTheorems, SequenceTheorems, TLAPS

Excused == forgotten \/ failures > 0

Types ==
  /\ failures \in 0 .. MaxFailures
  /\ bounce \in [Bounces -> 
       {"none", "accepted", "refused", "mapped", "emptied", "returned", "lost"}]

AcceptedIsKnown ==
  \A b \in Bounces :
    /\ bounce[b] = "accepted" => entry \/ Excused
    /\ bounce[b] = "emptied" => Excused

IInv == Types /\ AcceptedIsKnown /\ LostOnlyIfForgotten

USE DEF Excused

\* Nothing has happened yet.
LEMMA InitIInv == Init => IInv
  BY SrsAssumption DEF Init, IInv, Types, AcceptedIsKnown, LostOnlyIfForgotten

\* A lookup that finds nothing, although the address is there, is a failure.
LEMMA Lookup ==
  ASSUME NEW found \in BOOLEAN, Types, LookupAddress(found)
  PROVE  /\ failures' \in 0 .. MaxFailures
         /\ failures > 0 => failures' > 0
         /\ found => entry
         /\ ~found => ~entry \/ failures' > 0
  BY SrsAssumption DEF Types, LookupAddress, RedisFails

\* No step makes an accepted bounce unknown without an excuse.
LEMMA StepIInv == IInv /\ [Next]_vars => IInv'
<1> SUFFICES ASSUME IInv, [Next]_vars PROVE IInv'
  OBVIOUS
<1> USE SrsAssumption DEF IInv, Types, AcceptedIsKnown, LostOnlyIfForgotten
<1>1. CASE Check
  BY <1>1 DEF Check, entryVars
<1>2. CASE Leave
  BY <1>2 DEF Leave, entryVars
<1>3. CASE Persist
  BY <1>3 DEF Persist, RedisFails
<1>4. CASE Crash
  BY <1>4 DEF Crash, RedisFails, entryVars
<1>5. CASE Tick
  BY <1>5 DEF Tick, entryVars
<1>6. ASSUME NEW b \in Bounces, RecipientCheck(b) PROVE IInv'
  <2>1. PICK found \in BOOLEAN :
          /\ LookupAddress(found)
          /\ bounce' = [bounce EXCEPT ![b] = IF found THEN "accepted" ELSE "refused"]
    BY <1>6 DEF RecipientCheck
  <2>2. /\ failures' \in 0 .. MaxFailures /\ (failures > 0 => failures' > 0)
        /\ found => entry
    BY <2>1, Lookup
  <2>3. UNCHANGED <<entry, forgotten>>
    BY <1>6 DEF RecipientCheck, entryVars
  <2> QED
    BY <2>1, <2>2, <2>3
<1>7. ASSUME NEW b \in Bounces, SwapRecipients(b) PROVE IInv'
  <2>1. PICK found \in BOOLEAN :
          /\ LookupAddress(found)
          /\ bounce' = [bounce EXCEPT ![b] = IF found THEN "mapped" ELSE "emptied"]
    BY <1>7 DEF SwapRecipients
  <2>2. /\ failures' \in 0 .. MaxFailures /\ (failures > 0 => failures' > 0)
        /\ ~found => ~entry \/ failures' > 0
    BY <2>1, Lookup
  <2>3. bounce[b] = "accepted" /\ UNCHANGED <<entry, forgotten>>
    BY <1>7 DEF SwapRecipients, entryVars
  <2>4. ~found => Excused'
    BY <2>2, <2>3
  <2> QED
    BY <2>1, <2>2, <2>3, <2>4
<1>8. ASSUME NEW b \in Bounces, NEW deferred \in BOOLEAN, Answer(b, deferred) PROVE IInv'
  BY <1>8 DEF Answer, entryVars
<1>9. CASE UNCHANGED vars
  BY <1>9 DEF vars, entryVars
<1> QED
  BY <1>1, <1>2, <1>3, <1>4, <1>5, <1>6, <1>7, <1>8, <1>9 DEF Next, BounceStep, Ended

\* What greylisting does to Redis costs no address: it may count a failure.
LEMMA GreyStep ==
  ASSUME NEW b \in Bounces, ChecksOf(b), IInv
  PROVE  IInv'
<1> USE SrsAssumption DEF IInv, Types, AcceptedIsKnown, LostOnlyIfForgotten
<1>1. CASE SwapRecipients(b)
  BY <1>1, StepIInv DEF Next, BounceStep
<1>2. CASE /\ Greylist!MessageCheck(b)
           /\ UNCHANGED <<msgVars, stage, from, persisting, entryVars, bounce>>
  <2>1. failures' = failures \/ (failures < MaxFailures /\ failures' = failures + 1)
    BY <1>2 DEF Greylist!MessageCheck, Greylist!IpIsSpfWhitelisted,
       Greylist!IpIsWhitelisted, Greylist!GetVerdict, Greylist!SetFirst,
       Greylist!UpdateWhitelist, Greylist!RedisFails
  <2> QED
    BY <1>2, <2>1 DEF entryVars
<1> QED
  BY <1>1, <1>2 DEF ChecksOf

LEMMA BouncesStepIInv == IInv /\ [BouncesNext]_allVars => IInv'
<1> SUFFICES ASSUME IInv, [BouncesNext]_allVars PROVE IInv'
  OBVIOUS
<1>1. CASE Check \/ Leave \/ Persist \/ Crash \/ Ended \/ Tick
  BY <1>1, StepIInv DEF Next
<1>2. ASSUME NEW b \in Bounces, RecipientCheck(b) PROVE IInv'
  BY <1>2, StepIInv DEF Next, BounceStep
<1>3. ASSUME NEW b \in Bounces, NEW deferred \in BOOLEAN, Answer(b, deferred) PROVE IInv'
  BY <1>3, StepIInv DEF Next, BounceStep
<1>4. CASE UNCHANGED allVars
  BY <1>4, StepIInv DEF allVars
<1> QED
  BY <1>1, <1>2, <1>3, <1>4, GreyStep DEF BouncesNext, Try, GetVerdict, Pass

(* An accepted bounce reaches the sender of the message it is about        *)
(* (getInboundSrsAddresses, swapRecipients), unless Redis forgot or        *)
(* failed, also when greylisting defers it over and over.                  *)
THEOREM LostCorrect == BouncesSpec => []LostOnlyIfForgotten
<1>1. IInv => LostOnlyIfForgotten
  BY DEF IInv
<1> QED
  BY <1>1, InitIInv, BouncesStepIInv, PTL DEF BouncesSpec, BouncesInit

-----------------------------------------------------------------------------
(* Greylisting: what is whitelisted, or about to be permitted, has waited. *)
(* The first attempts that Redis has are no earlier than the first there   *)
(* was, which nothing moves once it is set.                                *)
Steps == {"idle", "exists", "get", "set", "deferring", "permitting", "permit"}

Excuse ==
  \/ spfPassed
  \/ earliest # Never /\ earliest + InitialPeriod < clock

WTypes ==
  /\ clock \in Nat
  /\ earliest \in Nat \cup {Never}
  /\ first \in [Greylist!Keys -> Nat \cup {Never}]
  /\ greylisting \in [Bounces -> Steps]

EarliestIsFirst ==
  /\ earliest # Never => earliest <= clock
  /\ \A k \in Greylist!Keys : first[k] # Never => earliest # Never /\ earliest <= first[k]
  /\ \A b \in Bounces : greylisting[b] # "idle" => earliest # Never

WaitedFor ==
  /\ white => Excuse
  /\ \A b \in Bounces : greylisting[b] \in {"permitting", "permit"} => Excuse

WInv == WTypes /\ EarliestIsFirst /\ WaitedFor

LEMMA InitWInv == BouncesInit => WInv
  BY BouncesAssumption
     DEF BouncesInit, Init, Greylist!GreyInit, WInv, WTypes, Steps, EarliestIsFirst,
         WaitedFor

\* Every bounce has its key.
LEMMA KeysOf == \A b \in Bounces : KeyOf[b] \in Greylist!Keys
  BY DEF Greylist!Keys

LEMMA CheckWInv ==
  ASSUME WInv, NEW b \in Bounces, Greylist!MessageCheck(b)
  PROVE  WInv'
<1> USE BouncesAssumption, KeysOf DEF WInv, WTypes, Steps, EarliestIsFirst, WaitedFor,
        Excuse, Greylist!Proceeds, Greylist!RedisFails
<1>1. CASE Greylist!IpIsSpfWhitelisted(b)
  BY <1>1 DEF Greylist!IpIsSpfWhitelisted
<1>2. CASE Greylist!IpIsWhitelisted(b)
  BY <1>2 DEF Greylist!IpIsWhitelisted
<1>3. CASE Greylist!GetVerdict(b)
  BY <1>3 DEF Greylist!GetVerdict, Greylist!Waited
<1>4. CASE Greylist!SetFirst(b)
  BY <1>4 DEF Greylist!SetFirst
<1>5. CASE Greylist!UpdateWhitelist(b)
  BY <1>5 DEF Greylist!UpdateWhitelist
<1> QED
  BY <1>1, <1>2, <1>3, <1>4, <1>5 DEF Greylist!MessageCheck

LEMMA StepWInv == WInv /\ [BouncesNext]_allVars => WInv'
<1> SUFFICES ASSUME WInv, [BouncesNext]_allVars PROVE WInv'
  OBVIOUS
<1>1. ASSUME UNCHANGED <<greyVars, clock>> PROVE WInv'
  BY <1>1 DEF greyVars, WInv, WTypes, EarliestIsFirst, WaitedFor, Excuse
<1>2. ASSUME NEW b \in Bounces, ChecksOf(b) PROVE WInv'
  <2>1. CASE SwapRecipients(b) /\ UNCHANGED greyVars
    BY <1>1, <2>1 DEF SwapRecipients
  <2>2. CASE Greylist!MessageCheck(b)
    BY <2>2, CheckWInv
  <2> QED
    BY <1>2, <2>1, <2>2 DEF ChecksOf
<1>3. ASSUME NEW b \in Bounces, GetVerdict(b) PROVE WInv'
  <2>1. clock' = clock
    BY <1>3 DEF GetVerdict, Answer
  <2> QED
    BY <1>3, <2>1 DEF GetVerdict, Greylist!Again, WInv, WTypes, Steps, EarliestIsFirst,
       WaitedFor, Excuse
<1>4. CASE Pass
  <2>1. clock' = clock + 1
    BY <1>4 DEF Pass, Tick
  <2>2. Greylist!Forget(clock')
    BY <1>4 DEF Pass
  <2>3. /\ UNCHANGED <<greylisting, earliest, spfPassed>>
        /\ white' => white
    BY <2>2 DEF Greylist!Forget
  <2>4. /\ first' \in [Greylist!Keys -> Nat \cup {Never}]
        /\ \A k \in Greylist!Keys : first'[k] # Never => first'[k] = first[k]
    <3>1. /\ DOMAIN first' = Greylist!Keys
          /\ \A k \in Greylist!Keys : first'[k] = Never \/ first'[k] = first[k]
          /\ first' = [k \in Greylist!Keys |-> first'[k]]
      BY <2>2 DEF Greylist!Forget
    <3> QED
      BY <3>1 DEF WInv, WTypes
  <2>5. Excuse => Excuse'
    BY <2>1, <2>3, BouncesAssumption DEF WInv, WTypes, Excuse
  <2>6. WTypes' /\ EarliestIsFirst'
    BY <2>1, <2>3, <2>4 DEF WInv, WTypes, EarliestIsFirst
  <2>7. WaitedFor'
    BY <2>3, <2>5 DEF WInv, WaitedFor
  <2> QED
    BY <2>6, <2>7 DEF WInv
<1>5. CASE (Check \/ Leave \/ Persist \/ Crash \/ Ended) /\ UNCHANGED greyVars
  BY <1>1, <1>5 DEF Check, Leave, Persist, Crash, Ended, vars
<1>6. ASSUME NEW b \in Bounces, Try(b) PROVE WInv'
  BY <1>1, <1>6 DEF Try, RecipientCheck
<1>7. CASE UNCHANGED allVars
  BY <1>1, <1>7 DEF allVars, vars
<1> QED
  BY <1>2, <1>3, <1>4, <1>5, <1>6, <1>7 DEF BouncesNext

(* A client is permitted or whitelisted only after the initial period, or  *)
(* because of SPF, for any number of bounces, alike or not, whatever       *)
(* overlaps, fails and is forgotten.                                       *)
THEOREM WaitedCorrect == BouncesSpec => []PermittedOnlyIfWaited
<1>1. WInv => PermittedOnlyIfWaited
  BY DEF WInv, WaitedFor, Excuse, PermittedOnlyIfWaited, Greylist!PermittedOnlyIfWaited
<1> QED
  BY <1>1, InitWInv, StepWInv, PTL DEF BouncesSpec


-----------------------------------------------------------------------------
(* Deferrals.  What may yet defer a bounce is paid for in advance.  While  *)
(* Redis has no first attempt, every mail alike may set one, if it is not  *)
(* there when the mail asks; once there is one, only those may that asked  *)
(* before.  Each of them begins a period, in every unit of which the       *)
(* bounce can be deferred once.  A failure, or a first attempt that Redis  *)
(* forgets, pays for as many periods as there are mails.                   *)
Size(k) == Cardinality(Greylist!Alike(k))
Setters(k) == {m \in Greylist!Alike(k) : greylisting[m] = "set"}
Starts(k) == IF first[k] = Never THEN Size(k) ELSE Cardinality(Setters(k))

Busy(b) == b \in waiting \/ greylisting[b] = "deferring"
Counted(b) == deferrals[b] + IF greylisting[b] = "deferring" THEN 1 ELSE 0

\* The units of time, this one included, in which b may be deferred yet.
UnitsLeft(b) ==
  LET k == KeyOf[b] IN
  IF first[k] = Never \/ first[k] + InitialPeriod < clock THEN 0
  ELSE (first[k] + InitialPeriod - clock) + IF Busy(b) THEN 0 ELSE 1

Spent(b) == Counted(b) + UnitsLeft(b)
Units == InitialPeriod + 1
Times(k) == 1 + failures + lapses[k]

Within(b) ==
  Spent(b) + Units * Starts(KeyOf[b]) <= (Units * Size(KeyOf[b])) * Times(KeyOf[b])

Budget == \A b \in Bounces : Within(b)

DTypes ==
  /\ deferrals \in [Bounces -> Nat]
  /\ lapses \in [Greylist!Keys -> Nat]
  /\ waiting \in SUBSET Bounces
  /\ \A b \in waiting : bounce[b] = "none"

DInv == IInv /\ WInv /\ DTypes

LEMMA Products ==
  /\ \A u, x, y \in Nat : x <= y => u * x <= u * y
  /\ \A u, x \in Nat : u * (x + 1) = u * x + u
  /\ \A u, x \in Nat : u * x \in Nat
  OBVIOUS

LEMMA SizesOf ==
  ASSUME NEW k
  PROVE  /\ IsFiniteSet(Greylist!Alike(k)) /\ Size(k) \in Nat
         /\ IsFiniteSet(Setters(k)) /\ Cardinality(Setters(k)) \in Nat
         /\ Cardinality(Setters(k)) <= Size(k)
<1>1. Greylist!Alike(k) \in SUBSET Bounces /\ Setters(k) \in SUBSET Greylist!Alike(k)
  BY DEF Greylist!Alike, Setters
<1>2. IsFiniteSet(Greylist!Alike(k))
  BY <1>1, FS_Subset, BouncesAssumption
<1> QED
  BY <1>1, <1>2, FS_Subset, FS_CardinalityType DEF Size

\* What the proofs calculate with are numbers.
Numbers(b) ==
  /\ KeyOf[b] \in Greylist!Keys
  /\ Units \in Nat \ {0} /\ Spent(b) \in Nat /\ Starts(KeyOf[b]) \in Nat
  /\ Counted(b) \in Nat /\ UnitsLeft(b) \in Nat
  /\ Size(KeyOf[b]) \in Nat \ {0} /\ Times(KeyOf[b]) \in Nat
  /\ failures \in Nat
  /\ Units * Starts(KeyOf[b]) \in Nat /\ Units * Size(KeyOf[b]) \in Nat
  /\ Units <= Units * Size(KeyOf[b])

AllNumbers == \A b \in Bounces : Numbers(b)

LEMMA NumbersNow == DInv => AllNumbers
<1> SUFFICES ASSUME DInv, NEW b \in Bounces PROVE Numbers(b)
  BY DEF AllNumbers
<1> DEFINE k == KeyOf[b]
<1>1. k \in Greylist!Keys
  BY KeysOf
<1>2. Units \in Nat \ {0}
  BY BouncesAssumption DEF Units
<1>3. Starts(k) \in Nat /\ Size(k) \in Nat
  BY SizesOf DEF Starts
<1>4. Size(k) # 0
  <2>1. b \in Greylist!Alike(k)
    BY DEF Greylist!Alike
  <2> QED
    BY <2>1, SizesOf, FS_EmptySet DEF Size
<1>5. Counted(b) \in Nat
  BY DEF DInv, DTypes, Counted
<1>6. UnitsLeft(b) \in Nat
  <2>1. /\ clock \in Nat /\ InitialPeriod \in Nat
        /\ first[k] = Never \/ first[k] \in Nat
    BY <1>1, BouncesAssumption DEF DInv, WInv, WTypes
  <2> QED
    BY <2>1 DEF UnitsLeft
<1>7. failures \in Nat /\ Times(k) \in Nat
  BY <1>1, SrsAssumption DEF DInv, IInv, Types, DTypes, Times
<1>8. Units * Starts(k) \in Nat /\ Units * Size(k) \in Nat /\ Units * 1 <= Units * Size(k)
  BY <1>2, <1>3, <1>4, Products
<1> QED
  BY <1>1, <1>2, <1>3, <1>4, <1>5, <1>6, <1>7, <1>8 DEF Spent, Numbers

LEMMA NumbersNext == DInv' => AllNumbers'
  BY NumbersNow, PTL

(* The typing of what the deferrals are counted with.                      *)
LEMMA InitDInv == BouncesInit => DInv
  BY InitIInv, InitWInv DEF BouncesInit, DInv, DTypes, Greylist!GreyInit

LEMMA StepDInv == DInv /\ [BouncesNext]_allVars => DInv'
<1> SUFFICES ASSUME DInv, [BouncesNext]_allVars PROVE DInv'
  OBVIOUS
<1>1. IInv' /\ WInv'
  BY BouncesStepIInv, StepWInv DEF DInv
<1>2. DTypes /\ Types
  BY DEF DInv, IInv
<1>3. ASSUME UNCHANGED <<attemptVars, lapses>>,
             \A b \in waiting : bounce'[b] = bounce[b]
      PROVE  DTypes'
  BY <1>2, <1>3 DEF DTypes, attemptVars
<1>4. ASSUME NEW b \in Bounces, Try(b) PROVE DTypes'
  <2>1. \A c \in waiting : bounce'[c] = bounce[c]
    BY <1>2, <1>4 DEF Try, RecipientCheck, Types
  <2> QED
    BY <1>3, <1>4, <2>1 DEF Try, greyVars
<1>5. ASSUME NEW b \in Bounces, ChecksOf(b) PROVE DTypes'
  <2>1. \A c \in waiting : bounce'[c] = bounce[c]
    BY <1>2, <1>5 DEF ChecksOf, SwapRecipients, DTypes, Types
  <2>2. lapses' = lapses /\ UNCHANGED attemptVars
    BY <1>5 DEF ChecksOf, greyVars, Greylist!MessageCheck, Greylist!IpIsSpfWhitelisted,
       Greylist!IpIsWhitelisted, Greylist!GetVerdict, Greylist!SetFirst,
       Greylist!UpdateWhitelist
  <2> QED
    BY <1>3, <2>1, <2>2
<1>6. ASSUME NEW b \in Bounces, GetVerdict(b) PROVE DTypes'
  <2>1. PICK deferred \in BOOLEAN :
          /\ Answer(b, deferred)
          /\ IF deferred
             THEN /\ waiting' = waiting \cup {b}
                  /\ deferrals' = [deferrals EXCEPT ![b] = @ + 1]
             ELSE UNCHANGED attemptVars
    BY <1>6 DEF GetVerdict
  <2>2. lapses' = lapses
    BY <1>6 DEF GetVerdict, Greylist!Again
  <2>3. b \notin waiting /\ \A c \in Bounces \ {b} : bounce'[c] = bounce[c]
    BY <1>2, <2>1 DEF DTypes, Types, Answer
  <2>4. deferred => bounce'[b] = "none"
    BY <1>2, <2>1 DEF Types, Answer
  <2>5. CASE deferred
    <3>1. deferrals' \in [Bounces -> Nat]
      BY <1>2, <2>1, <2>5 DEF DTypes
    <3>2. \A c \in waiting' : bounce'[c] = "none"
      <4>1. \A c \in waiting : bounce'[c] = bounce[c]
        BY <1>2, <2>1, <2>3 DEF Types, Answer
      <4> QED
        BY <1>2, <2>1, <2>4, <2>5, <4>1 DEF DTypes
    <3> QED
      BY <1>2, <2>1, <2>2, <2>5, <3>1, <3>2 DEF DTypes
  <2>6. CASE ~deferred
    <3>1. \A c \in waiting : bounce'[c] = bounce[c]
      BY <1>2, <2>1, <2>3 DEF Types, Answer
    <3> QED
      BY <1>3, <2>1, <2>2, <2>6, <3>1
  <2> QED
    BY <2>5, <2>6
<1>7. CASE Pass
  <2>1. waiting' = {} /\ deferrals' = deferrals /\ Greylist!Forget(clock')
    BY <1>7 DEF Pass
  <2>2. lapses' \in [Greylist!Keys -> Nat]
    <3>1. /\ lapses' = [k \in Greylist!Keys |-> lapses'[k]]
          /\ \A k \in Greylist!Keys : lapses'[k] \in {lapses[k], lapses[k] + 1}
      BY <2>1 DEF Greylist!Forget
    <3> QED
      BY <1>2, <3>1 DEF DTypes
  <2> QED
    BY <1>1, <1>2, <2>1, <2>2 DEF DInv, DTypes
<1>8. CASE (Check \/ Leave \/ Persist \/ Crash \/ Ended) /\ UNCHANGED <<greyVars, attemptVars>>
  <2>1. bounce' = bounce
    BY <1>8 DEF Check, Leave, Persist, Crash, Ended, vars
  <2> QED
    BY <1>1, <1>3, <1>8, <2>1 DEF DInv, greyVars
<1>9. CASE UNCHANGED allVars
  BY <1>1, <1>3, <1>9 DEF DInv, allVars, vars, greyVars
<1> QED
  BY <1>1, <1>4, <1>5, <1>6, <1>7, <1>8, <1>9 DEF DInv, BouncesNext

(* A step that leaves no more to spend, or no more than one period more    *)
(* for a failure, keeps the budget of a bounce.                            *)
LEMMA WithinKept ==
  ASSUME DInv, DInv', NEW b \in Bounces, Within(b),
         Spent(b)' + Units * Starts(KeyOf[b])' <= Spent(b) + Units * Starts(KeyOf[b]) + Units,
         \/ failures' = failures + 1
         \/ /\ failures' = failures
            /\ Spent(b)' + Units * Starts(KeyOf[b])' <= Spent(b) + Units * Starts(KeyOf[b]),
         lapses'[KeyOf[b]] = lapses[KeyOf[b]]
  PROVE  Within(b)'
<1> DEFINE k == KeyOf[b]
           w == Units * Size(k)
<1>1. /\ Spent(b) \in Nat /\ Units * Starts(k) \in Nat /\ Units \in Nat
      /\ w \in Nat /\ Units <= w /\ Times(k) \in Nat /\ failures \in Nat
      /\ lapses[k] \in Nat
  BY NumbersNow DEF AllNumbers, Numbers, DInv, DTypes
<1>2. Spent(b)' \in Nat /\ (Units * Starts(k))' \in Nat /\ Times(k)' \in Nat
  BY NumbersNext DEF AllNumbers, Numbers
<1>3. w' = w /\ Units' = Units
  BY DEF Size, Units, Greylist!Alike
<1>4. Times(k)' = Times(k) \/ (failures' = failures + 1 /\ Times(k)' = Times(k) + 1)
  BY <1>1 DEF Times
<1>5. Times(k)' = Times(k) => failures' = failures
  BY <1>1, <1>2 DEF Times
<1> HIDE DEF w
<1>6. CASE failures' = failures
  BY <1>1, <1>2, <1>3, <1>4, <1>6 DEF Within, w
<1>7. CASE failures' = failures + 1
  <2>1. Times(k)' = Times(k) + 1
    BY <1>1, <1>4, <1>5, <1>7
  <2>2. w * (Times(k) + 1) = w * Times(k) + w
    BY <1>1, Products
  <2>3. w * Times(k) \in Nat
    BY <1>1, Products
  <2> QED
    BY <1>1, <1>2, <1>3, <2>1, <2>2, <2>3 DEF Within, w
<1> QED
  BY <1>6, <1>7


\* The same, by the parts of what is left to spend.
LEMMA WithinParts ==
  ASSUME DInv, DInv', NEW b \in Bounces, Within(b), lapses'[KeyOf[b]] = lapses[KeyOf[b]],
         \/ /\ failures' \in {failures, failures + 1}
            /\ Spent(b)' <= Spent(b)
            /\ Starts(KeyOf[b])' <= Starts(KeyOf[b])
         \/ /\ failures' = failures + 1
            /\ Spent(b)' <= Spent(b) + 1
            /\ Starts(KeyOf[b])' <= Starts(KeyOf[b])
         \/ /\ failures' = failures + 1
            /\ Spent(b)' <= Spent(b)
            /\ Starts(KeyOf[b])' <= Starts(KeyOf[b]) + 1
         \/ /\ failures' = failures
            /\ Spent(b)' <= Spent(b) + Units
            /\ Starts(KeyOf[b])' + 1 <= Starts(KeyOf[b])
  PROVE  Within(b)'
<1> DEFINE k == KeyOf[b]
<1>1. /\ Spent(b) \in Nat /\ Starts(k) \in Nat /\ Units \in Nat /\ Units > 0
      /\ failures \in Nat /\ Units * Starts(k) \in Nat
  BY NumbersNow DEF AllNumbers, Numbers
<1>2. Spent(b)' \in Nat /\ Starts(k)' \in Nat /\ (Units * Starts(k))' \in Nat
  BY NumbersNext DEF AllNumbers, Numbers
<1>3. Units' = Units
  BY DEF Units
<1>4. /\ Starts(k)' <= Starts(k) => Units * Starts(k)' <= Units * Starts(k)
      /\ Starts(k)' <= Starts(k) + 1 => Units * Starts(k)' <= Units * Starts(k) + Units
      /\ Starts(k)' + 1 <= Starts(k) => Units * Starts(k)' + Units <= Units * Starts(k)
  <2>1. \A u, x, y \in Nat : /\ x <= y => u * x <= u * y
                             /\ x <= y + 1 => u * x <= u * y + u
                             /\ x + 1 <= y => u * x + u <= u * y
    <3>1. \A u, x, y \in Nat : x <= y => u * x <= u * y
      BY Products
    <3>2. \A u, x \in Nat : u * (x + 1) = u * x + u
      BY Products
    <3> QED
      BY <3>1, <3>2
  <2> QED
    BY <1>1, <1>2, <2>1
<1>5. Units' * Starts(k)' = Units * Starts(k)'
  BY <1>3
<1> QED
  BY <1>1, <1>2, <1>3, <1>4, <1>5, WithinKept

\* What no step of others changes.
LEMMA SpentSame ==
  ASSUME NEW b \in Bounces, first'[KeyOf[b]] = first[KeyOf[b]], clock' = clock,
         deferrals'[b] = deferrals[b], b \in waiting' <=> b \in waiting,
         greylisting'[b] = "deferring" <=> greylisting[b] = "deferring"
  PROVE  Spent(b)' = Spent(b)
  BY DEF Spent, Counted, UnitsLeft, Busy

LEMMA StartsSame ==
  ASSUME NEW k, NEW b, first'[k] = first[k], DInv, k \in Greylist!Keys,
         Setters(k)' \subseteq Setters(k) \cup {b}
  PROVE  /\ Starts(k)' <= Starts(k) + 1
         /\ Setters(k)' \subseteq Setters(k) => Starts(k)' <= Starts(k)
         /\ first[k] = Never => Starts(k)' <= Starts(k)
<1>1. /\ IsFiniteSet(Setters(k)) /\ Cardinality(Setters(k)) \in Nat
      /\ Size(k) \in Nat /\ Size(k)' = Size(k)
  BY SizesOf DEF Size, Greylist!Alike
<1>2. /\ IsFiniteSet(Setters(k) \cup {b})
      /\ Cardinality(Setters(k) \cup {b}) <= Cardinality(Setters(k)) + 1
      /\ Cardinality(Setters(k) \cup {b}) \in Nat
  <2> DEFINE S == Setters(k)
  <2>1. IsFiniteSet(S) /\ Cardinality(S) \in Nat
    BY <1>1
  <2> HIDE DEF S
  <2>2. /\ IsFiniteSet(S \cup {b})
        /\ Cardinality(S \cup {b}) \in {Cardinality(S), Cardinality(S) + 1}
    BY <2>1, FS_AddElement
  <2> QED
    BY <2>1, <2>2 DEF S
<1>3. /\ Cardinality(Setters(k)') <= Cardinality(Setters(k)) + 1
      /\ Cardinality(Setters(k)') \in Nat
  BY <1>1, <1>2, FS_Subset, FS_CardinalityType
<1>4. Setters(k)' \subseteq Setters(k) => Cardinality(Setters(k)') <= Cardinality(Setters(k))
  BY <1>1, FS_Subset
<1> QED
  BY <1>1, <1>3, <1>4 DEF Starts


\* A step of a check that sets nothing.
LEMMA CheckWithin ==
  ASSUME DInv, DInv', Budget, NEW b \in Bounces,
         bounce[b] \in {"accepted", "mapped", "emptied"},
         \/ Greylist!IpIsSpfWhitelisted(b) \/ Greylist!IpIsWhitelisted(b)
         \/ Greylist!GetVerdict(b) \/ Greylist!UpdateWhitelist(b),
         UNCHANGED attemptVars
  PROVE  Budget'
<1>1. PICK at \in {"idle", "exists", "get", "permitting"}, to \in Steps :
        /\ Greylist!Proceeds(b, at, to)
        /\ at # "get" => to \notin {"set", "deferring"}
        /\ to = "deferring" => first[KeyOf[b]] # Never /\ ~Greylist!Waited(KeyOf[b])
        /\ to = "set" => first[KeyOf[b]] = Never \/ failures' = failures + 1
  BY DEF Greylist!IpIsSpfWhitelisted, Greylist!IpIsWhitelisted, Greylist!GetVerdict,
     Greylist!UpdateWhitelist, Greylist!RedisFails, Steps, Greylist!Proceeds
<1>2. /\ failures' \in {failures, failures + 1}
      /\ UNCHANGED <<first, lapses, clock, waiting, deferrals>>
  BY DEF Greylist!IpIsSpfWhitelisted, Greylist!IpIsWhitelisted, Greylist!GetVerdict,
     Greylist!UpdateWhitelist, Greylist!RedisFails, attemptVars
<1>3. /\ greylisting[b] = at /\ greylisting'[b] = to
      /\ \A c \in Bounces \ {b} : greylisting'[c] = greylisting[c]
      /\ \A c \in Bounces : KeyOf[c] \in Greylist!Keys
  BY <1>1, KeysOf DEF DInv, WInv, WTypes, Greylist!Proceeds
<1>4. ASSUME NEW c \in Bounces PROVE Within(c)'
  <2> DEFINE k == KeyOf[c]
  <2>1. Setters(k)' \subseteq Setters(k) \cup {b}
        /\ (to # "set" => Setters(k)' \subseteq Setters(k))
        /\ (k # KeyOf[b] => Setters(k)' \subseteq Setters(k))
    BY <1>3 DEF Setters, Greylist!Alike
  <2>2. /\ Starts(k)' <= Starts(k) + 1
        /\ to # "set" \/ k # KeyOf[b] \/ first[k] = Never => Starts(k)' <= Starts(k)
    BY <1>2, <1>3, <2>1, StartsSame
  <2>3. CASE c # b \/ to # "deferring"
    <3>1. greylisting'[c] = "deferring" <=> greylisting[c] = "deferring"
      BY <1>3, <2>3
    <3>2. Spent(c)' = Spent(c) /\ Spent(c) \in Nat
      BY <1>2, <3>1, SpentSame, NumbersNow DEF AllNumbers, Numbers
    <3> QED
      BY <1>1, <1>2, <2>2, <3>2, WithinParts DEF Budget
  <2>4. CASE c = b /\ to = "deferring"
    <3>1. /\ first[k] \in Nat /\ first[k] + InitialPeriod >= clock
          /\ clock \in Nat /\ InitialPeriod \in Nat /\ deferrals[b] \in Nat
      BY <1>1, <1>3, <2>4, BouncesAssumption
         DEF DInv, WInv, WTypes, DTypes, Greylist!Waited
    <3>2. ~Busy(b) /\ Busy(b)'
      BY <1>3, <2>4 DEF Busy, DInv, DTypes
    <3>3. Counted(b)' = Counted(b) + 1 /\ Counted(b) \in Nat
      BY <1>2, <1>3, <2>4, <3>1 DEF Counted
    <3>4. UnitsLeft(b)' + 1 = UnitsLeft(b) /\ UnitsLeft(b) \in Nat /\ UnitsLeft(b)' \in Nat
      BY <1>2, <2>4, <3>1, <3>2, BouncesAssumption DEF UnitsLeft
    <3>5. Spent(c)' = Spent(c) /\ Spent(c) \in Nat
      BY <2>4, <3>3, <3>4 DEF Spent
    <3> QED
      BY <1>2, <2>2, <2>4, <3>5, WithinParts DEF Budget
  <2> QED
    BY <2>3, <2>4
<1> QED
  BY <1>4 DEF Budget

\* The first attempt is set: one who could has begun a period.
LEMMA SetWithin ==
  ASSUME DInv, DInv', Budget, NEW b \in Bounces,
         bounce[b] \in {"accepted", "mapped", "emptied"},
         Greylist!SetFirst(b), UNCHANGED attemptVars
  PROVE  Budget'
<1>1. /\ Greylist!Proceeds(b, "set", "deferring")
      /\ \/ first' = [first EXCEPT ![KeyOf[b]] = clock] /\ UNCHANGED failures
         \/ failures' = failures + 1 /\ UNCHANGED first
      /\ UNCHANGED <<lapses, clock, waiting, deferrals>>
  BY DEF Greylist!SetFirst, Greylist!RedisFails, attemptVars
<1>2. /\ greylisting[b] = "set" /\ greylisting'[b] = "deferring"
      /\ \A c \in Bounces \ {b} : greylisting'[c] = greylisting[c]
      /\ \A c \in Bounces : KeyOf[c] \in Greylist!Keys
  BY <1>1, KeysOf DEF DInv, WInv, WTypes, Greylist!Proceeds
<1>3. ASSUME NEW c \in Bounces PROVE Within(c)'
  <2> DEFINE k == KeyOf[c]
  <2>1. /\ Setters(k)' \subseteq Setters(k)
        /\ k = KeyOf[b] => b \in Setters(k) /\ Setters(k)' = Setters(k) \ {b}
    BY <1>2 DEF Setters, Greylist!Alike
  <2>2. /\ clock \in Nat /\ InitialPeriod \in Nat /\ deferrals[c] \in Nat
        /\ Spent(c) \in Nat /\ Counted(c) \in Nat /\ UnitsLeft(c) \in Nat
        /\ Starts(k) \in Nat
        /\ Units = InitialPeriod + 1
    BY NumbersNow, BouncesAssumption DEF AllNumbers, Numbers, DInv, WInv, WTypes, DTypes, Units
  <2>3. CASE failures' = failures + 1 /\ UNCHANGED first
    <3>1. Starts(k)' <= Starts(k)
      BY <1>2, <2>1, <2>3, StartsSame
    <3>2. CASE c # b
      <4>1. Spent(c)' = Spent(c)
        BY <1>1, <1>2, <2>3, <3>2, SpentSame
      <4> QED
        BY <1>1, <2>2, <2>3, <3>1, <4>1, WithinParts DEF Budget
    <3>3. CASE c = b
      <4>1. Counted(b)' = Counted(b) + 1
        BY <1>1, <1>2, <2>2, <3>3 DEF Counted
      <4>2. UnitsLeft(b)' <= UnitsLeft(b) /\ UnitsLeft(b)' \in Nat
        <5>1. Busy(b)'
          BY <1>2 DEF Busy
        <5>2. first[k] = Never \/ first[k] \in Nat
          BY <1>2 DEF DInv, WInv, WTypes
        <5> QED
          BY <1>1, <2>2, <2>3, <3>3, <5>1, <5>2 DEF UnitsLeft
      <4>3. Spent(c)' <= Spent(c) + 1
        BY <2>2, <3>3, <4>1, <4>2 DEF Spent
      <4> QED
        BY <1>1, <2>3, <3>1, <4>3, WithinParts DEF Budget
    <3> QED
      BY <3>2, <3>3
  <2>4. CASE first' = [first EXCEPT ![KeyOf[b]] = clock] /\ UNCHANGED failures
    <3>1. CASE k # KeyOf[b]
      <4>1. first'[k] = first[k] /\ c # b
        BY <2>4, <3>1 DEF DInv, WInv, WTypes
      <4>2. Spent(c)' = Spent(c)
        BY <1>1, <1>2, <4>1, SpentSame
      <4>3. Starts(k)' <= Starts(k)
        BY <1>2, <2>1, <4>1, StartsSame
      <4> QED
        BY <1>1, <2>2, <2>4, <4>2, <4>3, WithinParts DEF Budget
    <3>2. CASE k = KeyOf[b]
      <4>1. first'[k] = clock /\ first'[k] # Never
        BY <1>2, <2>2, <2>4, <3>2, BouncesAssumption DEF DInv, WInv, WTypes
      <4>2. Starts(k)' + 1 <= Starts(k)
        <5>1. /\ IsFiniteSet(Setters(k)) /\ Cardinality(Setters(k)) \in Nat
              /\ Cardinality(Setters(k)) <= Size(k) /\ Size(k) \in Nat
          BY SizesOf
        <5>2. Cardinality(Setters(k)') = Cardinality(Setters(k)) - 1
          BY <2>1, <3>2, <5>1, FS_RemoveElement
        <5>3. Starts(k)' = Cardinality(Setters(k)')
          BY <4>1 DEF Starts
        <5>4. Starts(k) >= Cardinality(Setters(k))
          BY <5>1 DEF Starts
        <5> QED
          BY <5>1, <5>2, <5>3, <5>4, <2>2
      <4>3. UnitsLeft(c)' = InitialPeriod + IF Busy(c)' THEN 0 ELSE 1
        BY <1>1, <2>2, <4>1 DEF UnitsLeft
      <4>4. Counted(c)' + (IF Busy(c)' THEN 0 ELSE 1) <= Counted(c) + 1
            /\ Counted(c)' \in Nat
        BY <1>1, <1>2, <2>2 DEF Counted, Busy
      <4>5. Spent(c)' <= Spent(c) + Units
        BY <2>2, <4>3, <4>4 DEF Spent
      <4> QED
        BY <1>1, <2>4, <4>2, <4>5, WithinParts DEF Budget
    <3> QED
      BY <3>1, <3>2
  <2> QED
    BY <1>1, <2>3, <2>4
<1> QED
  BY <1>3 DEF Budget

\* An answer: what was counted in advance is counted, or never will be.
LEMMA AnswerWithin ==
  ASSUME DInv, DInv', Budget, NEW b \in Bounces, GetVerdict(b)
  PROVE  Budget'
<1>1. PICK deferred \in BOOLEAN :
        /\ deferred => greylisting[b] = "deferring"
        /\ Answer(b, deferred)
        /\ IF deferred
           THEN /\ waiting' = waiting \cup {b}
                /\ deferrals' = [deferrals EXCEPT ![b] = @ + 1]
           ELSE UNCHANGED attemptVars
  BY DEF GetVerdict
<1>2. /\ UNCHANGED <<first, lapses, clock, failures>>
      /\ greylisting[b] \in {"permit", "deferring"}
      /\ greylisting' = [greylisting EXCEPT ![b] = "idle"]
  BY <1>1 DEF GetVerdict, Answer, Greylist!Again, Greylist!Said
<1>3. /\ greylisting'[b] = "idle"
      /\ \A c \in Bounces \ {b} : greylisting'[c] = greylisting[c]
      /\ \A c \in Bounces : KeyOf[c] \in Greylist!Keys
  BY <1>2, KeysOf DEF DInv, WInv, WTypes
<1>4. b \notin waiting
  BY <1>1 DEF Answer, DInv, DTypes
<1>5. ASSUME NEW c \in Bounces PROVE Within(c)'
  <2> DEFINE k == KeyOf[c]
  <2>1. Setters(k)' \subseteq Setters(k)
    BY <1>2, <1>3 DEF Setters, Greylist!Alike
  <2>2. Starts(k)' <= Starts(k)
    BY <1>2, <1>3, <2>1, StartsSame
  <2>3. /\ deferrals[c] \in Nat /\ Counted(c) \in Nat /\ UnitsLeft(c) \in Nat
        /\ Spent(c) \in Nat /\ failures \in Nat
    BY NumbersNow DEF AllNumbers, Numbers, DInv, DTypes
  <2>4. UnitsLeft(c)' \in Nat
    BY NumbersNext DEF AllNumbers, Numbers
  <2>5. Spent(c)' <= Spent(c)
    <3>1. CASE c # b \/ (c = b /\ greylisting[b] = "permit")
      <4>1. /\ deferrals'[c] = deferrals[c] /\ (c \in waiting' <=> c \in waiting)
            /\ greylisting'[c] = "deferring" <=> greylisting[c] = "deferring"
        BY <1>1, <1>3, <3>1 DEF DInv, DTypes, attemptVars
      <4> QED
        BY <1>2, <2>3, <4>1, SpentSame
    <3>2. CASE c = b /\ greylisting[b] = "deferring" /\ deferred
      <4>1. Counted(b)' = Counted(b)
        BY <1>1, <1>3, <2>3, <3>2 DEF Counted, DInv, DTypes
      <4>2. Busy(b) /\ Busy(b)'
        BY <1>1, <3>2 DEF Busy
      <4>3. UnitsLeft(b)' = UnitsLeft(b)
        BY <1>2, <4>2 DEF UnitsLeft
      <4> QED
        BY <2>3, <3>2, <4>1, <4>3 DEF Spent
    <3>3. CASE c = b /\ greylisting[b] = "deferring" /\ ~deferred
      <4>1. Counted(b)' + 1 = Counted(b) /\ Counted(b)' \in Nat
        BY <1>1, <1>3, <2>3, <3>3 DEF Counted, attemptVars
      <4>2. UnitsLeft(b)' <= UnitsLeft(b) + 1
        <5>1. Busy(b)
          BY <3>3 DEF Busy
        <5>2. /\ first[k] = Never \/ first[k] \in Nat
              /\ clock \in Nat /\ InitialPeriod \in Nat
          BY <1>3, BouncesAssumption DEF DInv, WInv, WTypes
        <5> QED
          BY <1>2, <3>3, <5>1, <5>2 DEF UnitsLeft
      <4> QED
        BY <2>3, <2>4, <3>3, <4>1, <4>2 DEF Spent
    <3> QED
      BY <1>2, <3>1, <3>2, <3>3
  <2> QED
    BY <1>2, <2>2, <2>5, WithinParts DEF Budget
<1> QED
  BY <1>5 DEF Budget

\* Time passes: a period that Redis forgets makes room for others.
LEMMA PassWithin ==
  ASSUME DInv, DInv', Budget, Pass
  PROVE  Budget'
<1>1. /\ clock' = clock + 1 /\ UNCHANGED <<deferrals, greylisting, failures>>
      /\ waiting' = {}
      /\ Greylist!Forget(clock')
  BY DEF Pass, Tick, Greylist!Forget
<1>2. ASSUME NEW c \in Bounces PROVE Within(c)'
  <2> DEFINE k == KeyOf[c]
             w == Units * Size(k)
  <2>1. k \in Greylist!Keys
    BY KeysOf
  <2>2. \/ first'[k] = Never /\ lapses'[k] = lapses[k] + 1
        \/ first'[k] = first[k] /\ lapses'[k] = lapses[k]
    BY <1>1, <2>1 DEF Greylist!Forget
  <2>3. /\ first[k] = Never \/ first[k] \in Nat
        /\ clock \in Nat /\ InitialPeriod \in Nat /\ failures \in Nat /\ lapses[k] \in Nat
        /\ Counted(c) \in Nat /\ UnitsLeft(c) \in Nat /\ Spent(c) \in Nat
        /\ Units * Starts(k) \in Nat /\ Units \in Nat /\ w \in Nat
        /\ Times(k) \in Nat
    BY <2>1, NumbersNow, BouncesAssumption
       DEF AllNumbers, Numbers, DInv, WInv, WTypes, DTypes
  <2>4. Counted(c)' = Counted(c)
    BY <1>1 DEF Counted
  <2>5. Setters(k)' = Setters(k) /\ Size(k)' = Size(k)
    BY <1>1 DEF Setters, Size, Greylist!Alike
  <2>6. CASE first'[k] = Never /\ lapses'[k] = lapses[k] + 1
    <3>1. UnitsLeft(c)' = 0
      BY <2>6 DEF UnitsLeft
    <3>2. Spent(c)' <= Spent(c) /\ Spent(c)' \in Nat
      BY <2>3, <2>4, <3>1 DEF Spent
    <3>3. Units' * Starts(k)' = w
      BY <2>5, <2>6 DEF Starts, Units
    <3>4. Times(k)' = Times(k) + 1
      BY <1>1, <2>3, <2>6 DEF Times
    <3>5. w * (Times(k) + 1) = w * Times(k) + w /\ w * Times(k) \in Nat
      BY <2>3, Products
    <3>6. Spent(c) + Units * Starts(k) <= w * Times(k)
      BY DEF Budget, Within
    <3>7. Spent(c)' + w <= w * (Times(k) + 1)
      <4> HIDE DEF w
      <4> QED
        BY <2>3, <3>2, <3>5, <3>6
    <3>8. (Units * Size(k))' = w
      BY <2>5 DEF Units
    <3> QED
      BY <3>3, <3>4, <3>7, <3>8 DEF Within
  <2>7. CASE first'[k] = first[k] /\ lapses'[k] = lapses[k]
    <3>1. UnitsLeft(c)' <= UnitsLeft(c) /\ UnitsLeft(c)' \in Nat
      <4>1. Busy(c)' => Busy(c)
        BY <1>1 DEF Busy
      <4> QED
        BY <1>1, <2>3, <2>7, <4>1, BouncesAssumption DEF UnitsLeft
    <3>2. Spent(c)' <= Spent(c)
      BY <2>3, <2>4, <3>1 DEF Spent
    <3>3. Starts(k)' <= Starts(k)
      BY <2>1, <2>5, <2>7, StartsSame
    <3> QED
      BY <1>1, <2>7, <3>2, <3>3, WithinParts DEF Budget
  <2> QED
    BY <2>2, <2>6, <2>7
<1> QED
  BY <1>2 DEF Budget

\* What greylisting has no part in costs at most a failure.
LEMMA OtherWithin ==
  ASSUME DInv, DInv', Budget, UNCHANGED <<greyVars, attemptVars, clock>>,
         failures' \in {failures, failures + 1}
  PROVE  Budget'
<1> SUFFICES ASSUME NEW c \in Bounces PROVE Within(c)'
  BY DEF Budget
<1>1. UNCHANGED <<greylisting, first, lapses, waiting, deferrals, clock>>
  BY DEF greyVars, attemptVars
<1>2. Spent(c)' = Spent(c) /\ Spent(c) \in Nat /\ KeyOf[c] \in Greylist!Keys
  BY <1>1, SpentSame, NumbersNow DEF AllNumbers, Numbers
<1>3. Setters(KeyOf[c])' \subseteq Setters(KeyOf[c])
  BY <1>1 DEF Setters
<1>4. Starts(KeyOf[c])' <= Starts(KeyOf[c])
  BY <1>1, <1>2, <1>3, StartsSame
<1> QED
  BY <1>1, <1>2, <1>4, WithinParts DEF Budget

LEMMA InitBudget == BouncesInit => Budget
<1> SUFFICES ASSUME BouncesInit, NEW b \in Bounces PROVE Within(b)
  BY DEF Budget
<1> DEFINE k == KeyOf[b]
           w == Units * Size(k)
<1>1. /\ first[k] = Never /\ deferrals[b] = 0 /\ greylisting[b] = "idle"
      /\ failures = 0 /\ lapses[k] = 0
  BY KeysOf DEF BouncesInit, Init, Greylist!GreyInit
<1>2. w \in Nat
  BY InitDInv, NumbersNow DEF AllNumbers, Numbers
<1>3. Spent(b) = 0 /\ Starts(k) = Size(k) /\ Times(k) = 1
  BY <1>1 DEF Spent, Counted, UnitsLeft, Starts, Times
<1>4. 0 + w <= w * 1
  <2> HIDE DEF w
  <2> QED
    BY <1>2
<1> QED
  BY <1>3, <1>4 DEF Within

LEMMA BudgetStep == DInv /\ DInv' /\ Budget /\ [BouncesNext]_allVars => Budget'
<1> SUFFICES ASSUME DInv, DInv', Budget, [BouncesNext]_allVars PROVE Budget'
  OBVIOUS
<1>1. CASE (Check \/ Leave \/ Persist \/ Crash \/ Ended) /\ UNCHANGED <<greyVars, attemptVars>>
  BY <1>1, OtherWithin DEF Check, Leave, Persist, Crash, Ended, vars, RedisFails
<1>2. ASSUME NEW b \in Bounces, Try(b) PROVE Budget'
  BY <1>2, OtherWithin DEF Try, RecipientCheck, LookupAddress, RedisFails
<1>3. ASSUME NEW b \in Bounces, ChecksOf(b) PROVE Budget'
  <2>1. CASE SwapRecipients(b) /\ UNCHANGED greyVars
    BY <1>3, <2>1, OtherWithin DEF ChecksOf, SwapRecipients, LookupAddress, RedisFails
  <2>2. CASE bounce[b] \in {"accepted", "mapped", "emptied"} /\ Greylist!MessageCheck(b)
    BY <1>3, <2>2, CheckWithin, SetWithin DEF ChecksOf, Greylist!MessageCheck
  <2> QED
    BY <1>3, <2>1, <2>2 DEF ChecksOf
<1>4. ASSUME NEW b \in Bounces, GetVerdict(b) PROVE Budget'
  BY <1>4, AnswerWithin
<1>5. CASE Pass
  BY <1>5, PassWithin
<1>6. CASE UNCHANGED allVars
  BY <1>6, OtherWithin DEF allVars, vars
<1> QED
  BY <1>1, <1>2, <1>3, <1>4, <1>5, <1>6 DEF BouncesNext

\* What was deferred has been paid for.
LEMMA BudgetBounds == DInv /\ Budget => DeferralsBounded
<1> SUFFICES ASSUME DInv, Budget, NEW b \in Bounces
             PROVE  deferrals[b] <= Greylist!DeferralsAllowed(b)
  BY DEF DeferralsBounded
<1> DEFINE k == KeyOf[b]
           most == (Units * Size(k)) * Times(k)
<1>1. /\ UnitsLeft(b) \in Nat /\ deferrals[b] \in Nat /\ Units * Starts(k) \in Nat
      /\ Units * Size(k) \in Nat /\ Times(k) \in Nat
  BY NumbersNow DEF AllNumbers, Numbers, DInv, DTypes
<1>2. most \in Nat
  BY <1>1, Products
<1>3. Spent(b) + Units * Starts(k) <= most
  BY DEF Budget, Within
<1>4. deferrals[b] <= most
  <2> HIDE DEF most
  <2> QED
    BY <1>1, <1>2, <1>3 DEF Spent, Counted
<1>5. most = Greylist!DeferralsAllowed(b)
  <2>1. Size(k) = Greylist!Cardinality(Greylist!Alike(k))
    BY DEF Size, Cardinality, Greylist!Cardinality
  <2> QED
    BY <2>1 DEF Greylist!DeferralsAllowed, Units, Times
<1> QED
  BY <1>4, <1>5

(* Greylisting defers no bounce for ever (getVerdict): for any number of   *)
(* bounces, alike or not, any periods and any number of failures, a bounce *)
(* is deferred at most once in each unit of a period, for each bounce that *)
(* can overwrite the first attempt, and as often again for each failure of *)
(* Redis and each time that it has forgotten the first attempt.            *)
THEOREM DeferralsCorrect == BouncesSpec => []DeferralsBounded
<1>1. BouncesInit => DInv /\ Budget
  BY InitDInv, InitBudget
<1>2. (DInv /\ Budget) /\ [BouncesNext]_allVars => (DInv /\ Budget)'
  BY StepDInv, BudgetStep
<1> QED
  BY <1>1, <1>2, BudgetBounds, PTL DEF BouncesSpec
-----------------------------------------------------------------------------
(* Sender rewriting.  The loops of getRewriteDomain, round by round.       *)

LEMMA Induction ==
  ASSUME NEW n \in Nat, NEW T, 0 \in T, \A m \in 0 .. n - 1 : m \in T => m + 1 \in T
  PROVE  0 .. n \subseteq T
<1> DEFINE B == {m \in 0 .. n : m \notin T}
           U == {1 .. m : m \in B}
           R == StrictSubsetOrdering(1 .. n)
<1>1. SUFFICES ASSUME B # {} PROVE FALSE
  OBVIOUS
<1>2. IsWellFoundedOn(R, SUBSET (1 .. n))
  <2>1. IsFiniteSet(1 .. n)
    BY FS_Interval
  <2> QED
    BY <2>1, FS_StrictSubsetOrderingWellFounded, FS_FiniteSubsetsOfFinite
<1>3. U \subseteq SUBSET (1 .. n) /\ U # {}
  <2>1. \A m \in B : 1 .. m \in SUBSET (1 .. n)
    OBVIOUS
  <2> QED
    BY <1>1, <2>1
<1>4. PICK L \in U : \A K \in U : <<K, L>> \notin R
  <2> HIDE DEF U, R
  <2> QED
    BY <1>2, <1>3, WFMin
<1>5. PICK m \in B : L = 1 .. m
  OBVIOUS
<1>6. m \in 1 .. n /\ m - 1 \in 0 .. n - 1 /\ (m - 1) + 1 = m /\ m \notin T
  OBVIOUS
<1>7. m - 1 \notin T
  BY <1>6
<1>8. m - 1 \in B
  BY <1>6, <1>7
<1>9. 1 .. m - 1 \subseteq 1 .. m /\ m \in 1 .. m /\ m \notin 1 .. m - 1 /\ 1 .. m \subseteq 1 .. n
  BY <1>6
<1>10. <<1 .. m - 1, 1 .. m>> \in R
  BY <1>9 DEF StrictSubsetOrdering
<1> QED
  BY <1>4, <1>5, <1>8, <1>10

LEMMA Initials ==
  /\ 1 .. 0 = {}
  /\ \A m \in Nat :
       /\ (1 .. m + 1) \ {m + 1} = 1 .. m /\ 1 .. m + 1 # {} /\ Max(1 .. m + 1) = m + 1
       /\ \A s \in SUBSET (1 .. m + 1) : m + 1 \in s =>
            Max(s) = m + 1 /\ s # {} /\ s \ {m + 1} \in SUBSET (1 .. m)
       /\ \A s \in SUBSET (1 .. m + 1) : m + 1 \notin s => s \in SUBSET (1 .. m)
<1>1. 1 .. 0 = {}
  OBVIOUS
<1>2. ASSUME NEW m \in Nat, NEW s \in SUBSET (1 .. m + 1), m + 1 \in s
      PROVE  Max(s) = m + 1 /\ s # {} /\ s \ {m + 1} \in SUBSET (1 .. m)
  <2>1. \A y \in s : y \in Int /\ m + 1 >= y
    BY <1>2
  <2>2. \A x \in s : (\A y \in s : x >= y) => x = m + 1
    BY <1>2, <2>1
  <2>3. Max(s) = m + 1
    BY <1>2, <2>1, <2>2 DEF Max
  <2> QED
    BY <1>2, <2>3
<1>3. ASSUME NEW m \in Nat
      PROVE  (1 .. m + 1) \ {m + 1} = 1 .. m /\ 1 .. m + 1 # {} /\ m + 1 \in 1 .. m + 1
  OBVIOUS
<1>4. ASSUME NEW m \in Nat, NEW s \in SUBSET (1 .. m + 1), m + 1 \notin s
      PROVE  s \in SUBSET (1 .. m)
  BY <1>4
<1>5. ASSUME NEW m \in Nat PROVE Max(1 .. m + 1) = m + 1
  BY <1>2, <1>3
<1> QED
  BY <1>1, <1>2, <1>3, <1>4, <1>5

\* A round of the inner loop, or of the outer one.
Round(loop, acc, x, d) == IF loop = "inner" THEN MoveDown(acc, x, d) ELSE RemoveAll(acc, x)

Rounds(h, loop, n, acc, seq, d) ==
  h = [s \in SUBSET (1 .. n) |->
         IF s = {} THEN acc ELSE Round(loop, h[s \ {Max(s)}], seq[Max(s)], d)]

LEMMA RoundsExist ==
  ASSUME NEW loop, NEW n \in Nat, NEW acc, NEW seq, NEW d
  PROVE  \E h : Rounds(h, loop, n, acc, seq, d)
<1> DEFINE T == {m \in 0 .. n : \E h : Rounds(h, loop, m, acc, seq, d)}
<1>1. 0 \in T
  <2>1. SUBSET (1 .. 0) = {{}}
    BY Initials
  <2>2. Rounds([s \in SUBSET (1 .. 0) |-> acc], loop, 0, acc, seq, d)
    BY <2>1 DEF Rounds
  <2> QED
    BY <2>2
<1>2. ASSUME NEW m \in 0 .. n - 1, m \in T PROVE m + 1 \in T
  <2>1. PICK h : Rounds(h, loop, m, acc, seq, d)
    BY <1>2
  <2>5. \A s \in SUBSET (1 .. m + 1) :
          /\ m + 1 \in s => Max(s) = m + 1 /\ s # {} /\ s \ {m + 1} \in SUBSET (1 .. m)
          /\ m + 1 \notin s => s \in SUBSET (1 .. m)
    <3>1. m \in Nat
      OBVIOUS
    <3> HIDE DEF T
    <3> QED
      BY <3>1, Initials
  <2> DEFINE g == [s \in SUBSET (1 .. m + 1) |->
                     IF m + 1 \in s THEN Round(loop, h[s \ {m + 1}], seq[m + 1], d) ELSE h[s]]
             next == [s \in SUBSET (1 .. m + 1) |->
                        IF s = {} THEN acc ELSE Round(loop, g[s \ {Max(s)}], seq[Max(s)], d)]
  <2>2. ASSUME NEW s \in SUBSET (1 .. m + 1) PROVE g[s] = next[s]
    <3>1. CASE m + 1 \in s
      <4>1. Max(s) = m + 1 /\ s # {} /\ s \ {m + 1} \in SUBSET (1 .. m)
        BY <2>5, <3>1
      <4>2. s \ {m + 1} \in SUBSET (1 .. m + 1) /\ m + 1 \notin s \ {m + 1}
        BY <4>1
      <4>3. g[s \ {m + 1}] = h[s \ {m + 1}]
        BY <4>2
      <4>4. g[s] = Round(loop, h[s \ {m + 1}], seq[m + 1], d)
        BY <3>1
      <4> QED
        BY <4>1, <4>3, <4>4
    <3>2. CASE m + 1 \notin s
      <4>1. s \in SUBSET (1 .. m)
        BY <2>5, <3>2
      <4>2. g[s] = h[s] /\ g[s \ {Max(s)}] = h[s \ {Max(s)}]
        BY <3>2, <4>1
      <4>3. h[s] = IF s = {} THEN acc ELSE Round(loop, h[s \ {Max(s)}], seq[Max(s)], d)
        BY <2>1, <4>1 DEF Rounds
      <4> QED
        BY <4>2, <4>3
    <3> QED
      BY <3>1, <3>2
  <2>3. g = next
    <3>1. g = [s \in SUBSET (1 .. m + 1) |-> g[s]] /\ next = [s \in SUBSET (1 .. m + 1) |-> next[s]]
      OBVIOUS
    <3> HIDE DEF g, next
    <3> QED
      BY <2>2, <3>1
  <2> HIDE DEF g
  <2>4. Rounds(g, loop, m + 1, acc, seq, d)
    BY <2>3 DEF Rounds
  <2> QED
    BY <2>4
<1> HIDE DEF T
<1>3. n \in T
  BY <1>1, <1>2, Induction
<1> QED
  BY <1>3 DEF T

\* Such a function, on the initial segments, is a sequence of rounds.
AreRounds(h, loop, n, acc, seq, d) ==
  /\ h[1 .. 0] = acc
  /\ \A k \in 0 .. n - 1 : h[1 .. k + 1] = Round(loop, h[1 .. k], seq[k + 1], d)

LEMMA RoundValues ==
  ASSUME NEW loop, NEW n \in Nat, NEW acc, NEW seq, NEW d, NEW h,
         Rounds(h, loop, n, acc, seq, d)
  PROVE  AreRounds(h, loop, n, acc, seq, d)
<1>1. h[1 .. 0] = acc
  BY Initials DEF Rounds
<1>2. ASSUME NEW k \in 0 .. n - 1
      PROVE  h[1 .. k + 1] = Round(loop, h[1 .. k], seq[k + 1], d)
  <2>1. 1 .. k + 1 \in SUBSET (1 .. n) /\ k \in Nat
    OBVIOUS
  <2>2. 1 .. k + 1 # {} /\ Max(1 .. k + 1) = k + 1 /\ (1 .. k + 1) \ {k + 1} = 1 .. k
    BY <2>1, Initials
  <2> QED
    BY <2>1, <2>2 DEF Rounds
<1> QED
  BY <1>1, <1>2, Zenon DEF AreRounds

Folded(loop, n, acc, seq, d) == (CHOOSE h : Rounds(h, loop, n, acc, seq, d))[1 .. n]

\* A fold is the last of a sequence of rounds.
IsOfRounds(loop, n, acc, seq, d) ==
  \E v : /\ v[0] = acc
         /\ \A k \in 0 .. n - 1 : v[k + 1] = Round(loop, v[k], seq[k + 1], d)
         /\ Folded(loop, n, acc, seq, d) = v[n]

LEMMA FoldedRounds ==
  ASSUME NEW loop, NEW n \in Nat, NEW acc, NEW seq, NEW d
  PROVE  IsOfRounds(loop, n, acc, seq, d)
<1> DEFINE it == CHOOSE h : Rounds(h, loop, n, acc, seq, d)
<1>1. Rounds(it, loop, n, acc, seq, d)
  BY RoundsExist
<1> HIDE DEF it
<1>2. /\ it[1 .. 0] = acc
      /\ \A k \in 0 .. n - 1 : it[1 .. k + 1] = Round(loop, it[1 .. k], seq[k + 1], d)
  <2>1. AreRounds(it, loop, n, acc, seq, d)
    BY <1>1, RoundValues
  <2> QED
    BY <2>1, Zenon DEF AreRounds
<1> DEFINE v == [k \in 0 .. n |-> it[1 .. k]]
<1>3. /\ v[0] = it[1 .. 0] /\ v[n] = it[1 .. n]
      /\ \A k \in 0 .. n - 1 : v[k] = it[1 .. k] /\ v[k + 1] = it[1 .. k + 1]
  OBVIOUS
<1> HIDE DEF v
<1>4. Folded(loop, n, acc, seq, d) = v[n]
  BY <1>3, Zenon DEF it, Folded
<1>5. \A k \in 0 .. n - 1 : v[k + 1] = Round(loop, v[k], seq[k + 1], d)
  BY <1>2, <1>3
<1> QED
  BY <1>2, <1>3, <1>4, <1>5, Zenon DEF IsOfRounds

LEMMA RemoveAllRounds ==
  ASSUME NEW acc, acc.len \in Nat, NEW d
  PROVE  \E v : /\ v[0] = acc
                /\ \A k \in 0 .. acc.len - 1 : v[k + 1] = MoveDown(v[k], k + 1, d)
                /\ RemoveAll(acc, d) = v[acc.len]
<1> DEFINE n == acc.len
           seq == [k \in 1 .. n |-> k]
<1> DEFINE inner == "inner"
<1>1. RemoveAll(acc, d) = Folded(inner, n, acc, seq, d)
  <2>1. RemoveAll(acc, d) = (CHOOSE h : Rounds(h, inner, n, acc, seq, d))[DOMAIN seq]
    BY DEF RemoveAll, FoldLeft, MapThenFoldSet, Rounds, Round
  <2>2. DOMAIN seq = 1 .. n
    OBVIOUS
  <2> QED
    BY <2>1, <2>2, Zenon DEF Folded
<1>2. DOMAIN seq = 1 .. n /\ \A k \in 0 .. n - 1 : seq[k + 1] = k + 1
  OBVIOUS
<1> HIDE DEF seq, inner
<1>3. PICK v : /\ v[0] = acc
               /\ \A k \in 0 .. n - 1 : v[k + 1] = Round(inner, v[k], seq[k + 1], d)
               /\ Folded(inner, n, acc, seq, d) = v[n]
  <2>1. IsOfRounds(inner, n, acc, seq, d)
    BY FoldedRounds
  <2> QED
    BY <2>1, Zenon DEF IsOfRounds
<1> QED
  BY <1>1, <1>2, <1>3 DEF Round, inner

\* The outer loop, over the domains ds of the recipients.
RewriteFold(acc, ds) == FoldLeft(RemoveAll, acc, ds)

LEMMA RewriteRounds ==
  ASSUME NEW acc, NEW n \in Nat, NEW ds, DOMAIN ds = 1 .. n
  PROVE  \E v : /\ v[0] = acc
                /\ \A k \in 0 .. n - 1 : v[k + 1] = RemoveAll(v[k], ds[k + 1])
                /\ RewriteFold(acc, ds) = v[n]
<1>1. ASSUME NEW outer, outer = "outer", NEW d
      PROVE  \E v : /\ v[0] = acc
                    /\ \A k \in 0 .. n - 1 : v[k + 1] = RemoveAll(v[k], ds[k + 1])
                    /\ RewriteFold(acc, ds) = v[n]
  <2>1. RewriteFold(acc, ds) = Folded(outer, n, acc, ds, d)
    <3>1. RewriteFold(acc, ds) = (CHOOSE h : Rounds(h, outer, n, acc, ds, d))[DOMAIN ds]
      BY <1>1 DEF RewriteFold, FoldLeft, MapThenFoldSet, Rounds, Round
    <3> QED
      BY <3>1, Zenon DEF Folded
  <2>2. PICK v : /\ v[0] = acc
                 /\ \A k \in 0 .. n - 1 : v[k + 1] = Round(outer, v[k], ds[k + 1], d)
                 /\ Folded(outer, n, acc, ds, d) = v[n]
    <3>1. IsOfRounds(outer, n, acc, ds, d)
      BY FoldedRounds
    <3> QED
      BY <3>1, Zenon DEF IsOfRounds
  <2>3. \A k \in 0 .. n - 1 : v[k + 1] = RemoveAll(v[k], ds[k + 1])
    BY <1>1, <2>2 DEF Round
  <2> QED
    BY <2>1, <2>2, <2>3
<1> QED
  BY <1>1, Zenon

\* What is left of N domains.
Lefts(N) == [array : [1 .. N -> Domains], len : 0 .. N, panicked : {FALSE}]

\* Of domains that differ, the inner loop removes at most one.
LEMMA RemoveAllFacts ==
  ASSUME NEW N \in Nat, NEW acc \in Lefts(N), NEW d,
         \A i, j \in 1 .. acc.len : acc.array[i] = acc.array[j] => i = j
  PROVE  /\ RemoveAll(acc, d) \in Lefts(N)
         /\ \/ RemoveAll(acc, d) = acc /\ \A k \in 1 .. acc.len : acc.array[k] # d
            \/ \E p \in 1 .. acc.len :
                 /\ acc.array[p] = d
                 /\ RemoveAll(acc, d).len = acc.len - 1
                 /\ \A j \in 1 .. acc.len - 1 :
                      RemoveAll(acc, d).array[j] = IF j < p THEN acc.array[j] ELSE acc.array[j + 1]
<1> DEFINE n == acc.len
           a == acc.array
<1>1. n \in 0 .. N /\ n \in Nat /\ a \in [1 .. N -> Domains] /\ acc.panicked = FALSE
  <2>1. acc.panicked = FALSE
    BY Zenon DEF Lefts
  <2>2. acc.len \in 0 .. N /\ acc.array \in [1 .. N -> Domains]
    BY Zenon DEF Lefts
  <2> QED
    BY <2>1, <2>2
<1>2. PICK v : /\ v[0] = acc
               /\ \A k \in 0 .. n - 1 : v[k + 1] = MoveDown(v[k], k + 1, d)
               /\ RemoveAll(acc, d) = v[n]
  BY <1>1, RemoveAllRounds
<1>3. CASE \A k \in 1 .. n : a[k] # d
  <2> DEFINE T == {k \in 0 .. n : v[k] = acc}
  <2>1. 0 \in T
    BY <1>1, <1>2
  <2>2. ASSUME NEW k \in 0 .. n - 1, k \in T PROVE k + 1 \in T
    <3>1. k + 1 \in 1 .. n /\ k + 1 \in 0 .. n /\ a[k + 1] # d
      BY <1>1, <1>3
    <3>2. MoveDown(acc, k + 1, d) = acc
      BY <1>1, <3>1 DEF MoveDown
    <3> QED
      BY <1>2, <2>2, <3>1, <3>2
  <2>3. n \in T
    <3>1. n \in Nat /\ n \in 0 .. n
      BY <1>1
    <3> HIDE DEF T, n
    <3>2. \A k \in 0 .. n - 1 : k \in T => k + 1 \in T
      BY <2>2
    <3>3. 0 .. n \subseteq T
      BY ONLY <2>1, <3>1, <3>2, Induction
    <3> QED
      BY <3>1, <3>3
  <2>4. RemoveAll(acc, d) = acc
    BY <1>2, <2>3 DEF T
  <2> QED
    BY <1>3, <2>4
<1>4. ASSUME NEW p \in 1 .. n, a[p] = d
      PROVE  /\ RemoveAll(acc, d) \in Lefts(N)
             /\ RemoveAll(acc, d).len = n - 1
             /\ \A j \in 1 .. n - 1 :
                  RemoveAll(acc, d).array[j] = IF j < p THEN a[j] ELSE a[j + 1]
  <2> DEFINE b == [j \in 1 .. N |-> IF p <= j /\ j < n THEN a[j + 1] ELSE a[j]]
             left == [acc EXCEPT !.array = b, !.len = n - 1]
             T == {k \in 0 .. n : v[k] = IF k < p THEN acc ELSE left}
  <2>1. 0 \in T
    BY <1>1, <1>2
  <2>2. /\ left.array = b /\ left.len = n - 1 /\ left.panicked = FALSE
        /\ b \in [1 .. N -> Domains] /\ left \in Lefts(N)
    <3>1. b \in [1 .. N -> Domains]
      BY <1>1
    <3>2. n - 1 \in 0 .. N
      BY <1>1
    <3> HIDE DEF b, n
    <3> QED
      BY <3>1, <3>2 DEF Lefts
  <2>3. ASSUME NEW k \in 0 .. n - 1, k \in T PROVE k + 1 \in T
    <3>1. k + 1 \in 1 .. n /\ k + 1 \in 0 .. n /\ k + 1 \in 1 .. N /\ k \in Nat
      BY <1>1
    <3>2. CASE k + 1 < p
      <4>1. a[k + 1] # d
        BY <1>1, <1>4, <3>1, <3>2
      <4>2. MoveDown(acc, k + 1, d) = acc
        BY <1>1, <4>1 DEF MoveDown
      <4>3. k < p
        BY <1>1, <3>1, <3>2
      <4> QED
        BY <1>2, <2>3, <3>1, <3>2, <4>2, <4>3
    <3>3. CASE k + 1 = p
      <4>1. v[k] = acc
        BY <2>3, <3>1, <3>3
      <4>2. a[k + 1] = d /\ ~(k + 1 > n)
        BY <1>1, <1>4, <3>1, <3>3
      <4>3. DOMAIN a = 1 .. N
        BY <1>1
      <4>4. MoveDown(acc, k + 1, d) =
              [acc EXCEPT !.array = [j \in DOMAIN @ |->
                                       IF k + 1 <= j /\ j < acc.len THEN @[j + 1] ELSE @[j]],
                          !.len = @ - 1]
        BY <1>1, <4>2 DEF MoveDown
      <4>5. MoveDown(acc, k + 1, d) = left
        BY <3>3, <4>3, <4>4
      <4> QED
        BY <1>1, <1>2, <3>1, <3>3, <4>1, <4>5
    <3>4. CASE k + 1 > p
      <4>1. v[k] = left
        BY <1>1, <2>3, <3>1, <3>4
      <4>2. b[k + 1] # d
        <5>1. CASE k + 1 < n
          <6>1. b[k + 1] = a[k + 2] /\ k + 2 \in 1 .. n /\ k + 2 # p
            BY <1>1, <3>1, <3>4, <5>1
          <6> HIDE DEF b
          <6> QED
            BY <1>1, <1>4, <6>1
        <5>2. CASE k + 1 = n
          <6>1. b[k + 1] = a[k + 1] /\ k + 1 # p
            BY <1>1, <3>1, <3>4, <5>2
          <6> HIDE DEF b
          <6> QED
            BY <1>1, <1>4, <3>1, <6>1
        <5> QED
          BY <1>1, <3>1, <5>1, <5>2
      <4> HIDE DEF b, left
      <4>3. MoveDown(left, k + 1, d) = left
        BY <2>2, <4>2 DEF MoveDown
      <4>4. ~(k + 1 < p)
        BY <1>1, <3>1, <3>4
      <4> QED
        BY <1>2, <3>1, <4>1, <4>3, <4>4
    <3> QED
      BY <1>1, <3>1, <3>2, <3>3, <3>4
  <2>4. n \in T
    <3> HIDE DEF T
    <3> QED
      BY <1>1, <2>1, <2>3, Induction
  <2>5. RemoveAll(acc, d) = left
    <3>1. ~(n < p)
      BY <1>1
    <3> HIDE DEF left, n
    <3> QED
      BY <1>2, <2>4, <3>1
  <2>6. \A j \in 1 .. n - 1 : b[j] = IF j < p THEN a[j] ELSE a[j + 1]
    BY <1>1
  <2> HIDE DEF b, left
  <2> QED
    BY <2>2, <2>5, <2>6
<1> QED
  BY <1>1, <1>3, <1>4

(* What is left after n recipients: the domains that are none of theirs,   *)
(* in their order; g says which they are.                                  *)
LeftIs(acc, g, od, ds, N, n) ==
  /\ acc \in Lefts(N) /\ g \in [1 .. acc.len -> 1 .. N]
  /\ \A i, j \in 1 .. acc.len : i < j => g[i] < g[j]
  /\ \A k \in 1 .. acc.len : acc.array[k] = od[g[k]]
  /\ \A k \in 1 .. acc.len : \A m \in 1 .. n : od[g[k]] # ds[m]
  /\ \A i \in 1 .. N : (\A m \in 1 .. n : od[i] # ds[m]) => \E k \in 1 .. acc.len : g[k] = i

LEMMA LeftFacts ==
  ASSUME NEW N \in Nat, NEW od \in [1 .. N -> Domains], \A i, j \in 1 .. N : od[i] = od[j] => i = j,
         NEW ds, NEW n \in Nat, NEW acc, NEW g, LeftIs(acc, g, od, ds, N, n)
  PROVE  \E h : LeftIs(RemoveAll(acc, ds[n + 1]), h, od, ds, N, n + 1)
<1> DEFINE L == acc.len
           left == RemoveAll(acc, ds[n + 1])
<1>1. /\ acc \in Lefts(N) /\ L \in Nat /\ g \in [1 .. L -> 1 .. N]
      /\ \A i, j \in 1 .. L : i < j => g[i] < g[j]
      /\ \A k \in 1 .. L : acc.array[k] = od[g[k]]
      /\ \A k \in 1 .. L : \A m \in 1 .. n : od[g[k]] # ds[m]
      /\ \A i \in 1 .. N : (\A m \in 1 .. n : od[i] # ds[m]) => \E k \in 1 .. L : g[k] = i
  <2>1. acc.len \in 0 .. N
    BY Zenon DEF LeftIs, Lefts
  <2>2. L \in Nat
    BY <2>1
  <2> QED
    BY <2>2, Zenon DEF LeftIs
<1> HIDE DEF L
<1>2. \A i, j \in 1 .. L : acc.array[i] = acc.array[j] => i = j
  <2> SUFFICES ASSUME NEW i \in 1 .. L, NEW j \in 1 .. L, acc.array[i] = acc.array[j], i # j
               PROVE  FALSE
    OBVIOUS
  <2>1. g[i] \in 1 .. N /\ g[j] \in 1 .. N
    BY <1>1
  <2>2. g[i] = g[j]
    BY <1>1, <2>1
  <2>3. i < j \/ j < i
    BY <1>1
  <2> QED
    BY <1>1, <2>1, <2>2, <2>3
<1>3. /\ left \in Lefts(N)
      /\ \/ left = acc /\ \A k \in 1 .. L : acc.array[k] # ds[n + 1]
         \/ \E p \in 1 .. L :
              /\ acc.array[p] = ds[n + 1] /\ left.len = L - 1
              /\ \A j \in 1 .. L - 1 :
                   left.array[j] = IF j < p THEN acc.array[j] ELSE acc.array[j + 1]
  <2>1. \A i, j \in 1 .. acc.len : acc.array[i] = acc.array[j] => i = j
    BY <1>2 DEF L
  <2>2. acc \in Lefts(N) /\ N \in Nat
    BY <1>1
  <2>3. ASSUME NEW d
        PROVE  /\ RemoveAll(acc, d) \in Lefts(N)
               /\ \/ RemoveAll(acc, d) = acc /\ \A k \in 1 .. acc.len : acc.array[k] # d
                  \/ \E p \in 1 .. acc.len :
                       /\ acc.array[p] = d
                       /\ RemoveAll(acc, d).len = acc.len - 1
                       /\ \A j \in 1 .. acc.len - 1 :
                            RemoveAll(acc, d).array[j] = IF j < p THEN acc.array[j] ELSE acc.array[j + 1]
    BY ONLY <2>1, <2>2, RemoveAllFacts
  <2> QED
    BY <2>3, Zenon DEF L
<1>4. \A m \in 1 .. n + 1 : m \in 1 .. n \/ m = n + 1
  OBVIOUS
<1>5. 1 .. n \subseteq 1 .. n + 1 /\ n + 1 \in 1 .. n + 1
  OBVIOUS
<1> HIDE DEF left
<1>6. CASE left = acc /\ \A k \in 1 .. L : acc.array[k] # ds[n + 1]
  <2>1. \A k \in 1 .. L : \A m \in 1 .. n + 1 : od[g[k]] # ds[m]
    BY <1>1, <1>4, <1>6
  <2>2. LeftIs(left, g, od, ds, N, n + 1)
    BY <1>1, <1>5, <1>6, <2>1 DEF LeftIs, L
  <2> QED
    BY <2>2 DEF left
<1>7. ASSUME NEW p \in 1 .. L, acc.array[p] = ds[n + 1], left.len = L - 1,
             \A j \in 1 .. L - 1 :
               left.array[j] = IF j < p THEN acc.array[j] ELSE acc.array[j + 1]
      PROVE  \E h : LeftIs(left, h, od, ds, N, n + 1)
  <2> DEFINE at(j) == IF j < p THEN j ELSE j + 1
             h == [j \in 1 .. L - 1 |-> g[at(j)]]
  <2>0. L \in Nat /\ p \in 1 .. L
    BY <1>1
  <2>1. \A j \in 1 .. L - 1 : /\ at(j) \in 1 .. L /\ at(j) # p
                              /\ left.array[j] = acc.array[at(j)] /\ h[j] = g[at(j)]
    <3>1. \A j \in 1 .. L - 1 : at(j) \in 1 .. L /\ at(j) # p
      BY <2>0
    <3>2. \A j \in 1 .. L - 1 : left.array[j] = acc.array[at(j)]
      BY <1>7
    <3> QED
      BY <3>1, <3>2
  <2>2. \A i, j \in 1 .. L - 1 : i < j => at(i) < at(j)
    BY <1>1
  <2>3. \A k \in 1 .. L : k # p => \E j \in 1 .. L - 1 : at(j) = k
    <3> SUFFICES ASSUME NEW k \in 1 .. L, k # p PROVE \E j \in 1 .. L - 1 : at(j) = k
      OBVIOUS
    <3>1. CASE k < p
      <4>1. k \in 1 .. L - 1 /\ at(k) = k
        BY <1>1, <3>1
      <4> QED
        BY <4>1
    <3>2. CASE k > p
      <4>1. k - 1 \in 1 .. L - 1 /\ at(k - 1) = k
        BY <1>1, <3>2
      <4> QED
        BY <4>1
    <3> QED
      BY <1>1, <3>1, <3>2
  <2>4. h \in [1 .. L - 1 -> 1 .. N]
    BY <1>1, <2>1
  <2> HIDE DEF at, h
  <2>5. \A i, j \in 1 .. L - 1 : i < j => h[i] < h[j]
    BY <1>1, <2>1, <2>2
  <2>6. \A k \in 1 .. L - 1 : left.array[k] = od[h[k]]
    <3> SUFFICES ASSUME NEW k \in 1 .. L - 1 PROVE left.array[k] = od[h[k]]
      OBVIOUS
    <3>1. at(k) \in 1 .. L /\ left.array[k] = acc.array[at(k)] /\ h[k] = g[at(k)]
      BY <2>1
    <3>2. acc.array[at(k)] = od[g[at(k)]]
      BY <1>1, <3>1
    <3> QED
      BY <3>1, <3>2
  <2>7. \A k \in 1 .. L - 1 : \A m \in 1 .. n + 1 : od[h[k]] # ds[m]
    <3> SUFFICES ASSUME NEW k \in 1 .. L - 1, NEW m \in 1 .. n + 1 PROVE od[h[k]] # ds[m]
      OBVIOUS
    <3>1. CASE m \in 1 .. n
      BY <1>1, <2>1, <3>1
    <3>2. CASE m = n + 1
      <4>1. acc.array[at(k)] # acc.array[p]
        BY <1>2, <2>1
      <4> QED
        BY <1>1, <1>7, <2>1, <3>2, <4>1
    <3> QED
      BY <1>4, <3>1, <3>2
  <2>8. ASSUME NEW i \in 1 .. N, \A m \in 1 .. n + 1 : od[i] # ds[m]
        PROVE  \E j \in 1 .. L - 1 : h[j] = i
    <3>1. PICK k \in 1 .. L : g[k] = i
      BY <1>1, <1>5, <2>8
    <3>2. k # p
      BY <1>1, <1>5, <1>7, <2>8, <3>1
    <3> QED
      BY <2>1, <2>3, <3>1, <3>2
  <2>9. LeftIs(left, h, od, ds, N, n + 1)
    BY <1>3, <1>7, <2>4, <2>5, <2>6, <2>7, <2>8 DEF LeftIs
  <2> QED
    BY <2>9
<1> QED
  BY <1>3, <1>6, <1>7 DEF left

LEMMA RewriteFacts ==
  ASSUME original \in Seq(Addresses), rcpts \in Seq(Addresses), IsInjective(OriginalDomains)
  PROVE  GetRewriteDomain = ForeignDomain /\ ForeignDomain \in Domains \cup {NoDomain}
<1> DEFINE N == Len(original)
           M == Len(rcpts)
           od == OriginalDomains
           ds == [i \in DOMAIN rcpts |-> DomainOf[rcpts[i]]]
           acc == [array |-> od, len |-> N, panicked |-> FALSE]
           left == RewriteFold(acc, ds)
<1>1. /\ N \in Nat /\ M \in Nat /\ DOMAIN original = 1 .. N /\ DOMAIN rcpts = 1 .. M
      /\ original \in [1 .. N -> Addresses] /\ rcpts \in [1 .. M -> Addresses]
  BY LenProperties
<1>2. /\ od \in [1 .. N -> Domains] /\ DOMAIN od = 1 .. N
      /\ \A i, j \in 1 .. N : od[i] = od[j] => i = j
  <2>1. od \in [1 .. N -> Domains]
    BY <1>1, SrsAssumption DEF OriginalDomains
  <2> HIDE DEF od
  <2> QED
    BY <2>1 DEF IsInjective, od
<1>3. DOMAIN ds = 1 .. M /\ \A i \in 1 .. M : ds[i] = DomainOf[rcpts[i]]
  BY <1>1
<1>4. GetRewriteDomain = IF left.panicked THEN Panic ELSE IF left.len = 0 THEN NoDomain ELSE left.array[1]
  BY DEF GetRewriteDomain, RewriteFold
<1> DEFINE F == {i \in 1 .. N : \A m \in 1 .. M : od[i] # ds[m]}
<1>5. ForeignDomain = IF F # {} THEN od[Min(F)] ELSE NoDomain
  <2> DEFINE Foreign(d) == \A i \in DOMAIN rcpts : DomainOf[rcpts[i]] # d
             G == {i \in DOMAIN OriginalDomains : Foreign(OriginalDomains[i])}
  <2>1. ForeignDomain = IF \E i \in DOMAIN OriginalDomains : Foreign(OriginalDomains[i])
                        THEN OriginalDomains[Min(G)] ELSE NoDomain
    <3> HIDE DEF F
    <3> QED
      BY Zenon DEF ForeignDomain
  <2>2. G = F
    <3> HIDE DEF ds
    <3> QED
      BY <1>1, <1>2, <1>3
  <2>3. (\E i \in DOMAIN OriginalDomains : Foreign(OriginalDomains[i])) <=> G # {}
    <3> HIDE DEF Foreign
    <3> QED
      OBVIOUS
  <2> HIDE DEF F, G, Foreign
  <2> QED
    BY <2>1, <2>2, <2>3
<1> HIDE DEF F
<1> HIDE DEF ds, od, N, M
<1>6. acc \in Lefts(N) /\ acc.len = N /\ acc.array = od
  <2>1. acc \in Lefts(N)
    BY <1>1, <1>2 DEF Lefts
  <2> QED
    BY <2>1
<1> HIDE DEF acc
<1>7. PICK v : /\ v[0] = acc
               /\ \A k \in 0 .. M - 1 : v[k + 1] = RemoveAll(v[k], ds[k + 1])
               /\ left = v[M]
  <2>1. M \in Nat /\ DOMAIN ds = 1 .. M
    BY <1>1, <1>3
  <2> QED
    BY ONLY <2>1, RewriteRounds DEF left
<1> HIDE DEF left
<1>8. PICK g : LeftIs(left, g, od, ds, N, M)
  <2> DEFINE T == {k \in 0 .. M : \E g : LeftIs(v[k], g, od, ds, N, k)}
  <2>1. 0 \in T
    <3>1. LeftIs(acc, [k \in 1 .. N |-> k], od, ds, N, 0)
      BY <1>1, <1>6 DEF LeftIs
    <3> QED
      BY <1>1, <1>7, <3>1
  <2>2. ASSUME NEW k \in 0 .. M - 1, k \in T PROVE k + 1 \in T
    <3>1. PICK g : LeftIs(v[k], g, od, ds, N, k)
      BY <2>2
    <3>2. k \in Nat /\ k + 1 \in 0 .. M
      BY <1>1
    <3>3. \E h : LeftIs(RemoveAll(v[k], ds[k + 1]), h, od, ds, N, k + 1)
      BY <1>1, <1>2, <3>1, <3>2, LeftFacts
    <3> QED
      BY <1>7, <3>2, <3>3
  <2>3. M \in 0 .. M
    BY <1>1
  <2> HIDE DEF T
  <2>4. 0 .. M \subseteq T
    BY <1>1, <2>1, <2>2, Induction
  <2>5. M \in T
    BY <2>3, <2>4
  <2> QED
    BY <1>7, <2>5 DEF T
<1>9. left.panicked = FALSE /\ left.len \in 0 .. N
  <2>1. left \in Lefts(N)
    BY <1>8 DEF LeftIs
  <2>2. left.panicked = FALSE
    BY <2>1, Zenon DEF Lefts
  <2>3. left.len \in 0 .. N
    BY <2>1, Zenon DEF Lefts
  <2> QED
    BY <2>2, <2>3
<1>10. CASE left.len = 0
  <2>1. F = {}
    BY <1>1, <1>8, <1>10 DEF LeftIs, F
  <2> QED
    BY <1>4, <1>5, <1>9, <1>10, <2>1
<1>11. CASE left.len # 0
  <2>1. 1 \in 1 .. left.len /\ g[1] \in 1 .. N /\ g[1] \in F /\ left.array[1] = od[g[1]]
    <3>1. 1 \in 1 .. left.len
      BY <1>1, <1>9, <1>11
    <3>2. g[1] \in 1 .. N /\ left.array[1] = od[g[1]] /\ \A m \in 1 .. M : od[g[1]] # ds[m]
      BY <1>8, <3>1 DEF LeftIs
    <3> QED
      BY <3>1, <3>2 DEF F
  <2>2. \A i \in F : g[1] <= i
    <3> SUFFICES ASSUME NEW i \in F PROVE g[1] <= i
      OBVIOUS
    <3>1. PICK k \in 1 .. left.len : g[k] = i
      BY <1>8 DEF LeftIs, F
    <3>2. k = 1 \/ 1 < k
      BY <1>1, <1>9
    <3>3. k = 1 \/ g[1] < g[k]
      BY <1>8, <2>1, <3>2 DEF LeftIs
    <3>4. g[1] \in Int /\ i \in Int
      BY <1>1, <2>1 DEF F
    <3>5. g[1] = i \/ g[1] < i
      BY <3>1, <3>3
    <3> QED
      BY <3>4, <3>5
  <2>3. Min(F) = g[1]
    <3>1. \A x \in F : x \in Int
      BY <1>1 DEF F
    <3>2. \A x \in F : (\A y \in F : x =< y) => x = g[1]
      BY <2>1, <2>2, <3>1
    <3> QED
      BY <2>1, <2>2, <3>2 DEF Min
  <2>4. F # {} /\ od[g[1]] \in Domains
    BY <1>2, <2>1
  <2>5. ForeignDomain = od[g[1]]
    BY <1>5, <2>3, <2>4
  <2> QED
    BY <1>4, <1>9, <1>11, <2>1, <2>4, <2>5
<1> QED
  BY <1>10, <1>11

\* Until it is checked, nothing of the message has changed.
Unchecked ==
  stage = "unchecked" =>
    original \in Seq(Addresses) /\ rcpts \in Seq(Addresses) /\ from = NoDomain

RewriteInv == Unchecked /\ RewrittenToForeignDomain

LEMMA InitRewriteInv == Init => RewriteInv
<1> SUFFICES ASSUME Init PROVE RewriteInv
  OBVIOUS
<1>1. \A n \in Nat : BoundedSeq(Addresses, n) \subseteq Seq(Addresses)
  <2> SUFFICES ASSUME NEW n \in Nat, NEW m \in 0 .. n PROVE [1 .. m -> Addresses] \subseteq Seq(Addresses)
    BY DEF BoundedSeq, SeqOf
  <2> QED
    BY SeqDef
<1>2. Unchecked
  BY <1>1, SrsAssumption DEF Init, Unchecked
<1> QED
  BY <1>2 DEF Init, RewriteInv, RewrittenToForeignDomain

LEMMA CheckRewriteInv ==
  ASSUME RewriteInv, Check
  PROVE  RewriteInv'
<1>1. /\ stage = "unchecked" /\ UNCHANGED <<original, rcpts, nullSender>>
      /\ from = NoDomain
      /\ original \in Seq(Addresses) /\ rcpts \in Seq(Addresses)
  BY DEF Check, RewriteInv, Unchecked, msgVars
<1>2. /\ stage' # "unchecked"
      /\ GetFromAddress # Panic => stage' = "checked" /\ from' = GetFromAddress
  BY DEF Check
<1>3. ASSUME IsInjective(OriginalDomains)
      PROVE  /\ GetFromAddress # Panic
             /\ GetFromAddress = IF IsForwarded /\ ~nullSender THEN ForeignDomain ELSE NoDomain
  <2>1. GetRewriteDomain = ForeignDomain /\ ForeignDomain \in Domains \cup {NoDomain}
    BY <1>1, <1>3, RewriteFacts
  <2> QED
    BY <2>1, SrsAssumption DEF GetFromAddress
<1>4. /\ OriginalDomains' = OriginalDomains /\ IsForwarded' = IsForwarded
      /\ ForeignDomain' = ForeignDomain /\ nullSender' = nullSender
  BY <1>1 DEF OriginalDomains, IsForwarded, ForeignDomain
<1>5. RewrittenToForeignDomain'
  BY <1>2, <1>3, <1>4 DEF RewrittenToForeignDomain
<1> QED
  BY <1>2, <1>5 DEF RewriteInv, Unchecked

LEMMA OtherRewriteInv ==
  ASSUME RewriteInv,
         \/ UNCHANGED <<msgVars, stage, from>>
         \/ stage' \in {"sent", "forwarded"}
  PROVE  RewriteInv'
<1>1. CASE UNCHANGED <<msgVars, stage, from>>
  <2>1. UNCHANGED <<original, rcpts, nullSender, stage, from>>
    BY <1>1 DEF msgVars
  <2>2. /\ OriginalDomains' = OriginalDomains /\ IsForwarded' = IsForwarded
        /\ ForeignDomain' = ForeignDomain
    BY <2>1 DEF OriginalDomains, IsForwarded, ForeignDomain
  <2> QED
    BY <2>1, <2>2 DEF RewriteInv, Unchecked, RewrittenToForeignDomain
<1>2. CASE stage' \in {"sent", "forwarded"}
  BY <1>2 DEF RewriteInv, Unchecked, RewrittenToForeignDomain
<1> QED
  BY <1>1, <1>2

LEMMA BouncesStepRewriteInv == RewriteInv /\ [BouncesNext]_allVars => RewriteInv'
<1> SUFFICES ASSUME RewriteInv, [BouncesNext]_allVars PROVE RewriteInv'
  OBVIOUS
<1>1. CASE Check
  BY <1>1, CheckRewriteInv
<1>2. CASE Leave
  BY <1>2, OtherRewriteInv DEF Leave
<1>3. CASE Persist \/ Crash \/ Ended \/ Pass \/ UNCHANGED allVars
  BY <1>3, OtherRewriteInv DEF Persist, Crash, Ended, Pass, Tick, allVars, vars
<1>4. ASSUME NEW b \in Bounces, Try(b) \/ ChecksOf(b) \/ GetVerdict(b)
      PROVE  RewriteInv'
  BY <1>4, OtherRewriteInv
     DEF Try, RecipientCheck, ChecksOf, SwapRecipients, GetVerdict, Answer
<1> QED
  BY <1>1, <1>2, <1>3, <1>4 DEF BouncesNext

(* A message that is forwarded is rewritten to the first domain in its     *)
(* headers that is no recipient's, although getRewriteDomain removes       *)
(* domains from the very list it goes through, and that never panics, for  *)
(* any headers that name no domain twice and any recipients.               *)
THEOREM RewrittenCorrect == BouncesSpec => []RewrittenToForeignDomain
<1>1. BouncesInit => RewriteInv
  BY InitRewriteInv DEF BouncesInit
<1>2. RewriteInv => RewrittenToForeignDomain
  BY DEF RewriteInv
<1> QED
  BY <1>1, <1>2, BouncesStepRewriteInv, PTL DEF BouncesSpec
=============================================================================
