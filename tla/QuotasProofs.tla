---------------------------- MODULE QuotasProofs -----------------------------
(***************************************************************************)
(* Proofs about Quotas, for any number of messages, any quota and any      *)
(* interleaving of their checks and their tallies, as long as Redis does   *)
(* not fail.                                                               *)
(*                                                                         *)
(* What bounds the overshoot is the order in which the messages began      *)
(* their checks.  The last of those that were permitted in the period      *)
(* counted all the others, but those that were in flight with it.  The     *)
(* state does not say who was when: the invariant claims that there are    *)
(* two functions that do, the messages that were done and those that were  *)
(* in flight when each began its check.                                    *)
(*                                                                         *)
(* And about QuotaDefinitions: the list of definitions is never without    *)
(* any but while somebody writes it, and never holds many duplicates, for  *)
(* any number of hosts, checks and definitions, and whatever the database  *)
(* says.                                                                   *)
(***************************************************************************)
EXTENDS Quotas, QuotaDefinitions, FiniteSetTheorems, TLAPS

Phases ==
  {"new", "polling", "removing", "recounting", "weighing", "tallying", "done", "dropped"}
Over == {"done", "dropped"}
Answered == {"tallying"} \cup Over

TypeOK ==
  /\ clock \in Nat
  /\ phase \in [Msgs -> Phases]
  /\ now \in [Msgs -> Nat]
  /\ count \in [Msgs -> Nat]
  /\ verdict \in [Msgs -> FinalVerdicts \cup {"None"}]
  /\ answered \in [Msgs -> Nat]
  /\ untallied \in [Msgs -> SUBSET (1 .. Extra)]
  /\ tallies \in [Units -> Nat \cup {NoScore}]
  /\ expires \in Nat
  /\ added \in [Units -> Nat \cup {NoScore}]

\* No time that was read is later than the clock.
Times ==
  /\ \A m \in Msgs : now[m] <= clock /\ answered[m] <= clock
  /\ \A u \in Units : added[u] <= clock

\* How far a message is, and what is known of it by then.
Progress ==
  \A m \in Msgs :
    /\ phase[m] \in Answered <=> verdict[m] # "None"
    /\ phase[m] = "done" => untallied[m] = {}
    /\ \A i \in 1 .. Extra :
         i \in untallied[m] \/ phase[m] \notin Answered => added[<<m, i>>] = NoScore

\* Redis has nothing but what was added.
Copied == \A u \in Units : tallies[u] \in {NoScore, added[u]}

BaseInv == TypeOK /\ Times /\ Progress /\ Copied

\* It has all of it until it is too old to matter.
Remembered ==
  \A u \in Units : added[u] # NoScore =>
    /\ added[u] + Ttl <= expires
    /\ clock < added[u] + Period => tallies[u] = added[u]

\* A unit that was permitted is added after that, if its check was heard.
AddedAfter ==
  \A m \in Msgs : \A i \in 1 .. Extra :
    phase[m] # "dropped" /\ verdict[m] = "Permit" /\ i \notin untallied[m] =>
      answered[m] <= added[<<m, i>>]

StateInv == BaseInv /\ Remembered /\ AddedAfter

\* What is counted again is not at the edge of the period, nor is it more
\* than was added.
AddedBefore(m) ==
  {u \in Units : added[u] # NoScore /\ added[u] \in (now[m] - Period + 1) .. now[m]}

RefusedWell(m) ==
  /\ phase[m] = "recounting" =>
       \A u \in Units : tallies[u] # NoScore => now[m] - Period < tallies[u]
  /\ phase[m] = "weighing" /\ Exceeds(count[m]) => Exceeds(Cardinality(AddedBefore(m)))

\* The units of a set of messages that were permitted in the period.
PermittedOf(M) ==
  {u \in Units : /\ u[1] \in M
                 /\ PermittedWithin(u[1]) /\ clock < answered[u[1]] + Period}

\* A message that was permitted, or will be unless other modules mind.
Passes(m) == PermittedWithin(m) \/ (phase[m] = "weighing" /\ ~Exceeds(count[m]))

\* Whose check was over, and who was in flight, when a message began its check.
History(before, beside) ==
  \A m \in Msgs :
    LET polled == before[m] \cup beside[m]
    IN /\ phase[m] # "new" => Cardinality(beside[m]) <= MaxInFlight - 1
       /\ m \notin polled
       /\ \A n \in polled : /\ phase[n] # "new"
                            /\ before[n] \cup beside[n] \subseteq polled
       /\ \A n \in Msgs \ {m} :
            phase[m] # "new" /\ phase[n] # "new" =>
              n \in polled \/ m \in before[n] \cup beside[n]
       /\ \A n \in before[m] :
            /\ phase[n] \in Over
            /\ verdict[n] = "Permit" => \A i \in 1 .. Extra : added[<<n, i>>] <= now[m]
       /\ Passes(m) => Extra + Cardinality(PermittedOf(before[m])) <= Curb

Histories == [Msgs -> SUBSET Msgs]

QuotaInv ==
  /\ StateInv
  /\ \E before, beside \in Histories : History(before, beside)
-----------------------------------------------------------------------------
LEMMA SetsOfUnits ==
  ASSUME NEW S \in SUBSET Units
  PROVE  IsFiniteSet(S) /\ Cardinality(S) \in Nat
<1>1. IsFiniteSet(1 .. Extra)
  BY QuotaAssumption, FS_Interval
<1>2. IsFiniteSet(Units)
  BY <1>1, QuotaAssumption, FS_Product DEF Units
<1> QED
  BY <1>2, FS_Subset, FS_CardinalityType

LEMMA SetsOfMsgs ==
  ASSUME NEW S \in SUBSET Msgs
  PROVE  IsFiniteSet(S) /\ Cardinality(S) \in Nat
  BY QuotaAssumption, FS_Subset, FS_CardinalityType

\* A set that is part of another has no more units.
LEMMA FewerUnits ==
  ASSUME NEW S \in SUBSET Units, NEW T \in SUBSET S
  PROVE  Cardinality(T) <= Cardinality(S)
  BY SetsOfUnits, FS_Subset

\* A greater count is not less in excess of the quota.
LEMMA ExceedsMore ==
  ASSUME NEW n \in Nat, NEW k \in Nat, n <= k, Exceeds(n)
  PROVE  Exceeds(k)
  BY QuotaAssumption DEF Exceeds

LEMMA CountsType ==
  ASSUME NEW m \in Msgs
  PROVE  Counts(m) \subseteq Nat
  BY SetsOfUnits DEF Counts, ZCount

\* The steps of a check change nothing that was added or answered.
LEMMA CheckStepBase ==
  ASSUME BaseInv, NEW m \in Msgs, NEW to \in Phases \ Answered,
         phase[m] \notin Answered, Goes(m, to),
         now' \in [Msgs -> Nat], \A n \in Msgs : now'[n] \in {now[n], clock},
         count' \in [Msgs -> Nat],
         tallies' \in [Units -> Nat \cup {NoScore}],
         \A u \in Units : tallies'[u] \in {NoScore, tallies[u]},
         UNCHANGED <<clock, answerVars, untallied, expires, added>>
  PROVE  BaseInv'
<1>1. TypeOK'
  BY DEF BaseInv, TypeOK, Goes, answerVars
<1>2. Times'
  BY DEF BaseInv, TypeOK, Times, answerVars
<1>3. phase'[m] = to /\ \A n \in Msgs \ {m} : phase'[n] = phase[n]
  BY DEF BaseInv, TypeOK, Goes
<1>4. Progress'
  BY <1>3 DEF BaseInv, Progress, Answered, Over, answerVars
<1>5. Copied'
  BY DEF BaseInv, Copied
<1> QED
  BY <1>1, <1>2, <1>4, <1>5 DEF BaseInv

LEMMA PollFacts ==
  ASSUME BaseInv, NEW m \in Msgs, Poll(m)
  PROVE  /\ BaseInv'
         /\ phase'[m] = "polling" /\ \A n \in Msgs \ {m} : phase'[n] = phase[n]
         /\ now'[m] = clock /\ \A n \in Msgs \ {m} : now'[n] = now[n]
<1>1. /\ now' = [now EXCEPT ![m] = clock] /\ phase[m] = "new" /\ Goes(m, "polling")
      /\ UNCHANGED <<clock, count, answerVars, untallied, setVars>>
  BY DEF Poll
<1>2. TypeOK
  BY DEF BaseInv
<1>3. BaseInv'
  <2>1. "polling" \in Phases \ Answered /\ phase[m] \notin Answered
    BY <1>1 DEF Phases, Answered, Over
  <2>2. now' \in [Msgs -> Nat] /\ \A n \in Msgs : now'[n] \in {now[n], clock}
    BY <1>1, <1>2 DEF TypeOK
  <2>3. count' \in [Msgs -> Nat] /\ tallies' \in [Units -> Nat \cup {NoScore}]
        /\ \A u \in Units : tallies'[u] \in {NoScore, tallies[u]}
    BY <1>1, <1>2 DEF TypeOK, setVars
  <2> QED
    BY <1>1, <2>1, <2>2, <2>3, CheckStepBase DEF setVars
<1> QED
  BY <1>1, <1>2, <1>3 DEF TypeOK, Goes

LEMMA CountFacts ==
  ASSUME BaseInv, NEW m \in Msgs, Count(m) \/ Recount(m)
  PROVE  /\ BaseInv'
         /\ phase'[m] \in {"removing", "weighing"}
         /\ phase[m] \in {"polling", "recounting"}
         /\ \A n \in Msgs \ {m} : phase'[n] = phase[n] /\ count'[n] = count[n]
         /\ count'[m] \in Counts(m)
         /\ Count(m) => (phase'[m] = "weighing" <=> ~Exceeds(count'[m]))
         /\ UNCHANGED <<clock, now, answerVars, untallied, setVars>>
<1>1. /\ phase[m] \in {"polling", "recounting"}
      /\ UNCHANGED <<clock, now, answerVars, untallied, setVars>>
  BY DEF Count, Recount
<1>2. PICK n \in Counts(m), to \in {"removing", "weighing"} :
        /\ count' = [count EXCEPT ![m] = n] /\ Goes(m, to)
        /\ Count(m) => (to = "weighing" <=> ~Exceeds(n))
  <2>1. CASE Count(m)
    BY <2>1 DEF Count
  <2>2. CASE Recount(m) /\ ~Count(m)
    BY <2>2 DEF Recount
  <2> QED
    BY <2>1, <2>2
<1>3. TypeOK /\ n \in Nat
  BY CountsType DEF BaseInv
<1>4. BaseInv'
  <2>1. to \in Phases \ Answered /\ phase[m] \notin Answered
    BY <1>1, <1>2 DEF Phases, Answered, Over
  <2>2. now' \in [Msgs -> Nat] /\ \A k \in Msgs : now'[k] \in {now[k], clock}
    BY <1>1, <1>3 DEF TypeOK
  <2>3. count' \in [Msgs -> Nat] /\ tallies' \in [Units -> Nat \cup {NoScore}]
        /\ \A u \in Units : tallies'[u] \in {NoScore, tallies[u]}
    BY <1>1, <1>2, <1>3 DEF TypeOK, setVars
  <2> QED
    BY <1>1, <1>2, <2>1, <2>2, <2>3, CheckStepBase DEF setVars
<1>5. /\ phase'[m] = to /\ count'[m] = n
      /\ \A k \in Msgs \ {m} : phase'[k] = phase[k] /\ count'[k] = count[k]
  BY <1>2, <1>3 DEF TypeOK, Goes
<1> QED
  BY <1>1, <1>2, <1>4, <1>5

LEMMA RemoveFacts ==
  ASSUME BaseInv, NEW m \in Msgs, Remove(m)
  PROVE  /\ BaseInv'
         /\ phase[m] = "removing" /\ phase'[m] = "recounting"
         /\ \A n \in Msgs \ {m} : phase'[n] = phase[n]
         /\ \A u \in Units : tallies'[u] = tallies[u]
                             \/ (tallies'[u] = NoScore /\ tallies[u] <= now[m] - Period)
         /\ ~RedisFails =>
              \A u \in Units : tallies'[u] # NoScore => now[m] - Period < tallies'[u]
         /\ UNCHANGED <<clock, checkVars, answerVars, untallied, expires, added>>
<1>1. /\ phase[m] = "removing" /\ Goes(m, "recounting")
      /\ UNCHANGED <<clock, checkVars, answerVars, untallied, expires, added>>
      /\ \/ tallies' = [u \in Units |-> IF tallies[u] <= now[m] - Period
                                        THEN NoScore ELSE tallies[u]]
         \/ RedisFails /\ UNCHANGED tallies
  BY DEF Remove
<1>2. /\ TypeOK /\ tallies \in [Units -> Nat \cup {NoScore}] /\ NoScore \in Int
      /\ now[m] \in Int /\ Period \in Int
  BY QuotaAssumption DEF BaseInv, TypeOK, NoScore
<1>3. /\ tallies' \in [Units -> Nat \cup {NoScore}]
      /\ \A u \in Units : tallies'[u] = tallies[u]
                          \/ (tallies'[u] = NoScore /\ tallies[u] <= now[m] - Period)
      /\ ~RedisFails =>
           \A u \in Units : tallies'[u] # NoScore => now[m] - Period < tallies'[u]
  <2>1. CASE RedisFails /\ UNCHANGED tallies
    BY <1>2, <2>1
  <2>2. CASE tallies' = [u \in Units |-> IF tallies[u] <= now[m] - Period
                                        THEN NoScore ELSE tallies[u]]
    <3>1. \A u \in Units : tallies[u] \in Int /\ tallies[u] \in Nat \cup {NoScore}
      BY <1>2
    <3>2. \A u \in Units : tallies'[u] = IF tallies[u] <= now[m] - Period
                                         THEN NoScore ELSE tallies[u]
      BY <2>2
    <3>3. tallies' \in [Units -> Nat \cup {NoScore}]
      BY <1>2, <2>2
    <3>4. now[m] - Period \in Int
      BY <1>2
    <3>5. \A u \in Units : tallies'[u] # NoScore => now[m] - Period < tallies'[u]
      BY <3>1, <3>2, <3>4
    <3> QED
      BY <3>2, <3>3, <3>5
  <2> QED
    BY <1>1, <2>1, <2>2
<1>4. BaseInv'
  <2>1. "recounting" \in Phases \ Answered /\ phase[m] \notin Answered
    BY <1>1 DEF Phases, Answered, Over
  <2>2. now' \in [Msgs -> Nat] /\ (\A k \in Msgs : now'[k] \in {now[k], clock})
        /\ count' \in [Msgs -> Nat]
    BY <1>1, <1>2 DEF TypeOK, checkVars
  <2> QED
    BY <1>1, <1>3, <2>1, <2>2, CheckStepBase
<1> QED
  BY <1>1, <1>2, <1>3, <1>4 DEF TypeOK, Goes


LEMMA WeighFacts ==
  ASSUME BaseInv, NEW m \in Msgs, Weigh(m)
  PROVE  /\ BaseInv'
         /\ phase[m] = "weighing" /\ phase'[m] \in Answered
         /\ phase'[m] # "dropped" /\ verdict'[m] \in TallyStatuses
              => untallied'[m] = 1 .. Extra
         /\ answered'[m] = clock
         /\ \A n \in Msgs \ {m} : /\ phase'[n] = phase[n] /\ verdict'[n] = verdict[n]
                                 /\ answered'[n] = answered[n]
                                 /\ untallied'[n] = untallied[n]
         /\ UNCHANGED <<clock, checkVars, setVars>>
<1>1. /\ phase[m] = "weighing" /\ answered' = [answered EXCEPT ![m] = clock]
      /\ UNCHANGED <<clock, checkVars, setVars>>
  BY DEF Weigh
<1>3. TypeOK
  BY DEF BaseInv
<1>2. PICK v \in FinalVerdicts, to \in Answered, left \in SUBSET (1 .. Extra) :
        /\ verdict' = [verdict EXCEPT ![m] = v]
        /\ untallied' = [untallied EXCEPT ![m] = left]
        /\ Goes(m, to)
        /\ to = "done" => left = {}
        /\ to # "dropped" /\ v \in TallyStatuses => left = 1 .. Extra
  <2>1. PICK v \in FinalVerdicts :
          /\ verdict' = [verdict EXCEPT ![m] = v]
          /\ \/ /\ untallied' = [untallied EXCEPT ![m] = IF v \in TallyStatuses
                                                         THEN 1 .. Extra ELSE {}]
                /\ Goes(m, IF v \in TallyStatuses THEN "tallying" ELSE "done")
             \/ UNCHANGED untallied /\ Goes(m, "dropped")
    BY DEF Weigh
  <2>2. CASE UNCHANGED untallied /\ Goes(m, "dropped")
    <3>1. untallied' = [untallied EXCEPT ![m] = untallied[m]]
          /\ untallied[m] \in SUBSET (1 .. Extra)
      BY <1>3, <2>2 DEF TypeOK
    <3> QED
      BY <2>1, <2>2, <3>1 DEF Answered, Over
  <2>3. CASE ~(UNCHANGED untallied /\ Goes(m, "dropped"))
    BY <2>1, <2>3 DEF Answered, Over
  <2> QED
    BY <2>2, <2>3
<1>4. /\ phase'[m] = to /\ verdict'[m] = v /\ answered'[m] = clock
      /\ untallied'[m] = left
      /\ \A n \in Msgs \ {m} : /\ phase'[n] = phase[n] /\ verdict'[n] = verdict[n]
                              /\ answered'[n] = answered[n]
                              /\ untallied'[n] = untallied[n]
  BY <1>1, <1>2, <1>3 DEF TypeOK, Goes
<1>5. TypeOK'
  <2>1. phase' \in [Msgs -> Phases] /\ verdict' \in [Msgs -> FinalVerdicts \cup {"None"}]
        /\ answered' \in [Msgs -> Nat]
    BY <1>1, <1>2, <1>3 DEF TypeOK, Goes, Phases, Answered, Over
  <2>2. untallied' \in [Msgs -> SUBSET (1 .. Extra)]
    BY <1>2, <1>3 DEF TypeOK
  <2> QED
    BY <1>1, <1>3, <2>1, <2>2 DEF TypeOK, checkVars, setVars
<1>6. Times' /\ Copied'
  BY <1>1, <1>3, <1>4 DEF BaseInv, TypeOK, Times, Copied, checkVars, setVars
<1>7. Progress'
  <2>1. v # "None"
    BY DEF FinalVerdicts, Verdicts
  <2>2. phase[m] \notin Answered /\ added' = added
    BY <1>1 DEF Answered, Over, setVars
  <2>3. to = "done" => left = {}
    BY <1>2
  <2> QED
    BY <1>4, <2>1, <2>2, <2>3 DEF BaseInv, Progress, Answered, Over
<1> QED
  BY <1>1, <1>2, <1>4, <1>5, <1>6, <1>7 DEF BaseInv, Answered, Over

\* Adding a unit that was not added before, unless Redis fails.
LEMMA AddMsgFacts ==
  ASSUME BaseInv, NEW m \in Msgs, NEW i \in 1 .. Extra, AddMsg(m, i)
  PROVE  /\ BaseInv'
         /\ phase[m] = "tallying" /\ phase'[m] \in {"tallying", "done"}
         /\ added[<<m, i>>] = NoScore
         /\ i \in untallied[m] /\ untallied'[m] = untallied[m] \ {i}
         /\ \A n \in Msgs \ {m} : phase'[n] = phase[n] /\ untallied'[n] = untallied[n]
         /\ \A u \in Units \ {<<m, i>>} : tallies'[u] = tallies[u] /\ added'[u] = added[u]
         /\ \/ /\ tallies'[<<m, i>>] = clock /\ added'[<<m, i>>] = clock
               /\ expires' = clock + Ttl
            \/ RedisFails /\ UNCHANGED setVars
         /\ UNCHANGED <<clock, checkVars, answerVars>>
<1> DEFINE w == <<m, i>>
<1>1. /\ phase[m] = "tallying" /\ i \in untallied[m]
      /\ untallied' = [untallied EXCEPT ![m] = untallied[m] \ {i}]
      /\ Goes(m, IF untallied'[m] = {} THEN "done" ELSE "tallying")
      /\ UNCHANGED <<clock, checkVars, answerVars>>
      /\ \/ /\ tallies' = [tallies EXCEPT ![w] = clock] /\ expires' = clock + Ttl
            /\ added' = [added EXCEPT ![w] = clock]
         \/ RedisFails /\ UNCHANGED setVars
  BY DEF AddMsg, BaseInv, TypeOK
<1>2. TypeOK /\ w \in Units
  BY DEF BaseInv, Units
<1>3. added[w] = NoScore
  BY <1>1 DEF BaseInv, Progress
<1> HIDE DEF w
<1>4. /\ untallied'[m] = untallied[m] \ {i}
      /\ phase'[m] = IF untallied'[m] = {} THEN "done" ELSE "tallying"
      /\ \A n \in Msgs \ {m} : phase'[n] = phase[n] /\ untallied'[n] = untallied[n]
  BY <1>1, <1>2 DEF TypeOK, Goes
<1>5. /\ \A u \in Units \ {w} : tallies'[u] = tallies[u] /\ added'[u] = added[u]
      /\ \/ tallies'[w] = clock /\ added'[w] = clock /\ expires' = clock + Ttl
         \/ RedisFails /\ UNCHANGED setVars
  <2>1. CASE RedisFails /\ UNCHANGED setVars
    BY <2>1 DEF setVars
  <2>2. CASE ~(RedisFails /\ UNCHANGED setVars)
    BY <1>1, <1>2, <2>2 DEF TypeOK
  <2> QED
    BY <2>1, <2>2
<1>6. TypeOK'
  <2>1. phase' \in [Msgs -> Phases] /\ untallied' \in [Msgs -> SUBSET (1 .. Extra)]
    BY <1>1, <1>2 DEF TypeOK, Goes, Phases
  <2>2. /\ tallies' \in [Units -> Nat \cup {NoScore}] /\ expires' \in Nat
        /\ added' \in [Units -> Nat \cup {NoScore}]
    BY <1>1, <1>2, QuotaAssumption DEF TypeOK, setVars
  <2> QED
    BY <1>1, <1>2, <2>1, <2>2 DEF TypeOK, checkVars, answerVars
<1>7. Times'
  <2>1. \A u \in Units : added'[u] <= clock'
    BY <1>1, <1>2, <1>5 DEF BaseInv, Times, TypeOK, setVars
  <2> QED
    BY <1>1, <2>1 DEF BaseInv, Times, checkVars, answerVars
<1>8. Copied'
  BY <1>2, <1>5 DEF BaseInv, Copied, setVars
<1>9. Progress'
  <2>1. \A n \in Msgs, k \in 1 .. Extra :
          <<n, k>> = w \/ added'[<<n, k>>] = added[<<n, k>>]
    BY <1>5 DEF Units, setVars
  <2>2. \A n \in Msgs, k \in 1 .. Extra : <<n, k>> = w => n = m /\ k = i
    BY DEF w
  <2>3. \A n \in Msgs \ {m} : \A k \in 1 .. Extra : added'[<<n, k>>] = added[<<n, k>>]
    BY <2>1, <2>2
  <2>4. \A k \in untallied'[m] : added'[<<m, k>>] = added[<<m, k>>]
    BY <1>2, <1>4, <2>1, <2>2 DEF TypeOK
  <2> QED
    BY <1>1, <1>4, <2>3, <2>4 DEF BaseInv, Progress, Answered, Over, answerVars
<1> QED
  BY <1>1, <1>3, <1>4, <1>5, <1>6, <1>7, <1>8, <1>9 DEF BaseInv, Answered, Over, w

LEMMA TickFacts ==
  ASSUME BaseInv, Tick
  PROVE  /\ BaseInv'
         /\ clock' = clock + 1
         /\ \A u \in Units : tallies'[u] = IF clock' >= expires THEN NoScore ELSE tallies[u]
         /\ UNCHANGED <<phase, checkVars, answerVars, untallied, expires, added>>
<1>1. /\ clock' = clock + 1
      /\ tallies' = IF clock' >= expires THEN NoTallies ELSE tallies
      /\ UNCHANGED <<phase, checkVars, answerVars, untallied, expires, added>>
  BY DEF Tick
<1>2. \A u \in Units : tallies'[u] = IF clock' >= expires THEN NoScore ELSE tallies[u]
  BY <1>1 DEF NoTallies
<1>3. TypeOK /\ clock \in Nat
  BY DEF BaseInv, TypeOK
<1>4. TypeOK'
  BY <1>1, <1>3 DEF TypeOK, NoTallies, checkVars, answerVars
<1>5. Times'
  <2>1. \A u \in Units : added[u] \in Int
    BY <1>3 DEF TypeOK, NoScore
  <2> QED
    BY <1>1, <1>3, <2>1 DEF BaseInv, Times, TypeOK, checkVars, answerVars
<1>6. Progress' /\ Copied'
  BY <1>1, <1>2 DEF BaseInv, Progress, Copied, answerVars
<1> QED
  BY <1>1, <1>2, <1>4, <1>5, <1>6 DEF BaseInv

LEMMA BaseInit == Init => BaseInv
<1> SUFFICES ASSUME Init PROVE BaseInv
  OBVIOUS
<1>1. TypeOK
  BY DEF Init, TypeOK, Phases, NoTallies
<1>2. \A m \in Msgs, i \in 1 .. Extra : <<m, i>> \in Units
  BY DEF Units
<1> QED
  BY <1>1, <1>2
     DEF Init, BaseInv, Times, Progress, Copied, Answered, Over, NoTallies, NoScore

LEMMA StutterBase == BaseInv /\ UNCHANGED vars => BaseInv'
  BY DEF BaseInv, TypeOK, Times, Progress, Copied, vars, checkVars, answerVars, setVars

LEMMA BaseStep == BaseInv /\ [Next]_vars => BaseInv'
  BY PollFacts, CountFacts, RemoveFacts, WeighFacts, AddMsgFacts, TickFacts, StutterBase
     DEF Next, MessageStep, Ended

LEMMA BaseCorrect == Spec => []BaseInv
  BY BaseInit, BaseStep, PTL DEF Spec
-----------------------------------------------------------------------------
(* What other messages, and the clock, leave true of a message: Redis may  *)
(* forget a unit, and get one that is not older than the check.            *)
LEMMA RefusedUndisturbed ==
  ASSUME BaseInv, BaseInv', Period > 0, NEW m \in Msgs, RefusedWell(m),
         phase'[m] = phase[m], now'[m] = now[m], count'[m] = count[m],
         \A u \in Units : /\ tallies'[u] \in {NoScore, tallies[u], clock}
                          /\ added[u] # NoScore => added'[u] = added[u]
  PROVE  RefusedWell(m)'
<1>1. /\ now[m] <= clock /\ clock \in Nat /\ now[m] \in Nat /\ Period \in Nat
      /\ now[m] - Period < clock
  BY QuotaAssumption DEF BaseInv, TypeOK, Times
<1>2. ASSUME phase[m] = "weighing", Exceeds(count[m])
      PROVE  Exceeds(Cardinality(AddedBefore(m)))'
  <2>1. AddedBefore(m) \subseteq AddedBefore(m)' /\ AddedBefore(m)' \subseteq Units
    BY DEF AddedBefore
  <2>2. Cardinality(AddedBefore(m)) <= Cardinality(AddedBefore(m)')
    BY <2>1, FewerUnits
  <2>3. /\ Cardinality(AddedBefore(m)) \in Nat /\ Cardinality(AddedBefore(m)') \in Nat
    BY <2>1, SetsOfUnits
  <2>4. Exceeds(Cardinality(AddedBefore(m)))
    BY <1>2 DEF RefusedWell
  <2> QED
    BY <2>2, <2>3, <2>4, ExceedsMore DEF Exceeds
<1>3. ASSUME phase[m] = "recounting", NEW u \in Units, tallies'[u] # NoScore
      PROVE  now[m] - Period < tallies'[u]
  BY <1>1, <1>3 DEF RefusedWell
<1> QED
  BY <1>2, <1>3 DEF RefusedWell, Exceeds

(* A count after Remove is of units that were added in the period.         *)
LEMMA RecountedWell ==
  ASSUME BaseInv, ~RedisFails, NEW m \in Msgs, RefusedWell(m), phase[m] = "recounting",
         NEW n \in Counts(m), Exceeds(n)
  PROVE  Exceeds(Cardinality(AddedBefore(m)))
<1> DEFINE S == {u \in Units : tallies[u] # NoScore
                               /\ tallies[u] \in (now[m] - Period) .. now[m]}
<1>1. n = Cardinality(S)
  BY DEF Counts, ZCount
<1>2. S \subseteq AddedBefore(m)
  <2>1. ASSUME NEW u \in S PROVE u \in AddedBefore(m)
    <3>1. tallies[u] = added[u] /\ added[u] # NoScore /\ now[m] - Period < added[u]
          /\ added[u] <= now[m] /\ added[u] \in Int
      BY DEF BaseInv, Copied, RefusedWell
    <3>2. now[m] \in Int /\ Period \in Int
      BY QuotaAssumption DEF BaseInv, TypeOK
    <3> QED
      BY <3>1, <3>2 DEF AddedBefore
  <2> QED
    BY <2>1
<1>3. /\ Cardinality(S) <= Cardinality(AddedBefore(m))
      /\ Cardinality(S) \in Nat /\ Cardinality(AddedBefore(m)) \in Nat
  <2>1. AddedBefore(m) \subseteq Units /\ S \subseteq Units
    BY DEF AddedBefore
  <2> QED
    BY <1>2, <2>1, FewerUnits, SetsOfUnits
<1> QED
  BY <1>1, <1>3, ExceedsMore

RefusedInv == \A m \in Msgs : RefusedWell(m)

LEMMA RefusedStep ==
  ASSUME BaseInv, RefusedInv, ~RedisFails, Period > 0, [Next]_vars
  PROVE  RefusedInv'
<1>0. BaseInv'
  BY BaseStep
<1>1. ASSUME NEW m \in Msgs, Poll(m) PROVE RefusedInv'
  <2>1. /\ phase'[m] = "polling"
        /\ \A n \in Msgs \ {m} : phase'[n] = phase[n] /\ now'[n] = now[n]
        /\ UNCHANGED <<count, tallies, added>>
    BY <1>1, PollFacts DEF Poll, setVars
  <2>2. \A n \in Msgs \ {m} : RefusedWell(n)'
    BY <1>0, <2>1, RefusedUndisturbed DEF RefusedInv
  <2>3. RefusedWell(m)'
    BY <2>1 DEF RefusedWell
  <2> QED
    BY <2>2, <2>3 DEF RefusedInv
<1>2. ASSUME NEW m \in Msgs, Count(m) \/ Recount(m) PROVE RefusedInv'
  <2>1. /\ phase'[m] \in {"removing", "weighing"}
        /\ \A n \in Msgs \ {m} : phase'[n] = phase[n] /\ count'[n] = count[n]
        /\ count'[m] \in Counts(m)
        /\ Count(m) => (phase'[m] = "weighing" <=> ~Exceeds(count'[m]))
        /\ UNCHANGED <<now, tallies, added>>
    BY <1>2, CountFacts DEF setVars
  <2>2. \A n \in Msgs \ {m} : RefusedWell(n)'
    BY <1>0, <2>1, RefusedUndisturbed DEF RefusedInv
  <2>3. RefusedWell(m)'
    <3>1. SUFFICES ASSUME phase'[m] = "weighing", Exceeds(count'[m])
                   PROVE  Exceeds(Cardinality(AddedBefore(m)))
      BY <2>1 DEF RefusedWell, AddedBefore, Exceeds
    <3>2. phase[m] = "recounting"
      BY <1>2, <2>1, <3>1 DEF Recount
    <3> QED
      BY <2>1, <3>1, <3>2, RecountedWell DEF RefusedInv
  <2> QED
    BY <2>2, <2>3 DEF RefusedInv
<1>3. ASSUME NEW m \in Msgs, Remove(m) PROVE RefusedInv'
  <2>1. /\ phase'[m] = "recounting"
        /\ \A n \in Msgs \ {m} : phase'[n] = phase[n]
        /\ \A u \in Units : tallies'[u] \in {NoScore, tallies[u]}
        /\ \A u \in Units : tallies'[u] # NoScore => now[m] - Period < tallies'[u]
        /\ UNCHANGED <<now, count, added>>
    BY <1>3, RemoveFacts DEF checkVars
  <2>2. \A n \in Msgs \ {m} : RefusedWell(n)'
    BY <1>0, <2>1, RefusedUndisturbed DEF RefusedInv
  <2>3. RefusedWell(m)'
    BY <2>1 DEF RefusedWell
  <2> QED
    BY <2>2, <2>3 DEF RefusedInv
<1>4. ASSUME NEW m \in Msgs, Weigh(m) PROVE RefusedInv'
  <2>1. /\ phase'[m] \in Answered
        /\ \A n \in Msgs \ {m} : phase'[n] = phase[n]
        /\ UNCHANGED <<now, count, tallies, added>>
    BY <1>4, WeighFacts DEF checkVars, setVars
  <2>2. \A n \in Msgs \ {m} : RefusedWell(n)'
    BY <1>0, <2>1, RefusedUndisturbed DEF RefusedInv
  <2>3. RefusedWell(m)'
    BY <2>1 DEF RefusedWell, Answered, Over
  <2> QED
    BY <2>2, <2>3 DEF RefusedInv
<1>5. ASSUME NEW m \in Msgs, NEW i \in 1 .. Extra, AddMsg(m, i) PROVE RefusedInv'
  <2>1. /\ phase'[m] \in Answered
        /\ \A n \in Msgs \ {m} : phase'[n] = phase[n]
        /\ \A u \in Units : /\ tallies'[u] \in {NoScore, tallies[u], clock}
                            /\ added[u] # NoScore => added'[u] = added[u]
        /\ UNCHANGED <<now, count>>
    BY <1>5, AddMsgFacts DEF checkVars, Answered, Over
  <2>2. \A n \in Msgs \ {m} : RefusedWell(n)'
    BY <1>0, <2>1, RefusedUndisturbed DEF RefusedInv
  <2>3. RefusedWell(m)'
    BY <2>1 DEF RefusedWell, Answered, Over
  <2> QED
    BY <2>2, <2>3 DEF RefusedInv
<1>6. CASE Tick
  <2>1. /\ \A u \in Units : tallies'[u] \in {NoScore, tallies[u], clock}
        /\ UNCHANGED <<phase, now, count, added>>
    BY <1>6, TickFacts DEF checkVars
  <2> QED
    BY <1>0, <2>1, RefusedUndisturbed DEF RefusedInv
<1>7. CASE UNCHANGED vars
  BY <1>0, <1>7, RefusedUndisturbed DEF RefusedInv, vars, checkVars, setVars
<1> QED
  BY <1>1, <1>2, <1>3, <1>4, <1>5, <1>6, <1>7 DEF Next, MessageStep, Ended

(* A message is found to exceed a quota of some length only if it would:   *)
(* the units that were added in the period before its check leave no room  *)
(* for it, whatever the other messages, on any instance, count, remove and *)
(* add meanwhile.                                                          *)
THEOREM RefusedCorrect ==
  ASSUME ~RedisFails, Period > 0
  PROVE  Spec => []ExceedsOnlyIfFull
<1>1. Init => RefusedInv
  BY DEF Init, RefusedInv, RefusedWell
<1>2. BaseInv /\ RefusedInv /\ [Next]_vars => RefusedInv'
  BY RefusedStep
<1>3. RefusedInv => ExceedsOnlyIfFull
  BY DEF RefusedInv, RefusedWell, ExceedsOnlyIfFull, AddedBefore
<1> QED
  BY <1>1, <1>2, <1>3, BaseCorrect, PTL DEF Spec
-----------------------------------------------------------------------------
(* What is in the sorted set is forgotten only when it is too old: by the  *)
(* key's expiry, or by a Remove, whose limit is behind the clock's.        *)
LEMMA RememberedStep ==
  ASSUME BaseInv, Remembered, ~RedisFails, Ttl >= Period, [Next]_vars
  PROVE  Remembered'
<1>1. /\ clock \in Nat /\ expires \in Nat /\ Ttl \in Nat /\ Period \in Nat
      /\ \A u \in Units : added[u] \in Int /\ added[u] <= clock
      /\ \A m \in Msgs : now[m] \in Nat /\ now[m] <= clock
  BY QuotaAssumption DEF BaseInv, TypeOK, Times, NoScore
<1>2. ASSUME UNCHANGED <<clock, setVars>> PROVE Remembered'
  BY <1>2 DEF Remembered, setVars
<1>3. ASSUME NEW m \in Msgs, Remove(m) PROVE Remembered'
  <2>1. /\ \A u \in Units : tallies'[u] = tallies[u] \/ tallies[u] <= now[m] - Period
        /\ UNCHANGED <<clock, expires, added>>
    BY <1>3, RemoveFacts
  <2> QED
    BY <1>1, <2>1 DEF Remembered
<1>4. ASSUME NEW m \in Msgs, NEW i \in 1 .. Extra, AddMsg(m, i) PROVE Remembered'
  <2> DEFINE w == <<m, i>>
  <2>1. /\ \A u \in Units \ {w} : tallies'[u] = tallies[u] /\ added'[u] = added[u]
        /\ tallies'[w] = clock /\ added'[w] = clock /\ expires' = clock + Ttl
        /\ clock' = clock
    BY <1>4, AddMsgFacts
  <2>2. ASSUME NEW u \in Units, added'[u] # NoScore
        PROVE  /\ added'[u] + Ttl <= expires'
               /\ clock' < added'[u] + Period => tallies'[u] = added'[u]
    <3>1. CASE u = w
      BY <1>1, <2>1, <3>1
    <3>2. CASE u # w
      BY <1>1, <2>1, <2>2, <3>2 DEF Remembered
    <3> QED
      BY <3>1, <3>2
  <2> QED
    BY <2>2 DEF Remembered
<1>5. CASE Tick
  <2>1. /\ clock' = clock + 1 /\ UNCHANGED <<expires, added>>
        /\ \A u \in Units : tallies'[u] = IF clock' >= expires THEN NoScore ELSE tallies[u]
    BY <1>5, TickFacts
  <2>2. ASSUME NEW u \in Units, added[u] # NoScore, clock' < added[u] + Period
        PROVE  tallies'[u] = added[u]
    <3>1. added[u] + Ttl <= expires /\ tallies[u] = added[u]
      BY <1>1, <2>1, <2>2 DEF Remembered
    <3>2. ~(clock' >= expires)
      BY <1>1, <2>1, <2>2, <3>1
    <3> QED
      BY <2>1, <3>1, <3>2
  <2> QED
    BY <2>1, <2>2 DEF Remembered
<1> QED
  BY <1>2, <1>3, <1>4, <1>5
     DEF Next, MessageStep, Ended, Poll, Count, Recount, Weigh, vars

(* The units that are due are all of a message's when it gets its verdict, *)
(* and each is added at its time.                                          *)
LEMMA AddedAfterStep ==
  ASSUME BaseInv, AddedAfter, ~RedisFails, "Permit" \in TallyStatuses, [Next]_vars
  PROVE  AddedAfter'
<1>1. TypeOK /\ Times /\ \A m \in Msgs, i \in 1 .. Extra : <<m, i>> \in Units
  BY DEF BaseInv, Units
<1>2. ASSUME UNCHANGED <<answerVars, untallied, added>>,
             \A n \in Msgs : phase[n] = "dropped" => phase'[n] = "dropped"
      PROVE  AddedAfter'
  BY <1>2 DEF AddedAfter, answerVars
<1>3. ASSUME NEW m \in Msgs, Weigh(m) PROVE AddedAfter'
  <2>1. /\ phase'[m] # "dropped" /\ verdict'[m] \in TallyStatuses
             => untallied'[m] = 1 .. Extra
        /\ \A n \in Msgs \ {m} : /\ verdict'[n] = verdict[n] /\ answered'[n] = answered[n]
                                /\ untallied'[n] = untallied[n] /\ phase'[n] = phase[n]
        /\ added' = added
    BY <1>3, WeighFacts DEF setVars
  <2> QED
    BY <2>1 DEF AddedAfter
<1>4. ASSUME NEW m \in Msgs, NEW i \in 1 .. Extra, AddMsg(m, i) PROVE AddedAfter'
  <2>1. /\ untallied'[m] = untallied[m] \ {i}
        /\ \A n \in Msgs \ {m} : untallied'[n] = untallied[n]
        /\ \A u \in Units \ {<<m, i>>} : added'[u] = added[u]
        /\ added'[<<m, i>>] = clock
        /\ verdict' = verdict /\ answered' = answered
        /\ \A n \in Msgs : phase[n] = "dropped" => phase'[n] = "dropped"
    BY <1>4, AddMsgFacts DEF answerVars
  <2>2. ASSUME NEW n \in Msgs, NEW k \in 1 .. Extra, phase[n] # "dropped",
               verdict[n] = "Permit", k \notin untallied'[n]
        PROVE  answered[n] <= added'[<<n, k>>]
    <3>1. CASE <<n, k>> = <<m, i>>
      BY <1>1, <2>1, <3>1 DEF Times
    <3>2. CASE <<n, k>> # <<m, i>>
      <4>1. added'[<<n, k>>] = added[<<n, k>>] /\ k \notin untallied[n]
        BY <1>1, <2>1, <2>2, <3>2
      <4> QED
        BY <2>2, <4>1 DEF AddedAfter
    <3> QED
      BY <3>1, <3>2
  <2> QED
    BY <2>1, <2>2 DEF AddedAfter
<1>5. ASSUME NEW m \in Msgs, Poll(m) \/ Count(m) \/ Remove(m) \/ Recount(m)
      PROVE  AddedAfter'
  <2>1. UNCHANGED <<answerVars, untallied, added>>
    BY <1>5 DEF Poll, Count, Remove, Recount, setVars
  <2>2. phase[m] # "dropped" /\ \A n \in Msgs \ {m} : phase'[n] = phase[n]
    <3>1. phase[m] # "dropped"
      BY <1>5 DEF Poll, Count, Remove, Recount
    <3> QED
      BY <1>5, <3>1, PollFacts, CountFacts, RemoveFacts
  <2> QED
    BY <1>2, <2>1, <2>2
<1>6. CASE Tick \/ UNCHANGED vars
  <2>1. UNCHANGED <<phase, answerVars, untallied, added>>
    BY <1>6 DEF Tick, vars, setVars
  <2> QED
    BY <1>2, <2>1
<1> QED
  BY <1>3, <1>4, <1>5, <1>6 DEF Next, MessageStep, Ended
-----------------------------------------------------------------------------
(* A step after which the same messages have begun, none that was done     *)
(* changed, and none passes that did not or was not counted to, keeps the  *)
(* history.                                                                *)
LEMMA HistoryKept ==
  ASSUME BaseInv, BaseInv', NEW before \in Histories, NEW beside \in Histories,
         History(before, beside), clock <= clock', now' = now,
         \A n \in Msgs : phase'[n] = "new" <=> phase[n] = "new",
         \A n \in Msgs : phase[n] \in Over =>
           /\ phase'[n] = phase[n] /\ count'[n] = count[n]
           /\ verdict'[n] = verdict[n] /\ answered'[n] = answered[n]
           /\ \A i \in 1 .. Extra : added'[<<n, i>>] = added[<<n, i>>],
         \A m \in Msgs : Passes(m)' =>
           Passes(m) \/ Extra + Cardinality(PermittedOf(before[m])) <= Curb
  PROVE  History(before, beside)'
<1>1. ASSUME NEW m \in Msgs, Passes(m)'
      PROVE  Extra + Cardinality(PermittedOf(before[m])') <= Curb
  <2>1. \A n \in before[m] : /\ n \in Msgs /\ PermittedWithin(n)' = PermittedWithin(n)
                            /\ answered'[n] = answered[n]
    <3>1. \A n \in before[m] : /\ n \in Msgs /\ phase'[n] = phase[n] /\ count'[n] = count[n]
                              /\ verdict'[n] = verdict[n] /\ answered'[n] = answered[n]
      BY DEF History, Histories
    <3> QED
      BY <3>1 DEF PermittedWithin, Exceeds
  <2>2. clock \in Nat /\ clock' \in Nat /\ Period \in Nat
        /\ \A u \in Units : u[1] \in Msgs /\ answered[u[1]] \in Nat
    BY QuotaAssumption DEF BaseInv, TypeOK, Units
  <2>3. PermittedOf(before[m])' \subseteq PermittedOf(before[m])
    BY <2>1, <2>2 DEF PermittedOf
  <2>4. PermittedOf(before[m]) \subseteq Units
    BY DEF PermittedOf
  <2>5. Cardinality(PermittedOf(before[m])') <= Cardinality(PermittedOf(before[m]))
        /\ Cardinality(PermittedOf(before[m])') \in Nat
        /\ Cardinality(PermittedOf(before[m])) \in Nat
    BY <2>3, <2>4, FewerUnits, SetsOfUnits
  <2>6. Extra + Cardinality(PermittedOf(before[m])) <= Curb
    BY <1>1 DEF History
  <2> QED
    BY <2>5, <2>6, QuotaAssumption
<1>2. \A m \in Msgs : before[m] \subseteq Msgs /\ beside[m] \subseteq Msgs
  BY DEF Histories
<1>3. ASSUME NEW m \in Msgs, NEW n \in before[m]
      PROVE  /\ phase'[n] \in Over
             /\ verdict'[n] = "Permit" => \A i \in 1 .. Extra : added'[<<n, i>>] <= now'[m]
  BY <1>2 DEF History
<1>4. ASSUME NEW m \in Msgs
      PROVE  LET polled == before[m] \cup beside[m]
             IN /\ phase'[m] # "new" => Cardinality(beside[m]) <= MaxInFlight - 1
                /\ m \notin polled
                /\ \A n \in polled : /\ phase'[n] # "new"
                                     /\ before[n] \cup beside[n] \subseteq polled
                /\ \A n \in Msgs \ {m} :
                     phase'[m] # "new" /\ phase'[n] # "new" =>
                       n \in polled \/ m \in before[n] \cup beside[n]
  BY <1>2 DEF History
<1> QED
  BY <1>1, <1>3, <1>4 DEF History

(* What a message counts includes every unit that was permitted in the     *)
(* period, if the message was done when the check began: it was added by   *)
(* then, it is still there, and it is in the range.                        *)
LEMMA Counted ==
  ASSUME StateInv, ~RedisFails, "Permit" \in TallyStatuses,
         NEW before \in Histories, NEW beside \in Histories,
         History(before, beside), NEW m \in Msgs, NEW n \in Counts(m)
  PROVE  Cardinality(PermittedOf(before[m])) <= n
<1> DEFINE S == {u \in Units : tallies[u] # NoScore
                               /\ tallies[u] \in (now[m] - Period) .. now[m]}
<1>1. n = Cardinality(S)
  BY DEF Counts, ZCount
<1>2. PermittedOf(before[m]) \subseteq S
  <2>1. ASSUME NEW u \in PermittedOf(before[m]) PROVE u \in S
    <3>1. u \in Units /\ u[1] \in before[m] /\ verdict[u[1]] = "Permit"
          /\ clock < answered[u[1]] + Period /\ phase[u[1]] \in {"tallying", "done"}
      BY <2>1 DEF PermittedOf, PermittedWithin
    <3>2. u = <<u[1], u[2]>> /\ u[1] \in Msgs /\ u[2] \in 1 .. Extra
      BY <3>1 DEF Units
    <3>3. phase[u[1]] = "done" /\ added[u] <= now[m]
      BY <3>1, <3>2 DEF History, Over
    <3>4. answered[u[1]] <= added[u]
      <4>1. u[2] \notin untallied[u[1]]
        BY <3>2, <3>3 DEF StateInv, BaseInv, Progress
      <4> QED
        BY <3>1, <3>2, <3>3, <4>1 DEF StateInv, AddedAfter
    <3>5. /\ now[m] \in Nat /\ now[m] <= clock /\ clock \in Nat /\ Period \in Nat
          /\ answered[u[1]] \in Nat /\ added[u] \in Int
      BY <3>1, <3>2, QuotaAssumption DEF StateInv, BaseInv, TypeOK, Times, NoScore
    <3>6. added[u] # NoScore
      BY <3>4, <3>5 DEF NoScore
    <3>7. tallies[u] = added[u]
      BY <3>1, <3>4, <3>5, <3>6 DEF StateInv, Remembered
    <3> QED
      BY <3>1, <3>3, <3>4, <3>5, <3>6, <3>7
  <2> QED
    BY <2>1
<1> QED
  BY <1>1, <1>2, FewerUnits


LEMMA CountKeepsHistory ==
  ASSUME StateInv, ~RedisFails, "Permit" \in TallyStatuses,
         NEW before \in Histories, NEW beside \in Histories,
         History(before, beside), NEW m \in Msgs, Count(m) \/ Recount(m)
  PROVE  History(before, beside)'
<1>1. /\ BaseInv /\ BaseInv' /\ phase[m] \in {"polling", "recounting"}
      /\ phase'[m] \in {"removing", "weighing"}
      /\ \A n \in Msgs \ {m} : phase'[n] = phase[n] /\ count'[n] = count[n]
      /\ count'[m] \in Counts(m)
      /\ UNCHANGED <<clock, now, verdict, answered, added>>
  BY CountFacts DEF StateInv, answerVars, setVars
<1>2. \A n \in Msgs : phase'[n] = "new" <=> phase[n] = "new"
  BY <1>1
<1>3. \A n \in Msgs : phase[n] \in Over => phase'[n] = phase[n] /\ count'[n] = count[n]
  BY <1>1 DEF Over
<1>4. \A k \in Msgs \ {m} : Passes(k)' => Passes(k)
  BY <1>1 DEF Passes, PermittedWithin, Exceeds
<1>5. ASSUME Passes(m)' PROVE Extra + Cardinality(PermittedOf(before[m])) <= Curb
  <2>2. ~(count'[m] + Extra > Curb)
    BY <1>5 DEF Passes, PermittedWithin, Exceeds
  <2>3. Cardinality(PermittedOf(before[m])) <= count'[m]
    BY <1>1, Counted
  <2>4. count'[m] \in Nat /\ Cardinality(PermittedOf(before[m])) \in Nat
    BY <1>1, CountsType, SetsOfUnits DEF PermittedOf
  <2> QED
    BY <2>2, <2>3, <2>4, QuotaAssumption
<1>6. clock <= clock'
  BY <1>1 DEF BaseInv, TypeOK
<1> QED
  BY <1>1, <1>2, <1>3, <1>4, <1>5, <1>6, HistoryKept

(* A message that begins its check has those over before it, and beside it *)
(* those in flight, of which there is room for it.                         *)
LEMMA PollMakesHistory ==
  ASSUME StateInv, NEW before \in Histories, NEW beside \in Histories,
         History(before, beside), NEW m \in Msgs, Poll(m),
         NEW bf, bf = [before EXCEPT ![m] = {n \in Msgs : phase[n] \in Over}],
         NEW bs, bs = [beside EXCEPT ![m] = InFlight]
  PROVE  bf \in Histories /\ bs \in Histories /\ History(bf, bs)'
<1>1. /\ BaseInv /\ BaseInv' /\ phase[m] = "new" /\ phase'[m] = "polling"
      /\ \A n \in Msgs \ {m} : phase'[n] = phase[n] /\ now'[n] = now[n]
      /\ now'[m] = clock
      /\ UNCHANGED <<clock, count, verdict, answered, added>>
      /\ Cardinality(InFlight) < MaxInFlight
  BY PollFacts DEF StateInv, answerVars, setVars, Poll
<1>2. /\ bf \in Histories /\ bs \in Histories
      /\ bf[m] = {n \in Msgs : phase[n] \in Over} /\ bs[m] = InFlight
      /\ \A k \in Msgs \ {m} : bf[k] = before[k] /\ bs[k] = beside[k]
  BY DEF Histories, InFlight, Over
<1>3. \A k \in Msgs : m \notin before[k] \cup beside[k]
                      /\ before[k] \subseteq Msgs /\ beside[k] \subseteq Msgs
  BY <1>1 DEF History, Histories
<1>4. bf[m] \cup bs[m] = {n \in Msgs : phase[n] # "new"}
  <2>1. \A n \in Msgs : phase[n] \in Over => phase[n] # "new"
    BY DEF Over
  <2> QED
    BY <1>2, <2>1 DEF InFlight, Over
<1>5. Cardinality(bs[m]) <= MaxInFlight - 1
  <2>1. InFlight \in SUBSET Msgs
    BY DEF InFlight
  <2>2. Cardinality(InFlight) \in Nat /\ MaxInFlight \in Nat
    BY <2>1, SetsOfMsgs, QuotaAssumption
  <2> QED
    BY <1>1, <1>2, <2>2
<1>6. \A k \in Msgs : /\ phase'[k] # "new" => Cardinality(bs[k]) <= MaxInFlight - 1
                      /\ k \notin bf[k] \cup bs[k]
  BY <1>1, <1>2, <1>4, <1>5 DEF History
<1>7. ASSUME NEW k \in Msgs, NEW n \in bf[k] \cup bs[k]
      PROVE  phase'[n] # "new" /\ bf[n] \cup bs[n] \subseteq bf[k] \cup bs[k]
  <2>1. CASE k = m
    <3>1. n \in Msgs \ {m} /\ phase[n] # "new" /\ phase'[n] # "new"
      BY <1>1, <1>4, <1>7, <2>1
    <3>2. ASSUME NEW j \in before[n] \cup beside[n] PROVE j \in Msgs /\ phase[j] # "new"
      BY <1>3, <3>1, <3>2 DEF History
    <3> QED
      BY <1>2, <1>4, <2>1, <3>1, <3>2
  <2>2. CASE k # m
    <3>1. n \in Msgs \ {m} /\ n \in before[k] \cup beside[k]
      BY <1>2, <1>3, <1>7, <2>2
    <3> QED
      BY <1>1, <1>2, <2>2, <3>1 DEF History
  <2> QED
    BY <2>1, <2>2
<1>8. ASSUME NEW k \in Msgs, NEW n \in Msgs \ {k}, phase'[k] # "new", phase'[n] # "new"
      PROVE  n \in bf[k] \cup bs[k] \/ k \in bf[n] \cup bs[n]
  <2>1. CASE k = m \/ n = m
    BY <1>1, <1>4, <1>8, <2>1
  <2>2. CASE k # m /\ n # m
    BY <1>1, <1>2, <1>8, <2>2 DEF History
  <2> QED
    BY <2>1, <2>2
<1>9. ASSUME NEW k \in Msgs, NEW n \in bf[k]
      PROVE  /\ phase'[n] \in Over
             /\ verdict'[n] = "Permit" => \A i \in 1 .. Extra : added'[<<n, i>>] <= now'[k]
  <2>1. CASE k = m
    <3>1. n \in Msgs \ {m} /\ phase[n] \in Over
      BY <1>1, <1>2, <1>9, <2>1 DEF Over
    <3>2. \A i \in 1 .. Extra : added[<<n, i>>] <= clock
      BY <1>1, <3>1 DEF BaseInv, Times, Units
    <3> QED
      BY <1>1, <2>1, <3>1, <3>2
  <2>2. CASE k # m
    <3>1. n \in Msgs \ {m} /\ n \in before[k]
      BY <1>2, <1>3, <1>9, <2>2
    <3> QED
      BY <1>1, <2>2, <3>1 DEF History
  <2> QED
    BY <2>1, <2>2
<1>10. ASSUME NEW k \in Msgs, Passes(k)'
       PROVE  Extra + Cardinality(PermittedOf(bf[k])') <= Curb
  <2>1. k # m
    BY <1>1, <1>10 DEF Passes, PermittedWithin
  <2>2. Passes(k)
    BY <1>1, <1>10, <2>1 DEF Passes, PermittedWithin, Exceeds
  <2>3. PermittedOf(bf[k])' = PermittedOf(before[k])
    <3>1. \A n \in Msgs \ {m} : PermittedWithin(n)' = PermittedWithin(n)
      BY <1>1 DEF PermittedWithin, Exceeds
    <3>2. \A n \in before[k] : n \in Msgs \ {m}
      BY <1>3
    <3> QED
      BY <1>1, <1>2, <2>1, <3>1, <3>2 DEF PermittedOf
  <2> QED
    BY <2>2, <2>3 DEF History
<1>11. ASSUME NEW k \in Msgs
       PROVE  LET polled == bf[k] \cup bs[k]
              IN /\ phase'[k] # "new" => Cardinality(bs[k]) <= MaxInFlight - 1
                 /\ k \notin polled
                 /\ \A n \in polled : /\ phase'[n] # "new"
                                      /\ bf[n] \cup bs[n] \subseteq polled
                 /\ \A n \in Msgs \ {k} :
                      phase'[k] # "new" /\ phase'[n] # "new" =>
                        n \in polled \/ k \in bf[n] \cup bs[n]
  BY <1>6, <1>7, <1>8
<1> QED
  BY <1>2, <1>9, <1>10, <1>11 DEF History


LEMMA QuotaStep ==
  ASSUME QuotaInv, ~RedisFails, Ttl >= Period, "Permit" \in TallyStatuses, [Next]_vars
  PROVE  QuotaInv'
<1>1. StateInv /\ BaseInv /\ BaseInv' /\ StateInv'
  BY BaseStep, RememberedStep, AddedAfterStep DEF QuotaInv, StateInv
<1>2. PICK before \in Histories, beside \in Histories : History(before, beside)
  BY DEF QuotaInv
<1>3. SUFFICES ASSUME ~ \E m \in Msgs : Poll(m) \/ Count(m) \/ Recount(m)
               PROVE  History(before, beside)'
  <2>1. ASSUME NEW m \in Msgs, Poll(m)
        PROVE  \E bf, bs \in Histories : History(bf, bs)'
    <3>1. \E bf, bs : /\ bf = [before EXCEPT ![m] = {n \in Msgs : phase[n] \in Over}]
                      /\ bs = [beside EXCEPT ![m] = InFlight]
      OBVIOUS
    <3> QED
      BY <1>1, <1>2, <2>1, <3>1, PollMakesHistory
  <2>2. ASSUME NEW m \in Msgs, Count(m) \/ Recount(m)
        PROVE  History(before, beside)'
    BY <1>1, <1>2, <2>2, CountKeepsHistory
  <2> QED
    BY <1>1, <2>1, <2>2 DEF QuotaInv
<1>4. clock \in Nat /\ \A n \in Msgs, i \in 1 .. Extra : <<n, i>> \in Units
  BY <1>1 DEF BaseInv, TypeOK, Units
<1>5. ASSUME NEW m \in Msgs, Remove(m) PROVE History(before, beside)'
  <2>1. /\ phase[m] = "removing" /\ phase'[m] = "recounting"
        /\ \A n \in Msgs \ {m} : phase'[n] = phase[n]
        /\ UNCHANGED <<clock, now, count, verdict, answered, added>>
    BY <1>1, <1>5, RemoveFacts DEF checkVars, answerVars
  <2>3. \A n \in Msgs : phase[n] \in Over => phase'[n] = phase[n]
    BY <2>1 DEF Over
  <2>2. \A k \in Msgs : Passes(k)' => Passes(k)
    BY <2>1 DEF Passes, PermittedWithin, Exceeds
  <2> QED
    BY <1>1, <1>2, <1>4, <2>1, <2>2, <2>3, HistoryKept
<1>6. ASSUME NEW m \in Msgs, Weigh(m) PROVE History(before, beside)'
  <2>1. /\ phase[m] = "weighing" /\ phase'[m] \in {"tallying", "done", "dropped"}
        /\ \A n \in Msgs \ {m} : /\ phase'[n] = phase[n] /\ verdict'[n] = verdict[n]
                                /\ answered'[n] = answered[n]
        /\ UNCHANGED <<clock, now, count, added>>
    BY <1>1, <1>6, WeighFacts DEF checkVars, setVars, Answered, Over
  <2>2. \A k \in Msgs : Passes(k)' => Passes(k)
    BY <2>1 DEF Passes, PermittedWithin, Exceeds
  <2>3. \A n \in Msgs : /\ phase'[n] = "new" <=> phase[n] = "new"
                        /\ phase[n] \in Over => n # m
    BY <2>1 DEF Over
  <2> QED
    BY <1>1, <1>2, <1>4, <2>1, <2>2, <2>3, HistoryKept
<1>7. ASSUME NEW m \in Msgs, NEW i \in 1 .. Extra, AddMsg(m, i)
      PROVE  History(before, beside)'
  <2>1. /\ phase[m] = "tallying" /\ phase'[m] \in {"tallying", "done"}
        /\ \A n \in Msgs \ {m} : phase'[n] = phase[n]
        /\ \A u \in Units \ {<<m, i>>} : added'[u] = added[u]
        /\ UNCHANGED <<clock, now, count, verdict, answered>>
    BY <1>1, <1>7, AddMsgFacts DEF checkVars, answerVars, Answered, Over
  <2>2. \A k \in Msgs : Passes(k)' => Passes(k)
    BY <2>1 DEF Passes, PermittedWithin, Exceeds
  <2>3. \A n \in Msgs : /\ phase'[n] = "new" <=> phase[n] = "new"
                        /\ phase[n] \in Over => n # m
    BY <2>1 DEF Over
  <2>4. \A n \in Msgs \ {m} : \A k \in 1 .. Extra : added'[<<n, k>>] = added[<<n, k>>]
    BY <1>4, <2>1
  <2> QED
    BY <1>1, <1>2, <1>4, <2>1, <2>2, <2>3, <2>4, HistoryKept
<1>8. CASE Tick \/ UNCHANGED vars
  <2>1. clock <= clock' /\ UNCHANGED <<phase, now, count, verdict, answered, added>>
    BY <1>4, <1>8 DEF Tick, vars, checkVars, answerVars, setVars
  <2>2. \A k \in Msgs : Passes(k)' => Passes(k)
    BY <2>1 DEF Passes, PermittedWithin, Exceeds
  <2> QED
    BY <1>1, <1>2, <2>1, <2>2, HistoryKept
<1> QED
  BY <1>3, <1>5, <1>6, <1>7, <1>8 DEF Next, MessageStep, Ended

LEMMA QuotaInit == Init => QuotaInv
<1> SUFFICES ASSUME Init PROVE QuotaInv
  OBVIOUS
<1>1. BaseInv /\ Remembered
  BY BaseInit DEF Init, Remembered, NoTallies
<1>2. AddedAfter
  BY DEF Init, AddedAfter
<1>3. History([m \in Msgs |-> {}], [m \in Msgs |-> {}])
  BY DEF Init, History, Passes, PermittedWithin
<1>4. [m \in Msgs |-> {}] \in Histories
  BY DEF Histories
<1> QED
  BY <1>1, <1>2, <1>3, <1>4 DEF QuotaInv, StateInv
-----------------------------------------------------------------------------
\* The messages that were permitted in the period.
PermittedMsgs == {m \in Msgs : PermittedWithin(m) /\ clock < answered[m] + Period}

(* Of some messages that have begun there is a last one: all the others    *)
(* were done, or in flight, when it began.                                 *)
LEMMA LastOfSome ==
  ASSUME NEW before \in Histories, NEW beside \in Histories, History(before, beside),
         NEW M \in SUBSET Msgs, M # {}, \A m \in M : phase[m] # "new"
  PROVE  \E x \in M : M \ {x} \subseteq before[x] \cup beside[x]
<1> DEFINE polled(m) == before[m] \cup beside[m]
           later(m) == Msgs \ polled(m)
           S == {later(m) : m \in M}
<1>1. IsWellFoundedOn(StrictSubsetOrdering(Msgs), SUBSET Msgs)
  BY QuotaAssumption, FS_StrictSubsetOrderingWellFounded, FS_FiniteSubsetsOfFinite
<1>2. S \subseteq SUBSET Msgs /\ S # {}
  OBVIOUS
<1>3. PICK L \in S : \A K \in S : <<K, L>> \notin StrictSubsetOrdering(Msgs)
  <2> HIDE DEF S
  <2> QED
    BY <1>1, <1>2, WFMin
<1>4. PICK x \in M : L = later(x)
  OBVIOUS
<1>5. ASSUME NEW y \in M \ {x}, y \notin polled(x) PROVE FALSE
  <2>1. x \in polled(y) /\ x \notin polled(x) /\ polled(x) \subseteq polled(y)
    BY <1>5 DEF History
  <2>2. later(y) \subseteq later(x) /\ later(y) # later(x)
    BY <2>1
  <2>3. <<later(y), later(x)>> \in StrictSubsetOrdering(Msgs)
    BY <2>2 DEF StrictSubsetOrdering
  <2> QED
    BY <1>3, <1>4, <2>3
<1> QED
  BY <1>5

\* The units of a set of messages.
LEMMA UnitsOf ==
  ASSUME NEW M \in SUBSET Msgs
  PROVE  /\ M \X (1 .. Extra) \in SUBSET Units
         /\ Cardinality(M \X (1 .. Extra)) = Cardinality(M) * Extra
<1>1. Extra \in Nat \ {0} /\ IsFiniteSet(1 .. Extra) /\ Cardinality(1 .. Extra) = Extra
  BY QuotaAssumption, FS_Interval
<1>2. IsFiniteSet(M)
  BY SetsOfMsgs
<1>3. Cardinality(M \X (1 .. Extra)) = Cardinality(M) * Extra
  BY <1>1, <1>2, FS_Product
<1> QED
  BY <1>3 DEF Units

\* A union has no more units than its parts together.
LEMMA UnionOfUnits ==
  ASSUME NEW S \in SUBSET Units, NEW T \in SUBSET Units
  PROVE  Cardinality(S \cup T) <= Cardinality(S) + Cardinality(T)
<1>1. /\ IsFiniteSet(S) /\ IsFiniteSet(T)
      /\ Cardinality(S \cup T) = Cardinality(S) + Cardinality(T) - Cardinality(S \cap T)
  BY SetsOfUnits, FS_Union
<1>2. Cardinality(S) \in Nat /\ Cardinality(T) \in Nat /\ Cardinality(S \cap T) \in Nat
  BY SetsOfUnits
<1> QED
  BY <1>1, <1>2

(* The last of the messages that were permitted in the period has its own  *)
(* units, those it counted, which left room for its own, and those of the  *)
(* messages in flight with it.                                             *)
LEMMA OvershootFollows == QuotaInv => OvershootBounded
<1> SUFFICES ASSUME QuotaInv PROVE OvershootBounded
  OBVIOUS
<1>1. PICK before \in Histories, beside \in Histories : History(before, beside)
  BY DEF QuotaInv
<1>2. BaseInv /\ TypeOK
  BY DEF QuotaInv, StateInv, BaseInv
<1>3. /\ Extra \in Nat \ {0} /\ MaxInFlight \in Nat \ {0} /\ Curb \in Nat
      /\ clock \in Nat /\ Period \in Nat
  BY <1>2, QuotaAssumption DEF TypeOK
<1>4. \A u \in PermittedAt(clock) : u[1] \in PermittedMsgs /\ u[2] \in 1 .. Extra
                                    /\ u = <<u[1], u[2]>> /\ u \in Units
  BY <1>2, <1>3 DEF PermittedAt, PermittedMsgs, Units, TypeOK
<1>5. CASE PermittedMsgs = {}
  <2>1. Cardinality(PermittedAt(clock)) = 0
    BY <1>4, <1>5, FS_EmptySet
  <2>2. (MaxInFlight - 1) * Extra \in Nat
    BY <1>3
  <2> QED
    BY <1>3, <2>1, <2>2 DEF OvershootBounded
<1>6. CASE PermittedMsgs # {}
  <2>1. \A m \in PermittedMsgs : phase[m] # "new" /\ Passes(m)
    BY DEF PermittedMsgs, PermittedWithin, Passes
  <2>2. PICK x \in PermittedMsgs : PermittedMsgs \ {x} \subseteq before[x] \cup beside[x]
    <3>1. PermittedMsgs \in SUBSET Msgs
      BY DEF PermittedMsgs
    <3> QED
      BY <1>1, <1>6, <2>1, <3>1, LastOfSome
  <2> DEFINE own == {x} \X (1 .. Extra)
             counted == PermittedOf(before[x])
             others == beside[x] \X (1 .. Extra)
  <2>3. x \in Msgs /\ beside[x] \in SUBSET Msgs /\ before[x] \in SUBSET Msgs
    BY DEF PermittedMsgs, Histories
  <2>4. PermittedAt(clock) \subseteq (own \cup counted) \cup others
    BY <1>4, <2>2 DEF PermittedMsgs, PermittedOf
  <2>5. own \in SUBSET Units /\ counted \in SUBSET Units /\ others \in SUBSET Units
    BY <2>3, UnitsOf DEF PermittedOf
  <2>6. Cardinality(own) = Extra
    <3>1. Cardinality({x}) = 1 /\ Cardinality(own) = Cardinality({x}) * Extra
      BY <2>3, UnitsOf, FS_Singleton
    <3> QED
      BY <1>3, <3>1
  <2>7. Extra + Cardinality(counted) <= Curb
    BY <1>1, <2>1, <2>3 DEF History
  <2>8. Cardinality(others) <= (MaxInFlight - 1) * Extra
    <3>1. Cardinality(beside[x]) <= MaxInFlight - 1 /\ Cardinality(beside[x]) \in Nat
      BY <1>1, <2>1, <2>3, SetsOfMsgs DEF History
    <3>2. Cardinality(others) = Cardinality(beside[x]) * Extra
      BY <2>3, UnitsOf
    <3>3. \A a, b, c \in Nat : a <= b => a * c <= b * c
      OBVIOUS
    <3>4. Cardinality(beside[x]) * Extra <= (MaxInFlight - 1) * Extra
      <4>1. MaxInFlight - 1 \in Nat /\ Extra \in Nat
        BY <1>3
      <4> QED
        BY <3>1, <3>3, <4>1
    <3> QED
      BY <3>2, <3>4
  <2> HIDE DEF own, counted, others
  <2>9. Cardinality(PermittedAt(clock)) <= Cardinality((own \cup counted) \cup others)
    BY <2>4, <2>5, FewerUnits
  <2>10. /\ Cardinality(own \cup counted) <= Cardinality(own) + Cardinality(counted)
         /\ Cardinality((own \cup counted) \cup others)
              <= Cardinality(own \cup counted) + Cardinality(others)
    BY <2>5, UnionOfUnits
  <2>11. /\ Cardinality(PermittedAt(clock)) \in Nat /\ Cardinality(counted) \in Nat
         /\ Cardinality(own \cup counted) \in Nat /\ Cardinality(others) \in Nat
         /\ Cardinality((own \cup counted) \cup others) \in Nat
    BY <2>4, <2>5, SetsOfUnits
  <2>12. (MaxInFlight - 1) * Extra \in Nat
    BY <1>3
  <2> QED
    BY <1>3, <2>6, <2>7, <2>8, <2>9, <2>10, <2>11, <2>12 DEF OvershootBounded
<1> QED
  BY <1>5, <1>6

(* Of the messages whose verdict waited for this check, which found them   *)
(* within the quota, no more units are permitted in a period than the      *)
(* quota allows, plus those of all messages but one that may be in flight  *)
(* together: checks that overlap overshoot the quota by no more than that, *)
(* whatever their interleaving and whatever the breaker drops, if tallies  *)
(* are kept for a period and include the permitted.                        *)
THEOREM OvershootCorrect ==
  ASSUME ~RedisFails, Ttl >= Period, "Permit" \in TallyStatuses
  PROVE  Spec => []OvershootBounded
<1>1. QuotaInv /\ [Next]_vars => QuotaInv'
  BY QuotaStep
<1> QED
  BY <1>1, QuotaInit, OvershootFollows, PTL DEF Spec
-----------------------------------------------------------------------------
(* The definitions of the quotas.                                         *)

LEMMA NoneIsDefinitions == None \in Definitions
BY DefinitionsAssumption DEF None, Definitions

(* Pruning a list that has duplicates writes one that has some.            *)
LEMMA OnceIsDefinitions ==
  ASSUME NEW l \in [Defs -> Nat], Duplicates(l)
  PROVE  Once(Support(l)) \in Definitions /\ Once(Support(l)) # None
<1>1. PICK d \in Defs : l[d] > 1
  BY DEF Duplicates
<1>2. d \in Support(l)
  BY <1>1 DEF Support
<1>3. Once(Support(l))[d] = 1 /\ None[d] = 0
  BY <1>2 DEF Once, None
<1>4. Once(Support(l)) \in Definitions
  BY DefinitionsAssumption DEF Once, Definitions
<1>5. QED
  BY <1>3, <1>4

-----------------------------------------------------------------------------
(* Nobody starts an insertion before its last one is over.                 *)
OneAtATime ==
  /\ \A h \in Hosts : importing[h] # "inserting" => inserting[h] = "no"
  /\ \A c \in Checks : check[c] \notin {"inserting", "pruning"} => inserting[c] = "no"

(* What a step does to the insertions: none but somebody's Del or LPush    *)
(* touches the list, and who starts one was given definitions.             *)
InsertsSome(p) ==
  \E l \in Definitions : l # None /\ Insert(p, l)

InsertsAfresh(p) == InsertsSome(p) /\ (OneAtATime => inserting[p] = "no")

LEMMA StartsInserting ==
  ASSUME DefinitionsTypeOK, [DefinitionsNext]_definitionVars
  PROVE  \/ UNCHANGED <<insertVars, listVars>>
         \/ UNCHANGED listVars /\ \E p \in Callers : InsertsAfresh(p)
         \/ \E p \in Callers : Del(p) \/ LPush(p) \/ CutOff(p)
         \/ KeyExpires
<1> USE DefinitionsAssumption
<1>1. ASSUME NEW h \in Hosts, ImportStep(h) \/ Crash(h)
      PROVE  \/ UNCHANGED <<insertVars, listVars>>
             \/ UNCHANGED listVars /\ InsertsAfresh(h)
  <2>1. rdbms \in Definitions
    BY DEF DefinitionsTypeOK
  <2>2. CASE Schedule(h) \/ Imported(h) \/ Crash(h)
    BY <2>2 DEF Schedule, Imported, Crash, insertVars, listVars
  <2>3. CASE Query(h)
    BY <2>1, <2>3 DEF Query, InsertsSome, InsertsAfresh, OneAtATime, insertVars, listVars
  <2>4. QED
    BY <1>1, <2>2, <2>3 DEF ImportStep
<1>2. ASSUME NEW c \in Checks, NEW to, AfterRead(c, to), UNCHANGED listVars,
             OneAtATime => inserting[c] = "no"
      PROVE  \/ UNCHANGED <<insertVars, listVars>>
             \/ UNCHANGED listVars /\ InsertsAfresh(c)
  <2>1. list \in [Defs -> Nat]
    BY DEF DefinitionsTypeOK
  <2>2. CASE Duplicates(list)
    BY <1>2, <2>1, <2>2, OnceIsDefinitions DEF AfterRead, InsertsSome, InsertsAfresh
  <2>3. CASE ~Duplicates(list)
    BY <1>2, <2>3 DEF AfterRead
  <2>4. QED
    BY <2>2, <2>3
<1>3. ASSUME NEW c \in Checks, CheckStep(c)
      PROVE  \/ UNCHANGED <<insertVars, listVars>>
             \/ UNCHANGED listVars /\ InsertsAfresh(c)
  <2>1. CASE Read(c)
    BY <1>2, <2>1 DEF Read, OneAtATime
  <2>2. CASE InsertRegexes(c)
    BY <2>2 DEF InsertRegexes, InsertsSome, InsertsAfresh, OneAtATime, insertVars, listVars
  <2>3. CASE ReadAgain(c)
    BY <1>2, <2>3 DEF ReadAgain
  <2>4. CASE Pruned(c)
    BY <2>4 DEF Pruned, insertVars, listVars
  <2>5. QED
    BY <1>3, <2>1, <2>2, <2>3, <2>4 DEF CheckStep
<1>4. CASE ScheduleExpires \/ Change \/ RegexesLoad
  BY <1>4 DEF ScheduleExpires, Change, RegexesLoad, insertVars, listVars
<1>5. CASE UNCHANGED definitionVars
  BY <1>5 DEF definitionVars
<1>6. QED
  BY <1>1, <1>3, <1>4, <1>5 DEF DefinitionsNext, InsertStep, Callers

-----------------------------------------------------------------------------
(* DefinitionsTypeOK, in the parts that change together.                              *)
InsertionsTyped ==
  /\ inserting \in [Callers -> {"no", "del", "push"}]
  /\ values \in [Callers -> Definitions]
  /\ \A p \in Callers : inserting[p] = "no" <=> values[p] = None
  /\ list \in [Defs -> Nat]
  /\ inserted \in BOOLEAN

CheckPlaces == {"new", "matching", "inserting", "pruning", "done"}
ChecksTyped ==
  /\ check \in [Checks -> CheckPlaces]
  /\ applied \in [Checks -> SUBSET Defs]

RestTyped ==
  /\ rdbms \in Profiles
  /\ changes \in 0 .. MaxChanges
  /\ scheduled \in BOOLEAN /\ loaded \in BOOLEAN
  /\ importing \in [Hosts -> {"idle", "querying", "inserting"}]
  /\ failures \in 0 .. MaxFailures

(* Every step of the specification keeps every variable in its type.       *)
THEOREM DefinitionsTypeCorrect == DefinitionsSpec => []DefinitionsTypeOK
<1> USE DefinitionsAssumption
<1>1. DefinitionsInit => DefinitionsTypeOK
  <2> SUFFICES ASSUME DefinitionsInit PROVE DefinitionsTypeOK
    OBVIOUS
  <2>1. list \in [Defs -> Nat]
    BY DEF DefinitionsInit, None
  <2>2. /\ inserting \in [Callers -> {"no", "del", "push"}]
        /\ values \in [Callers -> Definitions]
        /\ \A p \in Callers : inserting[p] = "no" <=> values[p] = None
    BY NoneIsDefinitions DEF DefinitionsInit
  <2>3. changes \in 0 .. MaxChanges /\ failures \in 0 .. MaxFailures
    BY DEF DefinitionsInit
  <2>4. importing \in [Hosts -> {"idle", "querying", "inserting"}]
    BY DEF DefinitionsInit
  <2>5. /\ check \in [Checks -> {"new", "matching", "inserting", "pruning", "done"}]
        /\ applied \in [Checks -> SUBSET Defs]
    BY DEF DefinitionsInit
  <2>6. /\ rdbms \in Profiles
        /\ scheduled \in BOOLEAN /\ loaded \in BOOLEAN /\ inserted \in BOOLEAN
    BY DEF DefinitionsInit
  <2>7. QED
    BY <2>1, <2>2, <2>3, <2>4, <2>5, <2>6 DEF DefinitionsTypeOK
<1>2. DefinitionsTypeOK /\ [DefinitionsNext]_definitionVars => DefinitionsTypeOK'
  <2> SUFFICES ASSUME DefinitionsTypeOK, [DefinitionsNext]_definitionVars
               PROVE  DefinitionsTypeOK'
    OBVIOUS
  <2> USE DEF DefinitionsTypeOK
  <2>1. InsertionsTyped'
    <3> USE NoneIsDefinitions DEF InsertionsTyped
    <3>1. CASE UNCHANGED <<insertVars, listVars>>
      BY <3>1 DEF insertVars, listVars
    <3>2. ASSUME NEW p \in Callers, InsertsAfresh(p), UNCHANGED listVars
          PROVE  InsertionsTyped'
      BY <3>2 DEF InsertsAfresh, InsertsSome, Insert, listVars
    <3>3. ASSUME NEW p \in Callers, Del(p)
          PROVE  InsertionsTyped'
      BY <3>3 DEF Del, None
    <3>4. ASSUME NEW p \in Callers, LPush(p)
          PROVE  InsertionsTyped'
      <4>1. values[p] \in [Defs -> Nat]
        BY DEF Definitions
      <4>2. list' \in [Defs -> Nat]
        BY <3>4, <4>1 DEF LPush
      <4>3. QED
        BY <3>4, <4>2 DEF LPush
    <3>5. CASE KeyExpires
      BY <3>5 DEF KeyExpires, insertVars, None
    <3>6. ASSUME NEW p \in Callers, CutOff(p)
          PROVE  InsertionsTyped'
      BY <3>6 DEF CutOff
    <3>7. QED
      BY <3>1, <3>2, <3>3, <3>4, <3>5, <3>6, StartsInserting
  <2>2. ChecksTyped'
    <3> USE DEF ChecksTyped
    <3>1. ASSUME NEW c \in Checks, NEW to \in {"matching", "done"},
                 AfterRead(c, to)
          PROVE  check' \in [Checks -> CheckPlaces] /\ applied' \in [Checks -> SUBSET Defs]
      <4>1. Support(list) \subseteq Defs
        BY DEF Support
      <4>2. QED
        BY <3>1, <4>1 DEF AfterRead, CheckGoes, CheckPlaces
    <3>2. ASSUME NEW c \in Checks, CheckStep(c)
          PROVE  ChecksTyped'
      <4>1. CASE Read(c)
        BY <3>1, <4>1 DEF Read
      <4>2. CASE InsertRegexes(c) \/ Pruned(c)
        BY <4>2 DEF InsertRegexes, Pruned, CheckGoes, CheckPlaces
      <4>3. CASE ReadAgain(c)
        BY <3>1, <4>3 DEF ReadAgain
      <4>4. QED
        BY <3>2, <4>1, <4>2, <4>3 DEF CheckStep
    <3>3. CASE UNCHANGED lookupVars
      BY <3>3 DEF lookupVars, CheckPlaces
    <3>4. QED
      BY <3>2, <3>3 DEF DefinitionsNext, ImportStep, Schedule, Query, Imported, Crash,
         InsertStep, Del, LPush, CutOff, ScheduleExpires, KeyExpires, Change, RegexesLoad, definitionVars
  <2>3. RestTyped'
    <3> USE DEF RestTyped
    <3>1. ASSUME NEW h \in Hosts, ImportStep(h) \/ Crash(h)
          PROVE  RestTyped'
      <4>1. CASE Schedule(h)
        <5>1. failures' \in 0 .. MaxFailures
          BY <4>1, DefinitionsAssumption DEF Schedule
        <5>2. QED
          BY <4>1, <5>1 DEF Schedule, rdbmsVars
      <4>2. CASE Query(h) \/ Imported(h)
        BY <4>2 DEF Query, Imported, rdbmsVars
      <4>3. CASE Crash(h)
        BY <4>3, DefinitionsAssumption DEF Crash, rdbmsVars
      <4>4. QED
        BY <3>1, <4>1, <4>2, <4>3 DEF ImportStep
    <3>2. CASE Change
      BY <3>2 DEF Change, importVars
    <3>3. CASE ScheduleExpires \/ RegexesLoad
      BY <3>3 DEF ScheduleExpires, RegexesLoad, rdbmsVars, importVars
    <3>4. CASE UNCHANGED <<rdbmsVars, importVars, loaded>>
      BY <3>4 DEF rdbmsVars, importVars
    <3>5. ASSUME NEW p \in Callers, CutOff(p)
          PROVE  RestTyped'
      BY <3>5, DefinitionsAssumption DEF CutOff, rdbmsVars
    <3>6. QED
      BY <3>1, <3>2, <3>3, <3>4, <3>5 DEF DefinitionsNext, CheckStep, Read, InsertRegexes,
         ReadAgain, Pruned, InsertStep, Del, LPush, KeyExpires, definitionVars
  <2>4. QED
    BY <2>1, <2>2, <2>3 DEF InsertionsTyped, ChecksTyped, RestTyped, CheckPlaces
<1>3. QED
  BY <1>1, <1>2, PTL DEF DefinitionsSpec

-----------------------------------------------------------------------------
(* OneAtATime is an invariant.                                             *)
THEOREM OneAtATimeCorrect == DefinitionsSpec => []OneAtATime
<1> USE DefinitionsAssumption
<1>1. DefinitionsInit => OneAtATime
  BY DEF DefinitionsInit, OneAtATime, Callers
<1>2. DefinitionsTypeOK /\ OneAtATime /\ [DefinitionsNext]_definitionVars => OneAtATime'
  <2> SUFFICES ASSUME DefinitionsTypeOK, OneAtATime, [DefinitionsNext]_definitionVars
               PROVE  OneAtATime'
    OBVIOUS
  <2> USE DEF DefinitionsTypeOK, OneAtATime, Callers
  <2>1. ASSUME NEW h \in Hosts, ImportStep(h) \/ Crash(h)
        PROVE  OneAtATime'
    BY <2>1 DEF ImportStep, Schedule, Query, Imported, Crash, Insert, lookupVars, insertVars
  <2>2. ASSUME NEW c \in Checks, CheckStep(c)
        PROVE  OneAtATime'
    <3>1. CASE Read(c)
      BY <2>2, <3>1 DEF Read, AfterRead, CheckGoes, Insert, importVars, insertVars
    <3>2. CASE InsertRegexes(c)
      BY <2>2, <3>2 DEF InsertRegexes, CheckGoes, Insert, importVars, insertVars
    <3>3. CASE ReadAgain(c)
      BY <2>2, <3>3 DEF ReadAgain, AfterRead, CheckGoes, Insert, importVars, insertVars
    <3>4. CASE Pruned(c)
      BY <2>2, <3>4 DEF Pruned, CheckGoes, importVars, insertVars
    <3>5. QED
      BY <2>2, <3>1, <3>2, <3>3, <3>4 DEF CheckStep
  <2>3. ASSUME NEW p \in Callers, InsertStep(p) \/ CutOff(p)
        PROVE  OneAtATime'
    BY <2>3 DEF InsertStep, Del, LPush, CutOff, importVars, lookupVars
  <2>4. CASE UNCHANGED <<importing, lookupVars, insertVars>>
    BY <2>4 DEF lookupVars, insertVars
  <2>5. QED
    BY <2>1, <2>2, <2>3, <2>4 DEF DefinitionsNext, ScheduleExpires, KeyExpires, Change,
       RegexesLoad, definitionVars, importVars
<1>3. QED
  BY <1>1, <1>2, DefinitionsTypeCorrect, PTL DEF DefinitionsSpec

-----------------------------------------------------------------------------
(* Once there are definitions, only between somebody's Del and LPush there *)
(* are none.  The invariant is inductive given the types: what is pushed   *)
(* is never empty.                                                         *)
THEOREM DefinedCorrect == DefinitionsSpec => []DefinedUnlessInserting
<1> USE DefinitionsAssumption
<1>1. DefinitionsInit => DefinedUnlessInserting
  BY DEF DefinitionsInit, DefinedUnlessInserting
<1>2. DefinitionsTypeOK /\ OneAtATime /\ DefinedUnlessInserting /\ [DefinitionsNext]_definitionVars
        => DefinedUnlessInserting'
  <2> SUFFICES ASSUME DefinitionsTypeOK, OneAtATime, DefinedUnlessInserting,
                        [DefinitionsNext]_definitionVars,
                      inserted', list' = None
               PROVE  \E p \in Callers : inserting'[p] = "push"
    BY DEF DefinedUnlessInserting
  <2> USE DEF DefinitionsTypeOK, DefinedUnlessInserting
  <2>1. CASE UNCHANGED <<insertVars, listVars>>
    BY <2>1 DEF insertVars, listVars
  <2>2. ASSUME NEW p \in Callers, InsertsAfresh(p), UNCHANGED listVars
        PROVE  \E q \in Callers : inserting'[q] = "push"
    BY <2>2 DEF InsertsAfresh, InsertsSome, Insert, listVars
  <2>3. ASSUME NEW p \in Callers, Del(p)
        PROVE  \E q \in Callers : inserting'[q] = "push"
    BY <2>3 DEF Del
  <2>4. ASSUME NEW p \in Callers, LPush(p)
        PROVE  FALSE
    <3>1. values[p] # None /\ values[p] \in [Defs -> Nat]
      BY <2>4 DEF LPush, Definitions
    <3>2. PICK d \in Defs : values[p][d] # 0
      <4>1. values[p] = [d \in Defs |-> values[p][d]]
        BY <3>1
      <4>2. QED
        BY <3>1, <4>1 DEF None
    <3>3. list'[d] > 0
      <4>1. list[d] \in Nat /\ values[p][d] \in Nat
        BY <3>1
      <4>2. list'[d] = list[d] + values[p][d]
        BY <2>4 DEF LPush
      <4>3. QED
        BY <3>2, <4>1, <4>2
    <3>4. QED
      BY <3>3 DEF None
  <2>5. CASE KeyExpires
    BY <2>5 DEF KeyExpires
  <2>6. ASSUME NEW p \in Callers, CutOff(p)
        PROVE  \E q \in Callers : inserting'[q] = "push"
    <3>1. inserting[p] = "del" /\ inserted /\ list = None
      BY <2>6 DEF CutOff
    <3>2. PICK q \in Callers : inserting[q] = "push"
      BY <3>1
    <3>3. QED
      BY <2>6, <3>1, <3>2 DEF CutOff
  <2>7. QED
    BY <2>1, <2>2, <2>3, <2>4, <2>5, <2>6, StartsInserting
<1>3. QED
  BY <1>1, <1>2, DefinitionsTypeCorrect, OneAtATimeCorrect, PTL DEF DefinitionsSpec

-----------------------------------------------------------------------------
(* Since the last Del, a caller that is about to push has not pushed, and  *)
(* no other has pushed twice.                                              *)
Pushing == {p \in Callers : inserting[p] = "push"}
PushedAtMostOnce ==
  \A d \in Defs : list[d] <= Most * Cardinality(Callers \ Pushing)

\* There are finitely many callers.
LEMMA FiniteCallers ==
  ASSUME NEW S \in SUBSET Callers
  PROVE  IsFiniteSet(S) /\ Cardinality(S) \in Nat /\ Cardinality(S) <= Cardinality(Callers)
<1>1. IsFiniteSet(Callers)
  BY DefinitionsAssumption, FS_Union DEF Callers
<1>2. QED
  BY <1>1, FS_Subset, FS_CardinalityType

(* No definition is in the list more often than all callers together could *)
(* put it there: each of those that are between their Del and their LPush  *)
(* pushed nothing since the list was emptied.                              *)
THEOREM DuplicatesCorrect == DefinitionsSpec => []DuplicatesBounded
<1> USE DefinitionsAssumption
<1>1. DefinitionsInit => PushedAtMostOnce
  <2> SUFFICES ASSUME DefinitionsInit, NEW d \in Defs
               PROVE  list[d] <= Most * Cardinality(Callers \ Pushing)
    BY DEF PushedAtMostOnce
  <2>1. list[d] = 0
    BY DEF DefinitionsInit, None
  <2>2. Cardinality(Callers \ Pushing) \in Nat
    BY FiniteCallers
  <2>3. QED
    BY <2>1, <2>2
<1>2. DefinitionsTypeOK /\ OneAtATime /\ PushedAtMostOnce /\ [DefinitionsNext]_definitionVars => PushedAtMostOnce'
  <2> SUFFICES ASSUME DefinitionsTypeOK, OneAtATime, PushedAtMostOnce, [DefinitionsNext]_definitionVars,
                        NEW d \in Defs
               PROVE  list'[d] <= Most * Cardinality(Callers \ Pushing')
    BY DEF PushedAtMostOnce, Callers
  <2> DEFINE others == Cardinality(Callers \ Pushing)
  <2>1. others \in Nat /\ Cardinality(Callers \ Pushing') \in Nat
    BY FiniteCallers
  <2>2. list[d] <= Most * others /\ list[d] \in Nat
    BY DEF PushedAtMostOnce, DefinitionsTypeOK
  <2>3. CASE UNCHANGED <<insertVars, listVars>>
    BY <2>2, <2>3 DEF insertVars, listVars, Pushing
  <2>4. ASSUME NEW p \in Callers, InsertsAfresh(p), UNCHANGED listVars
        PROVE  list'[d] <= Most * Cardinality(Callers \ Pushing')
    <3>1. Pushing' = Pushing
      BY <2>4 DEF InsertsAfresh, InsertsSome, Insert, Pushing, DefinitionsTypeOK
    <3>2. QED
      BY <2>2, <2>4, <3>1 DEF listVars
  <2>5. ASSUME NEW p \in Callers, Del(p)
        PROVE  list'[d] <= Most * Cardinality(Callers \ Pushing')
    <3>1. list'[d] = 0
      BY <2>5 DEF Del, None
    <3>2. QED
      BY <2>1, <3>1
  <2>6. ASSUME NEW p \in Callers, LPush(p)
        PROVE  list'[d] <= Most * Cardinality(Callers \ Pushing')
    <3>1. /\ Callers \ Pushing' = (Callers \ Pushing) \cup {p}
          /\ p \notin Callers \ Pushing
      BY <2>6 DEF LPush, Pushing, DefinitionsTypeOK
    <3>2. Cardinality(Callers \ Pushing') = others + 1
      BY <3>1, FiniteCallers, FS_AddElement
    <3>3. list'[d] = list[d] + values[p][d] /\ values[p][d] \in 0 .. Most
      BY <2>6 DEF LPush, DefinitionsTypeOK, Definitions
    <3>4. Most * (others + 1) = Most * others + Most
      BY <2>1
    <3>5. Most * others \in Nat
      BY <2>1
    <3>6. QED
      BY <2>2, <3>2, <3>3, <3>4, <3>5
  <2>7. CASE KeyExpires
    <3>1. list'[d] = 0
      BY <2>7 DEF KeyExpires, None
    <3>2. QED
      BY <2>1, <3>1
  <2>8. ASSUME NEW p \in Callers, CutOff(p)
        PROVE  list'[d] <= Most * Cardinality(Callers \ Pushing')
    <3>1. list' = list /\ Callers \ Pushing \in SUBSET (Callers \ Pushing')
      BY <2>8 DEF CutOff, Pushing, DefinitionsTypeOK
    <3>2. others <= Cardinality(Callers \ Pushing')
      BY <3>1, FiniteCallers, FS_Subset
    <3>3. \A a, b \in Nat : a <= b => Most * a <= Most * b /\ Most * a \in Nat
      OBVIOUS
    <3>4. Most * others <= Most * Cardinality(Callers \ Pushing')
      BY <2>1, <3>2, <3>3
    <3>5. Most * others \in Nat /\ Most * Cardinality(Callers \ Pushing') \in Nat
      BY <2>1, <3>3
    <3> HIDE DEF others
    <3>6. QED
      BY <2>2, <3>1, <3>4, <3>5
  <2>9. QED
    BY <2>3, <2>4, <2>5, <2>6, <2>7, <2>8, StartsInserting
<1>3. DefinitionsTypeOK /\ PushedAtMostOnce => DuplicatesBounded
  <2> SUFFICES ASSUME DefinitionsTypeOK, PushedAtMostOnce, NEW d \in Defs
               PROVE  list[d] <= Most * Cardinality(Callers)
    BY DEF DuplicatesBounded
  <2> DEFINE m == Cardinality(Callers \ Pushing)
             n == Cardinality(Callers)
  <2>1. m \in Nat /\ n \in Nat /\ m <= n
    BY FiniteCallers
  <2>2. list[d] <= Most * m /\ list[d] \in Nat
    BY DEF PushedAtMostOnce, DefinitionsTypeOK
  <2> HIDE DEF m, n
  <2>3. Most * m <= Most * n /\ Most * m \in Nat /\ Most * n \in Nat
    BY <2>1
  <2>4. QED
    BY <2>2, <2>3 DEF n
<1>4. QED
  BY <1>1, <1>2, <1>3, DefinitionsTypeCorrect, OneAtATimeCorrect, PTL DEF DefinitionsSpec
=============================================================================
