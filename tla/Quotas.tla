------------------------------- MODULE Quotas --------------------------------
(***************************************************************************)
(* One quota (quotas/quotas.go): at most Curb units per Period for one     *)
(* value of one selector, a unit being a message or, for a selector that   *)
(* is not about recipients, a recipient of one.  The check counts the      *)
(* units in Redis, a sorted set scored by time; the units of the message   *)
(* itself are added by callbacks, once the verdict is known.  Between the  *)
(* two other messages, on any instance of the cluster, do the same.        *)
(*                                                                         *)
(* Two assumptions: the clocks of the hosts agree, there is one clock; and *)
(* no process ends with callbacks left to run.                             *)
(***************************************************************************)
EXTENDS CheckResults, FiniteSets

CONSTANTS
  Msgs,          \* the messages the quota applies to
  Extra,         \* the units of each, ExtraCount
  Curb, Period,  \* the quota, from its definition "period_curb"
  Ttl,           \* what AddMsg gives to Expire, 24 hours
  TallyStatuses, \* the verdicts to tally, the tally-status directives
  RedisFails,    \* whether a Redis command may fail: its Val() is then zero
  MaxInFlight,   \* bound: the messages between their check and their tally
  MaxClock       \* bound: the clock stops there

ASSUME QuotaAssumption ==
  /\ IsFiniteSet(Msgs)
  /\ {Extra, MaxInFlight} \subseteq Nat \ {0}
  /\ {Curb, Period, Ttl, MaxClock} \subseteq Nat
  /\ TallyStatuses \subseteq FinalVerdicts
  /\ RedisFails \in BOOLEAN

VARIABLES
  clock,     \* time.Now().Unix()
  phase,     \* where a message is
  now,       \* the time its check read
  count,     \* what Redis counted for it
  verdict,   \* its verdict, or "None"
  answered,  \* when its callbacks were started with that verdict
  untallied, \* the units its callbacks have yet to add
  tallies,   \* the sorted set: score of member "QueueId-i", or NoScore
  expires,   \* when the key of the sorted set expires
  added      \* when a unit was added, even if it was removed since (history)

checkVars == <<now, count>>
answerVars == <<verdict, answered>>
setVars == <<tallies, expires, added>>
vars == <<clock, phase, checkVars, answerVars, untallied, setVars>>

Units == Msgs \X (1 .. Extra)
NoScore == -1
NoTallies == [u \in Units |-> NoScore]

\* A message that is "dropped" has a verdict in which this check had no part.
InFlight == {m \in Msgs : phase[m] \notin {"new", "done", "dropped"}}

Init ==
  /\ clock = 0
  /\ phase = [m \in Msgs |-> "new"]
  /\ now = [m \in Msgs |-> 0]
  /\ count = [m \in Msgs |-> 0]
  /\ verdict = [m \in Msgs |-> "None"]
  /\ answered = [m \in Msgs |-> 0]
  /\ untallied = [m \in Msgs |-> {}]
  /\ tallies = NoTallies
  /\ expires = 0
  /\ added = NoTallies
-----------------------------------------------------------------------------
\* ZCount: from and to are counted in.
ZCount(from, to) ==
  Cardinality({u \in Units : tallies[u] # NoScore /\ tallies[u] \in from .. to})

\* What a ZCount of message m may yield.
Counts(m) ==
  {ZCount(now[m] - Period, now[m])} \cup (IF RedisFails THEN {0} ELSE {})

\* Mutant of Exceeds: the message itself does not count.
ExceedsAlready(n) == n > Curb

Exceeds(n) == n + Extra > Curb

Goes(m, to) == phase' = [phase EXCEPT ![m] = to]

\* PollQuotasBySelectorAndPeriod reads the clock, then asks Redis.
Poll(m) ==
  /\ phase[m] = "new"
  /\ Cardinality(InFlight) < MaxInFlight
  /\ now' = [now EXCEPT ![m] = clock]
  /\ Goes(m, "polling")
  /\ UNCHANGED <<clock, count, answerVars, untallied, setVars>>

Count(m) ==
  /\ phase[m] = "polling"
  /\ \E n \in Counts(m) :
       /\ count' = [count EXCEPT ![m] = n]
       /\ Goes(m, IF Exceeds(n) THEN "removing" ELSE "weighing")
  /\ UNCHANGED <<clock, now, answerVars, untallied, setVars>>

\* Over the limit: what is too old is removed, and the rest counted again.
Remove(m) ==
  /\ phase[m] = "removing"
  /\ \/ tallies' = [u \in Units |-> IF tallies[u] <= now[m] - Period THEN NoScore ELSE tallies[u]]
     \/ RedisFails /\ UNCHANGED tallies
  /\ Goes(m, "recounting")
  /\ UNCHANGED <<clock, checkVars, answerVars, untallied, expires, added>>

\* Mutant of Recount: the first count is used.
RecountSkipped(m) ==
  /\ phase[m] = "recounting"
  /\ Goes(m, "weighing")
  /\ UNCHANGED <<clock, checkVars, answerVars, untallied, setVars>>

Recount(m) ==
  /\ phase[m] = "recounting"
  /\ \E n \in Counts(m) : count' = [count EXCEPT ![m] = n]
  /\ Goes(m, "weighing")
  /\ UNCHANGED <<clock, now, answerVars, untallied, setVars>>

\* The message gets its verdict (module Verdict), which may be any: what this
\* check suggests counts with what the other modules do, each with its weight.
\* Or the message got it without this check: the breaker was reached before,
\* or the decision panicked.  Then what the check returned is dropped, its
\* callbacks too.
Weigh(m) ==
  /\ phase[m] = "weighing"
  /\ \E v \in FinalVerdicts :
       /\ verdict' = [verdict EXCEPT ![m] = v]
       /\ \/ /\ untallied' = [untallied EXCEPT ![m] = IF v \in TallyStatuses THEN 1 .. Extra ELSE {}]
             /\ Goes(m, IF v \in TallyStatuses THEN "tallying" ELSE "done")
          \/ UNCHANGED untallied /\ Goes(m, "dropped")
  /\ answered' = [answered EXCEPT ![m] = clock]
  /\ UNCHANGED <<clock, checkVars, setVars>>

\* The callback AddMsg made for unit i of message m: ZAdd and Expire.
AddMsg(m, i) ==
  /\ phase[m] = "tallying"
  /\ i \in untallied[m]
  /\ untallied' = [untallied EXCEPT ![m] = @ \ {i}]
  /\ Goes(m, IF untallied'[m] = {} THEN "done" ELSE "tallying")
  /\ \/ /\ tallies' = [tallies EXCEPT ![<<m, i>>] = clock]
        /\ expires' = clock + Ttl
        /\ added' = [added EXCEPT ![<<m, i>>] = clock]
     \/ RedisFails /\ UNCHANGED setVars
  /\ UNCHANGED <<clock, checkVars, answerVars>>

\* A second passes; Redis drops the key when its time has come.
Tick ==
  /\ clock < MaxClock
  /\ clock' = clock + 1
  /\ tallies' = IF clock' >= expires THEN NoTallies ELSE tallies
  /\ UNCHANGED <<phase, checkVars, answerVars, untallied, expires, added>>

MessageStep(m) ==
  \/ Poll(m) \/ Count(m) \/ Remove(m) \/ Recount(m) \/ Weigh(m)
  \/ \E i \in 1 .. Extra : AddMsg(m, i)

\* Nothing is left to do within the bounds.
Ended ==
  /\ clock = MaxClock
  /\ \A m \in Msgs : phase[m] \in {"done", "dropped"}
  /\ UNCHANGED vars

Next == (\E m \in Msgs : MessageStep(m)) \/ Tick \/ Ended

Spec == Init /\ [][Next]_vars
-----------------------------------------------------------------------------
\* A message that was permitted with this check heard, which found it within
\* the quota.
PermittedWithin(m) ==
  phase[m] \in {"tallying", "done"} /\ verdict[m] = "Permit" /\ ~Exceeds(count[m])

\* The units so permitted in the period that ends with time t.
PermittedAt(t) ==
  {u \in Units : PermittedWithin(u[1]) /\ answered[u[1]] \in (t - Period + 1) .. t}

(* The check and the tally are not one step, but what that costs has a     *)
(* bound: the units of the messages that were in flight together.  Two     *)
(* kinds of permitted messages are not bounded by the quota, and not       *)
(* counted: those that the breaker, or a panic, answered without this      *)
(* check, whose units are never tallied; and those that it found to exceed *)
(* the quota but the other modules' results, or a weight, had permitted.   *)
OvershootBounded ==
  Cardinality(PermittedAt(clock)) <=
    IF Curb < Extra THEN 0 ELSE Curb + (MaxInFlight - 1) * Extra

(* A message is found to exceed the quota only if it would: the units that *)
(* were tallied in the period before its check leave no room for it,       *)
(* whatever was counted, removed and counted again meanwhile.              *)
ExceedsOnlyIfFull ==
  \A m \in Msgs :
    phase[m] = "weighing" /\ Exceeds(count[m]) =>
      Exceeds(Cardinality(
        {u \in Units : added[u] # NoScore /\ added[u] \in (now[m] - Period + 1) .. now[m]}))
=============================================================================
