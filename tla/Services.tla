------------------------------ MODULE Services ------------------------------
(***************************************************************************)
(* The hosts of the cluster finding each other (core/redis.go).  A running *)
(* host puts itself in a Redis set for every minute: the one before, this  *)
(* one and the next, by its own clock; the sets expire.  Who wants to know *)
(* which hosts there are, to show the mail queues of all of them, reads    *)
(* the set of the current minute, by its own clock again.                  *)
(***************************************************************************)
EXTENDS Integers, FiniteSets

CONSTANTS
  Hosts,    \* those that run ClueGetter
  Minute,   \* of the keys: 60 seconds
  Interval, \* of the ticker: 30 seconds
  Ttl,      \* of the keys: 120 seconds
  Late,     \* how late an announcement may be, the host being up
  Skew,     \* how far the clocks of two hosts are apart
  MaxErrors, \* bound: how many announcements meet an error of Redis
  MaxClock  \* bound: time stops there

\* Skew, interval and delay fit in a minute: one key more, on either side, is
\* what an announcement provides for.
ASSUME ServicesAssumption ==
  /\ IsFiniteSet(Hosts)
  /\ {Minute, Interval, Ttl} \subseteq Nat \ {0}
  /\ {Late, Skew, MaxErrors, MaxClock} \subseteq Nat
  /\ Interval + Late + Skew <= Minute
  /\ Interval + Late < Ttl

VARIABLES
  clock,     \* the time
  ahead,     \* how far the clock of a host is ahead of it
  up,        \* the hosts that are running
  announced, \* when a host last announced itself, or Never
  stopped,   \* when a host that is not up stopped, or Never
  members,   \* the sets, by the number of their minute
  expires,   \* when they expire, or Persists
  incomplete, \* the hosts whose last announcement met an error
  errors     \* how many announcements did

setVars == <<members, expires>>
errorVars == <<incomplete, errors>>
servicesVars == <<clock, ahead, up, announced, stopped, setVars, errorVars>>

Never == -1

\* A set that there is not, or on which no Expire succeeded.
Persists == 0

\* The minutes any host can name: before time 0 there is one.
Minutes == -1 .. (MaxClock + Skew) \div Minute + 1

\* now - now % 60, for the clock of host h.
CurrentMinute(h) == (clock + ahead[h]) \div Minute

ServicesInit ==
  /\ clock = 0
  /\ ahead \in [Hosts -> 0 .. Skew]
  /\ up = {}
  /\ announced = [h \in Hosts |-> Never]
  /\ stopped = [h \in Hosts |-> Never]
  /\ members = [k \in Minutes |-> {}]
  /\ expires = [k \in Minutes |-> Persists]
  /\ incomplete = {}
  /\ errors = 0
-----------------------------------------------------------------------------
\* SAdd of the keys in K, then Expire of those in E.
Announce(h, K, E) ==
  /\ members' = [k \in Minutes |-> IF k \in K THEN members[k] \cup {h} ELSE members[k]]
  /\ expires' = [k \in Minutes |->
                   IF k \in E /\ members'[k] # {} THEN clock + Ttl ELSE expires[k]]

\* Mutants of Announced: only this minute and the next, ...
AnnouncedFromNow(h) == {CurrentMinute(h), CurrentMinute(h) + 1}

\* ... or five minutes.
AnnouncedTooFar(h) == {CurrentMinute(h) + i : i \in -1 .. 3} \cap Minutes

\* The keys redisUpdateRunningList sets, in this order.
Announced(h) == {CurrentMinute(h) + i : i \in -1 .. 1}

\* The ticker of a host that is up fires.
Due(h) == announced[h] + Interval <= clock

\* redisUpdateRunningList: when the host starts, and then by the ticker.  It
\* does not look at errors: while some commands fail, for one key or for all,
\* the others may succeed.
UpdateRunningList(h) ==
  /\ announced[h] # clock
  /\ h \notin up \/ Due(h)
  /\ up' = up \cup {h}
  /\ announced' = [announced EXCEPT ![h] = clock]
  /\ stopped' = [stopped EXCEPT ![h] = Never]
  /\ \/ /\ Announce(h, Announced(h), Announced(h))
        /\ incomplete' = incomplete \ {h}
        /\ UNCHANGED errors
     \/ /\ errors < MaxErrors /\ errors' = errors + 1
        /\ incomplete' = incomplete \cup {h}
        /\ \E failed \in {{k} : k \in Announced(h)} \cup {Announced(h)} :
             LET rest == Announced(h) \ failed
             IN Announce(h, rest, rest) \/ Announce(h, Announced(h), rest)
  /\ UNCHANGED <<clock, ahead>>

\* A host stops, or crashes, maybe in the middle of an announcement.
Stop(h) ==
  /\ h \in up
  /\ up' = up \ {h}
  /\ stopped' = [stopped EXCEPT ![h] = clock]
  /\ \/ UNCHANGED setVars
     \/ /\ Due(h)
        /\ \E last \in Announced(h) :
             LET K == {k \in Announced(h) : k <= last} IN Announce(h, K, K)
  /\ UNCHANGED <<clock, ahead, announced, errorVars>>

\* Time passes, but no ticker is later than Late; Redis drops a set when its
\* time has come.
Tick ==
  /\ clock < MaxClock
  /\ \A h \in up : clock < announced[h] + Interval + Late
  /\ clock' = clock + 1
  /\ LET Gone == {k \in Minutes : expires[k] # Persists /\ clock' >= expires[k]}
     IN /\ members' = [k \in Minutes |-> IF k \in Gone THEN {} ELSE members[k]]
        /\ expires' = [k \in Minutes |-> IF k \in Gone THEN Persists ELSE expires[k]]
  /\ UNCHANGED <<ahead, up, announced, stopped, errorVars>>

ServicesNext == (\E h \in Hosts : UpdateRunningList(h) \/ Stop(h)) \/ Tick

ServicesSpec == ServicesInit /\ [][ServicesNext]_servicesVars
-----------------------------------------------------------------------------
\* redisGetServices, asked by host h.
GetServices(h) == members[CurrentMinute(h)]

(* "Display an aggregate of all mail queues that reside in your ClueGetter *)
(* cluster": a host that is up sees every host that is up, at any moment   *)
(* between two announcements and whichever of their clocks is ahead.  The  *)
(* exception is a host whose last announcement met an error of Redis: it   *)
(* may be missing until the next one.                                      *)
RunningAreListed == \A h \in up : up \ incomplete \subseteq GetServices(h)

(* A host that stopped is forgotten: two minutes later, and what the       *)
(* clocks differ, no host lists it, although the others keep the sets it   *)
(* is in from expiring, and a set may have been left without an expiry.    *)
StoppedAreForgotten ==
  \A h \in up : \A g \in GetServices(h) \ up :
    clock < stopped[g] + 2 * Minute + Skew
=============================================================================
