-------------------------- MODULE QuotaDefinitions --------------------------
(***************************************************************************)
(* The quotas of one value of one selector, a Redis list of definitions    *)
(* "period_curb" (quotas/quotas.go).  The hosts import them from the       *)
(* database every five minutes; a check of a message that finds none looks *)
(* for regexes that match the value, and puts theirs in the list; a check  *)
(* that finds duplicates writes the list anew.  All three do so by a Del   *)
(* and an LPush that others may come between; nobody asks whether they     *)
(* succeeded.                                                              *)
(***************************************************************************)
EXTENDS Integers, FiniteSets

CONSTANTS
  Hosts,      \* those that import
  Checks,     \* the checks of messages with this value, and ...
  Views,      \* ... those of quotasSasluserStats, for another instance
  Defs,       \* the definitions
  Profiles,   \* what the database may say: how often it has each definition
  Matching,   \* the same of the regexes that match the value
  Most,       \* how often either has one, at most
  MaxChanges, \* bound: how often the database changes
  MaxFailures \* bound: how often an import or a pipeline is cut off, or SetNX
              \* fails

None == [d \in Defs |-> 0]
Definitions == [Defs -> 0 .. Most]

ASSUME DefinitionsAssumption ==
  /\ Hosts \cap Checks = {} /\ Views \subseteq Checks
  /\ Matching \in Definitions
  /\ None \in Profiles /\ Profiles \subseteq Definitions
  /\ IsFiniteSet(Hosts) /\ IsFiniteSet(Checks)
  /\ {MaxChanges, MaxFailures} \subseteq Nat /\ Most \in Nat \ {0}

VARIABLES
  rdbms,     \* the profile in the database
  changes,   \* how often that changed
  scheduled, \* whether quotas-schedule-quotasRedisUpdateFromRdbms is set
  importing, \* where an import is, by host
  failures,  \* how many were cut off or not scheduled
  loaded,    \* whether the regexes were loaded
  check,     \* where a check is
  applied,   \* the definitions it applies
  inserting, \* where insertQuotaDefinitions is, by who called it, ...
  values,    \* ... and what it was given
  list,      \* the list: how often it has each definition
  inserted   \* whether it was ever pushed to, and neither expired nor was left
             \* empty by a pipeline that was cut off (history)

rdbmsVars == <<rdbms, changes>>
importVars == <<scheduled, importing, failures>>
lookupVars == <<check, applied>>
insertVars == <<inserting, values>>
listVars == <<list, inserted>>
definitionVars == <<rdbmsVars, importVars, loaded, lookupVars, insertVars, listVars>>

Callers == Hosts \cup Checks
Support(l) == {d \in Defs : l[d] > 0}
Duplicates(l) == \E d \in Defs : l[d] > 1
Once(D) == [d \in Defs |-> IF d \in D THEN 1 ELSE 0]

DefinitionsInit ==
  /\ rdbms \in Profiles
  /\ changes = 0
  /\ scheduled = FALSE
  /\ importing = [h \in Hosts |-> "idle"]
  /\ failures = 0
  /\ loaded = FALSE
  /\ check = [c \in Checks |-> "new"]
  /\ applied = [c \in Checks |-> {}]
  /\ inserting = [p \in Callers |-> "no"]
  /\ values = [p \in Callers |-> None]
  /\ list = None
  /\ inserted = FALSE
-----------------------------------------------------------------------------
(* insertQuotaDefinitions: Del, then LPush and Expire.                     *)

Insert(p, l) ==
  /\ inserting' = [inserting EXCEPT ![p] = "del"]
  /\ values' = [values EXCEPT ![p] = l]

\* Mutant of Del: the list is kept.
DelSkipped(p) ==
  /\ inserting[p] = "del"
  /\ inserting' = [inserting EXCEPT ![p] = "push"]
  /\ UNCHANGED <<rdbmsVars, importVars, loaded, lookupVars, values, listVars>>

Del(p) ==
  /\ inserting[p] = "del"
  /\ list' = None
  /\ inserting' = [inserting EXCEPT ![p] = "push"]
  /\ UNCHANGED <<rdbmsVars, importVars, loaded, lookupVars, values, inserted>>

\* Mutant of LPush: the list is only pushed to if it is there.
LPushX(p) ==
  /\ inserting[p] = "push"
  /\ list' = IF list = None THEN None ELSE [d \in Defs |-> list[d] + values[p][d]]
  /\ inserted' = TRUE
  /\ inserting' = [inserting EXCEPT ![p] = "no"]
  /\ values' = [values EXCEPT ![p] = None]
  /\ UNCHANGED <<rdbmsVars, importVars, loaded, lookupVars>>

LPush(p) ==
  /\ inserting[p] = "push"
  /\ list' = [d \in Defs |-> list[d] + values[p][d]]
  /\ inserted' = TRUE
  /\ inserting' = [inserting EXCEPT ![p] = "no"]
  /\ values' = [values EXCEPT ![p] = None]
  /\ UNCHANGED <<rdbmsVars, importVars, loaded, lookupVars>>

\* The caller crashes, the connection breaks, or Redis refuses to store more:
\* the Del, if it was that far, is not followed by a push.
CutOff(p) ==
  /\ inserting[p] # "no" /\ failures < MaxFailures
  /\ failures' = failures + 1
  /\ inserted' = (inserted /\ (inserting[p] = "del" \/ list # None))
  /\ inserting' = [inserting EXCEPT ![p] = "no"]
  /\ values' = [values EXCEPT ![p] = None]
  /\ UNCHANGED <<rdbmsVars, scheduled, importing, loaded, lookupVars, list>>

\* A day after the last Expire: an import would have renewed it.
KeyExpires ==
  /\ rdbms = None
  /\ \A p \in Callers : inserting[p] = "no"
  /\ list' = None
  /\ inserted' = FALSE
  /\ UNCHANGED <<rdbmsVars, importVars, loaded, lookupVars, insertVars>>
-----------------------------------------------------------------------------
(* quotasRedisUpdateFromRdbms, every minute on every host.                 *)

\* SetNX: one host gets to import, and nobody for the next five minutes; a
\* host that gets an error instead imports all the same.
Schedule(h) ==
  /\ importing[h] = "idle"
  /\ \/ ~scheduled /\ scheduled' = TRUE /\ UNCHANGED failures
     \/ /\ failures < MaxFailures /\ failures' = failures + 1
        /\ UNCHANGED scheduled
  /\ importing' = [importing EXCEPT ![h] = "querying"]
  /\ UNCHANGED <<rdbmsVars, loaded, lookupVars, insertVars, listVars>>

\* Mutant of Query: a value that has definitions already is given none.
QueryIfAbsent(h) ==
  /\ importing[h] = "querying"
  /\ IF rdbms = None \/ inserted
     THEN UNCHANGED insertVars
     ELSE Insert(h, rdbms)
  /\ importing' = [importing EXCEPT ![h] = "inserting"]
  /\ UNCHANGED <<rdbmsVars, scheduled, failures, loaded, lookupVars, listVars>>

\* The query; a value that has no quotas is not touched.
Query(h) ==
  /\ importing[h] = "querying"
  /\ IF rdbms = None
     THEN UNCHANGED insertVars
     ELSE Insert(h, rdbms)
  /\ importing' = [importing EXCEPT ![h] = "inserting"]
  /\ UNCHANGED <<rdbmsVars, scheduled, failures, loaded, lookupVars, listVars>>

Imported(h) ==
  /\ importing[h] = "inserting" /\ inserting[h] = "no"
  /\ importing' = [importing EXCEPT ![h] = "idle"]
  /\ UNCHANGED <<rdbmsVars, scheduled, failures, loaded, lookupVars, insertVars, listVars>>

\* The host crashes, or the database does not answer and it panics.
Crash(h) ==
  /\ importing[h] = "querying" /\ failures < MaxFailures
  /\ importing' = [importing EXCEPT ![h] = "idle"]
  /\ failures' = failures + 1
  /\ UNCHANGED <<rdbmsVars, scheduled, loaded, lookupVars, insertVars, listVars>>

\* Five minutes later: an import takes less.
ScheduleExpires ==
  /\ scheduled
  /\ \A h \in Hosts : importing[h] = "idle"
  /\ scheduled' = FALSE
  /\ UNCHANGED <<rdbmsVars, importing, failures, loaded, lookupVars, insertVars, listVars>>

\* Somebody changes the quotas of the value in the database.
Change ==
  /\ changes < MaxChanges
  /\ rdbms' \in Profiles \ {rdbms}
  /\ changes' = changes + 1
  /\ UNCHANGED <<importVars, loaded, lookupVars, insertVars, listVars>>

\* quotasRegexesLoad, a goroutine of its own.
RegexesLoad ==
  /\ ~loaded
  /\ loaded' = TRUE
  /\ UNCHANGED <<rdbmsVars, importVars, lookupVars, insertVars, listVars>>
-----------------------------------------------------------------------------
(* quotasRedisPollQuotasBySelector.                                        *)

CheckGoes(c, to) == check' = [check EXCEPT ![c] = to]

\* What follows a read of the list: duplicates are pruned, by inserting one
\* of each; a check that found none may go on to the regexes.
AfterRead(c, otherwise) ==
  /\ applied' = [applied EXCEPT ![c] = Support(list)]
  /\ IF Duplicates(list)
     THEN CheckGoes(c, "pruning") /\ Insert(c, Once(Support(list)))
     ELSE CheckGoes(c, otherwise) /\ UNCHANGED insertVars

Read(c) ==
  /\ check[c] = "new"
  /\ AfterRead(c, IF list = None /\ c \notin Views THEN "matching" ELSE "done")
  /\ UNCHANGED <<rdbmsVars, importVars, loaded, listVars>>

\* quotasRedisInsertRegexesForSelector
InsertRegexes(c) ==
  /\ check[c] = "matching"
  /\ IF loaded /\ Matching # None
     THEN CheckGoes(c, "inserting") /\ Insert(c, Matching)
     ELSE CheckGoes(c, "done") /\ UNCHANGED insertVars
  /\ UNCHANGED <<rdbmsVars, importVars, loaded, applied, listVars>>

ReadAgain(c) ==
  /\ check[c] = "inserting" /\ inserting[c] = "no"
  /\ AfterRead(c, "done")
  /\ UNCHANGED <<rdbmsVars, importVars, loaded, listVars>>

Pruned(c) ==
  /\ check[c] = "pruning" /\ inserting[c] = "no"
  /\ CheckGoes(c, "done")
  /\ UNCHANGED <<rdbmsVars, importVars, loaded, applied, insertVars, listVars>>
-----------------------------------------------------------------------------
ImportStep(h) == Schedule(h) \/ Query(h) \/ Imported(h)
CheckStep(c) == Read(c) \/ InsertRegexes(c) \/ ReadAgain(c) \/ Pruned(c)
InsertStep(p) == Del(p) \/ LPush(p)

DefinitionsNext ==
  \/ \E h \in Hosts : ImportStep(h) \/ Crash(h)
  \/ \E c \in Checks : CheckStep(c)
  \/ \E p \in Callers : InsertStep(p) \/ CutOff(p)
  \/ ScheduleExpires \/ KeyExpires \/ Change \/ RegexesLoad

DefinitionsSpec == DefinitionsInit /\ [][DefinitionsNext]_definitionVars

\* The tickers go on, on some host; Redis executes what it is sent and lets
\* the schedule expire.
FairSpec ==
  /\ DefinitionsSpec
  /\ WF_definitionVars(\E h \in Hosts : ImportStep(h))
  /\ WF_definitionVars(ScheduleExpires)
  /\ \A p \in Callers : WF_definitionVars(InsertStep(p))
  /\ \A c \in Checks : WF_definitionVars(CheckStep(c))
-----------------------------------------------------------------------------
(* Every variable has its type.                                            *)
DefinitionsTypeOK ==
  /\ rdbms \in Profiles
  /\ changes \in 0 .. MaxChanges
  /\ scheduled \in BOOLEAN /\ loaded \in BOOLEAN /\ inserted \in BOOLEAN
  /\ importing \in [Hosts -> {"idle", "querying", "inserting"}]
  /\ failures \in 0 .. MaxFailures
  /\ check \in [Checks -> {"new", "matching", "inserting", "pruning", "done"}]
  /\ applied \in [Checks -> SUBSET Defs]
  /\ inserting \in [Callers -> {"no", "del", "push"}]
  /\ values \in [Callers -> Definitions]
  /\ \A p \in Callers : inserting[p] = "no" <=> values[p] = None
  /\ list \in [Defs -> Nat]

(* Once there are definitions there always are, whoever replaces them, but *)
(* between the Del and the LPush of somebody: only a check that reads the  *)
(* list right then misses the quotas of the value.  The exception is a     *)
(* pipeline that was cut off between the two with nobody else having       *)
(* pushed: until the next push there are none.                             *)
DefinedUnlessInserting ==
  inserted /\ list = None => \E p \in Callers : inserting[p] = "push"

(* However many insert at once, duplicates do not pile up: the list holds   *)
(* no definition more often than all of them together could insert it, even *)
(* if none of them ever sees the others (the code looks out for a "RACE     *)
(* CONDITION" with a thousand results).                                     *)
DuplicatesBounded == \A d \in Defs : list[d] <= Most * Cardinality(Callers)

(* What the database says takes effect again and again, whatever checks    *)
(* and imports that were cut off left in the list.                         *)
ImportsTakeEffect == []<>(rdbms = None \/ Support(list) = Support(rdbms))
=============================================================================
