----------------------------- MODULE Greylisting ------------------------------
(***************************************************************************)
(* Greylisting (greylisting/greylisting.go) of the mails of one client.    *)
(* Redis has the time of the first attempt for every key (the client's     *)
(* address, the sender and the recipients) and whether the client is       *)
(* whitelisted.  A check is a chain of calls to Redis, between which the   *)
(* checks of other mails, on this instance or another, do theirs; every    *)
(* error of Redis reads as something that is not there.                    *)
(***************************************************************************)
EXTENDS Integers, FiniteSets

CONSTANTS
  Mails,
  KeyOf,         \* the key of each mail, a value
  SpfListed,     \* whether an SPF record of the whitelist lists the client
  InitialPeriod, \* initial-period
  Validity,      \* of a first attempt: 90 minutes
  WhiteValidity, \* of the whitelist: greylist_validity, 40 days
  Never,         \* no time at all
  MaxFailures    \* bound: how often Redis fails

VARIABLES
  greylisting, \* how far the check of each mail is, or what it said
  first,       \* first[k]: the time of the first attempt, or Never
  white,       \* whether the client is whitelisted
  whiteEnds,   \* when Redis forgets that
  earliest,    \* history: the time of the first attempt there ever was
  spfPassed,   \* history: whether an SPF record listed the client
  lapses,      \* history: how often Redis has forgotten a first attempt
  clock, failures

Keys == {KeyOf[m] : m \in Mails}

\* The mails that are the same to Redis.
Alike(k) == {m \in Mails : KeyOf[m] = k}

GreyInit ==
  /\ greylisting = [m \in Mails |-> "idle"]
  /\ first = [k \in Keys |-> Never]
  /\ white = FALSE /\ whiteEnds = 0
  /\ earliest = Never
  /\ spfPassed = FALSE
  /\ lapses = [k \in Keys |-> 0]

Proceeds(m, from, to) ==
  /\ greylisting[m] = from
  /\ greylisting' = [greylisting EXCEPT ![m] = to]

RedisFails == failures < MaxFailures /\ failures' = failures + 1

\* ipIsSpfWhitelisted; an error is no reason to whitelist anybody.
IpIsSpfWhitelisted(m) ==
  /\ \/ Proceeds(m, "idle", "exists") /\ UNCHANGED spfPassed
     \/ SpfListed /\ Proceeds(m, "idle", "permitting") /\ spfPassed' = TRUE
  /\ earliest' = IF earliest = Never THEN clock ELSE earliest
  /\ UNCHANGED <<first, white, whiteEnds, lapses, clock, failures>>

IpIsWhitelisted(m) ==
  /\ \/ white /\ Proceeds(m, "exists", "permitting") /\ UNCHANGED failures
     \/ ~white /\ Proceeds(m, "exists", "get") /\ UNCHANGED failures
     \/ RedisFails /\ Proceeds(m, "exists", "get")
  /\ UNCHANGED <<first, white, whiteEnds, earliest, spfPassed, lapses, clock>>

Waited(k) == first[k] + InitialPeriod < clock

\* Mutants of GetVerdict: an attempt that comes too early starts the period
\* anew, ...
GetVerdictAnew(m) ==
  LET k == KeyOf[m] IN
  /\ \/ first[k] # Never /\ Waited(k) /\ Proceeds(m, "get", "permitting")
     \/ ~(first[k] # Never /\ Waited(k)) /\ Proceeds(m, "get", "set")
  /\ UNCHANGED <<first, white, whiteEnds, earliest, spfPassed, lapses,
                 clock, failures>>

\* ... what Redis knows nothing of has waited since the epoch.
GetVerdictOfZero(m) ==
  LET k == KeyOf[m] IN
  /\ \/ first[k] # Never /\ Waited(k) /\ Proceeds(m, "get", "permitting") /\ UNCHANGED failures
     \/ first[k] # Never /\ ~Waited(k) /\ Proceeds(m, "get", "deferring") /\ UNCHANGED failures
     \/ RedisFails /\ Proceeds(m, "get", "permitting")
     \/ first[k] = Never /\ Proceeds(m, "get", "set") /\ UNCHANGED failures
  /\ UNCHANGED <<first, white, whiteEnds, earliest, spfPassed, lapses, clock>>

\* getVerdict up to the answer to GET: strictly more than the period must
\* have passed, and an error is taken for the first attempt.
GetVerdict(m) ==
  LET k == KeyOf[m] IN
  /\ \/ first[k] # Never /\ Waited(k) /\ Proceeds(m, "get", "permitting") /\ UNCHANGED failures
     \/ first[k] # Never /\ ~Waited(k) /\ Proceeds(m, "get", "deferring") /\ UNCHANGED failures
     \/ first[k] = Never /\ Proceeds(m, "get", "set") /\ UNCHANGED failures
     \/ RedisFails /\ Proceeds(m, "get", "set")
  /\ UNCHANGED <<first, white, whiteEnds, earliest, spfPassed, lapses, clock>>

\* getVerdict, the first attempt: whatever Redis has by now is overwritten.
SetFirst(m) ==
  LET k == KeyOf[m] IN
  /\ Proceeds(m, "set", "deferring")
  /\ \/ first' = [first EXCEPT ![k] = clock] /\ UNCHANGED failures
     \/ RedisFails /\ UNCHANGED first
  /\ UNCHANGED <<white, whiteEnds, earliest, spfPassed, lapses, clock>>

UpdateWhitelist(m) ==
  /\ Proceeds(m, "permitting", "permit")
  /\ \/ white' = TRUE /\ whiteEnds' = clock + WhiteValidity /\ UNCHANGED failures
     \/ RedisFails /\ UNCHANGED <<white, whiteEnds>>
  /\ UNCHANGED <<first, earliest, spfPassed, lapses, clock>>

MessageCheck(m) ==
  \/ IpIsSpfWhitelisted(m) \/ IpIsWhitelisted(m) \/ GetVerdict(m)
  \/ SetFirst(m) \/ UpdateWhitelist(m)

\* What MessageCheck returned; a later attempt of the mail is checked anew.
Said(m) == greylisting[m] \in {"permit", "deferring"}

Again(m) ==
  /\ greylisting' = [greylisting EXCEPT ![m] = "idle"]
  /\ UNCHANGED <<first, white, whiteEnds, earliest, spfPassed, lapses>>

\* What Redis forgets when the time is now.
Forget(now) ==
  LET Lapsed(k) == first[k] # Never /\ first[k] + Validity <= now IN
  /\ first' = [k \in Keys |-> IF Lapsed(k) THEN Never ELSE first[k]]
  /\ lapses' = [k \in Keys |-> IF Lapsed(k) THEN lapses[k] + 1 ELSE lapses[k]]
  /\ white' = (white /\ now < whiteEnds)
  /\ whiteEnds' = IF white' THEN whiteEnds ELSE 0
  /\ UNCHANGED <<greylisting, earliest, spfPassed>>
-----------------------------------------------------------------------------
(* Nobody is permitted, or whitelisted, before the initial period has      *)
(* passed since the client first tried anything, unless an SPF record      *)
(* lists it: neither errors of Redis nor attempts that overlap, of mails   *)
(* that may or may not be alike, shorten the wait.                         *)
PermittedOnlyIfWaited ==
  white \/ (\E m \in Mails : greylisting[m] = "permit") =>
    \/ spfPassed
    \/ earliest # Never /\ earliest + InitialPeriod < clock

\* What a mail may be deferred at most when it is tried once in a unit of
\* time: a period, once more because it has to be over, for every time that
\* Redis fails or forgets, and for every mail alike that may overwrite the
\* first attempt because it did not see it.
DeferralsAllowed(m) ==
  (InitialPeriod + 1) * Cardinality(Alike(KeyOf[m])) * (1 + failures + lapses[KeyOf[m]])
=============================================================================
