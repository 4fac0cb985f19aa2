--------------------------------- MODULE Srs ----------------------------------
(***************************************************************************)
(* Sender rewriting (srs/srs.go).  A message that is being forwarded - one *)
(* with a recipient that is in none of its X-Original-To headers - leaves  *)
(* with an address of ours as its sender, which is looked up in Redis when *)
(* a bounce comes in: first for RCPT TO, whether it exists, and again when *)
(* the bounce is checked, to send it on to the sender proper.  Redis is    *)
(* told about the address by a goroutine nobody waits for, and forgets it  *)
(* after a while.                                                          *)
(***************************************************************************)
EXTENDS Integers, SequencesExt

CONSTANTS
  Addresses,   \* plain ones, of recipients and in the headers
  Domains,
  DomainOf,    \* the domain of an address
  Bounces,     \* of the message that was forwarded
  NoDomain,    \* getRewriteDomain has none to offer
  Panic,       \* getRewriteDomain panics
  MaxOriginal, \* bound: the X-Original-To headers of a message
  MaxRcpts,    \* bound: its recipients
  Ttl,         \* of an entry: 7 days
  MaxClock,    \* bound: time stops there
  MaxFailures  \* bound: how often Redis fails, or the daemon ends

ASSUME SrsAssumption ==
  /\ DomainOf \in [Addresses -> Domains]
  /\ NoDomain \notin Domains /\ Panic \notin Domains \cup {NoDomain}
  /\ {MaxOriginal, MaxRcpts, Ttl, MaxClock, MaxFailures} \subseteq Nat
  /\ Ttl > 0

VARIABLES
  original,   \* the values of the X-Original-To headers
  rcpts,      \* the recipients
  nullSender, \* whether the message is itself a bounce
  stage,      \* of the message
  from,       \* the domain of the address it was rewritten to, or NoDomain
  persisting, \* the goroutine that is to tell Redis
  entry,      \* whether Redis has the address
  expires,    \* when it forgets it
  bounce,     \* how far each bounce is, or what became of it
  forgotten,  \* whether Redis has forgotten the address
  clock,
  failures

msgVars == <<original, rcpts, nullSender>>
entryVars == <<entry, expires, forgotten>>
vars == <<msgVars, stage, from, persisting, entryVars, bounce, clock, failures>>

Init ==
  /\ original \in BoundedSeq(Addresses, MaxOriginal)
  /\ rcpts \in BoundedSeq(Addresses, MaxRcpts) \ {<<>>}
  /\ nullSender \in BOOLEAN
  /\ stage = "unchecked"
  /\ from = NoDomain
  /\ persisting = FALSE
  /\ entry = FALSE /\ expires = 0 /\ forgotten = FALSE
  /\ bounce = [b \in Bounces |-> "none"]
  /\ clock = 0
  /\ failures = 0
-----------------------------------------------------------------------------
\* isForwarded: without any header, it is not.
IsForwarded ==
  original # <<>> /\ \E i \in DOMAIN rcpts : rcpts[i] \notin Range(original)

OriginalDomains == [i \in DOMAIN original |-> DomainOf[original[i]]]

\* One round of the inner loop of getRewriteDomain.  It ranges over the
\* domains as they were when it began, while append moves those that follow a
\* match down, in the same array; past the end of what is left there is
\* nothing to slice.
MoveDown(acc, k, d) ==
  IF acc.panicked \/ acc.array[k] # d THEN acc
  ELSE IF k > acc.len THEN [acc EXCEPT !.panicked = TRUE]
  ELSE [acc EXCEPT !.array = [j \in DOMAIN @ |->
                                IF k <= j /\ j < acc.len THEN @[j + 1] ELSE @[j]],
                   !.len = @ - 1]

RemoveAll(acc, d) ==
  LET Match(a, k) == MoveDown(a, k, d)
  IN FoldLeft(Match, acc, [k \in 1 .. acc.len |-> k])

\* Mutant of GetRewriteDomain: only the first recipient's domain is removed.
GetRewriteDomainOfOne ==
  LET left == RemoveAll([array |-> OriginalDomains, len |-> Len(original), panicked |-> FALSE],
                        DomainOf[rcpts[1]])
  IN IF left.panicked THEN Panic
     ELSE IF left.len = 0 THEN NoDomain ELSE left.array[1]

GetRewriteDomain ==
  LET left == FoldLeft(RemoveAll,
                [array |-> OriginalDomains, len |-> Len(original), panicked |-> FALSE],
                [i \in DOMAIN rcpts |-> DomainOf[rcpts[i]]])
  IN IF left.panicked THEN Panic
     ELSE IF left.len = 0 THEN NoDomain ELSE left.array[1]

\* getFromAddress: a bounce is never rewritten.
GetFromAddress ==
  IF IsForwarded /\ ~nullSender THEN GetRewriteDomain ELSE NoDomain

\* MessageCheck of the message: its sender is changed, and Redis is told
\* later; or it panics, which the pipeline takes for an error.
Check ==
  /\ stage = "unchecked"
  /\ IF GetFromAddress = Panic
     THEN stage' = "deferred" /\ UNCHANGED <<from, persisting>>
     ELSE /\ stage' = "checked"
          /\ from' = GetFromAddress
          /\ persisting' = (GetFromAddress # NoDomain)
  /\ UNCHANGED <<msgVars, entryVars, bounce, clock, failures>>

\* The message leaves; what it was made of no longer matters, but for whether
\* it was rewritten.
Leave ==
  /\ stage = "checked"
  /\ stage' = IF from = NoDomain THEN "sent" ELSE "forwarded"
  /\ original' = <<>> /\ rcpts' = <<>> /\ nullSender' = FALSE /\ from' = NoDomain
  /\ UNCHANGED <<persisting, entryVars, bounce, clock, failures>>

\* Redis may fail, and nobody looks.
RedisFails == failures < MaxFailures /\ failures' = failures + 1

Persist ==
  /\ persisting
  /\ persisting' = FALSE
  /\ \/ entry' = TRUE /\ expires' = clock + Ttl /\ UNCHANGED failures
     \/ RedisFails /\ UNCHANGED <<entry, expires>>
  /\ UNCHANGED <<msgVars, stage, from, forgotten, bounce, clock>>

\* The daemon ends before the goroutine got to it.
Crash ==
  /\ persisting
  /\ RedisFails
  /\ persisting' = FALSE
  /\ UNCHANGED <<msgVars, stage, from, entryVars, bounce, clock>>
-----------------------------------------------------------------------------
\* lookupAddress: an error reads as an address that is not there.
LookupAddress(found) ==
  \/ found = entry /\ UNCHANGED failures
  \/ ~found /\ RedisFails

\* RecipientCheck of a bounce to the address.
RecipientCheck(b) ==
  /\ stage = "forwarded"
  /\ bounce[b] = "none"
  /\ \E found \in BOOLEAN :
       /\ LookupAddress(found)
       /\ bounce' = [bounce EXCEPT ![b] = IF found THEN "accepted" ELSE "refused"]
  /\ UNCHANGED <<msgVars, stage, from, persisting, entryVars, clock>>

\* Mutant of SwapRecipients: an entry is good for one bounce.
SwapRecipientsOnce(b) ==
  /\ bounce[b] = "accepted"
  /\ \E found \in BOOLEAN :
       /\ LookupAddress(found)
       /\ bounce' = [bounce EXCEPT ![b] = IF found THEN "mapped" ELSE "emptied"]
  /\ entry' = FALSE
  /\ UNCHANGED <<msgVars, stage, from, persisting, expires, forgotten, clock>>

\* MessageCheck of the bounce: the recipient is deleted, and what the address
\* stands for is added, which is nothing if it has gone.
SwapRecipients(b) ==
  /\ bounce[b] = "accepted"
  /\ \E found \in BOOLEAN :
       /\ LookupAddress(found)
       /\ bounce' = [bounce EXCEPT ![b] = IF found THEN "mapped" ELSE "emptied"]
  /\ UNCHANGED <<msgVars, stage, from, persisting, entryVars, clock>>

\* The verdict on the bounce, which other modules have a part in: it is sent
\* on to whom it was readdressed, or deferred, and the MTA will try again.
Answer(b, deferred) ==
  /\ bounce[b] \in {"mapped", "emptied"}
  /\ bounce' = [bounce EXCEPT ![b] = IF deferred THEN "none"
                                     ELSE IF @ = "mapped" THEN "returned" ELSE "lost"]
  /\ UNCHANGED <<msgVars, stage, from, persisting, entryVars, clock, failures>>

\* Time passes, and Redis forgets.
Tick ==
  /\ clock < MaxClock
  /\ clock' = clock + 1
  /\ IF entry /\ clock' >= expires
     THEN entry' = FALSE /\ forgotten' = TRUE /\ expires' = 0
     ELSE UNCHANGED entryVars
  /\ UNCHANGED <<msgVars, stage, from, persisting, bounce, failures>>

Ended ==
  /\ ~persisting
  /\ stage \in {"deferred", "sent"} \/ (stage = "forwarded" /\ clock = MaxClock)
  /\ \A b \in Bounces : bounce[b] \notin {"accepted", "mapped", "emptied"}
  /\ UNCHANGED vars

BounceStep(b) ==
  \/ RecipientCheck(b) \/ SwapRecipients(b)
  \/ \E deferred \in BOOLEAN : Answer(b, deferred)

Next ==
  \/ Check \/ Leave \/ Persist \/ Crash \/ Tick \/ Ended
  \/ \E b \in Bounces : BounceStep(b)

Spec == Init /\ [][Next]_vars
-----------------------------------------------------------------------------
\* The first domain in the headers that none of the recipients is in.
ForeignDomain ==
  LET Foreign(d) == \A i \in DOMAIN rcpts : DomainOf[rcpts[i]] # d
  IN IF \E i \in DOMAIN OriginalDomains : Foreign(OriginalDomains[i])
     THEN OriginalDomains[Min({i \in DOMAIN OriginalDomains : Foreign(OriginalDomains[i])})]
     ELSE NoDomain

(* A message is rewritten to the domain it came through, the first in its  *)
(* headers that is no recipient's, and the check does not panic, provided  *)
(* no domain is named twice; a bounce, and a message that is not forwarded, *)
(* are not rewritten.                                                      *)
RewrittenToForeignDomain ==
  stage \in {"checked", "deferred"} /\ IsInjective(OriginalDomains) =>
    /\ stage = "checked"
    /\ from = IF IsForwarded /\ ~nullSender THEN ForeignDomain ELSE NoDomain

(* A bounce that was accepted reaches the sender, although its address is  *)
(* looked up twice, unless Redis has forgotten it or fails.                *)
LostOnlyIfForgotten ==
  \A b \in Bounces : bounce[b] = "lost" => forgotten \/ failures > 0
=============================================================================
