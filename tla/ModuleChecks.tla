---------------------------- MODULE ModuleChecks ----------------------------
(***************************************************************************)
(* What the MessageCheck of each module may return, as a set: one operator *)
(* per module, its parameters being what the set depends on (whether the   *)
(* session's configuration enables the module, the configured scores, what *)
(* the server it asks may say).  A set that holds NoResult means the check *)
(* may return nil.  Module Verdict takes these sets as the constant Checks.*)
(***************************************************************************)
EXTENDS CheckResults

\* clamd answers OK, FOUND, one of its errors, or closes the stream with
\* nothing on it; a connection that cannot be made is an error too.
ClamavCheck(enabled, default) ==
  IF enabled
  THEN {Result("Reject", 0), Result("Reject", default), ErrorResult, NoResult}
  ELSE {NoResult}

\* spamd's own score, which may be negative; nil once the abort channel is
\* closed before the delay has passed (Verdict's Abortable modules).
SpamassassinCheck(enabled, scores) ==
  IF enabled
  THEN {Result("Reject", s) : s \in scores} \cup {ErrorResult}
  ELSE {NoResult}

\* rspamd's score times the configured multiplier.
RspamdCheck(enabled, scores) ==
  IF enabled
  THEN {Result("Reject", s) : s \in scores} \cup {ErrorResult}
  ELSE {NoResult}

\* Exceeding any quota suggests TempFail with 100 points, else Permit with 1.
QuotasCheck(enabled) ==
  IF enabled
  THEN {Result("TempFail", 10000), Result("Permit", 100)}
  ELSE {NoResult}

\* Whitelisted (by SPF or by an earlier success) or waited long enough:
\* Permit; else TempFail with the configured score.
GreylistingCheck(enabled, initial) ==
  IF enabled
  THEN {Result("Permit", 100), Result("TempFail", initial)}
  ELSE {NoResult}

\* A hit on either list is a "Reject" result, of negative score for a
\* whitelist; no hit, no domain and sender = recipient are Permit with 0.
ContactsCheck(enabled, whiteAddr, whiteDomain, blackAddr, blackDomain) ==
  IF enabled
  THEN {Result("Reject", s) : s \in {whiteAddr, whiteDomain, blackAddr, blackDomain}}
         \cup {Result("Permit", 0)}
  ELSE {NoResult}

\* Only a required signature without a selector in DNS suggests TempFail; a
\* signing mode that is none of the three is an error.
DkimCheck(sign) ==
       (IF sign \in {"required", "optional", "none"} THEN {Result("Permit", 0)} ELSE {})
  \cup (IF sign # "none" THEN {ErrorResult} ELSE {})
  \cup (IF sign = "required" THEN {Result("TempFail", 10000)} ELSE {})

\* SRS rewrites addresses and permits, or panics (Srs).
SrsCheck == {Result("Permit", 0)}

\* A script may return any of the five actions, with any score, or may not
\* define milterCheck; anything else it does ends in a panic (Verdict's
\* Panicking modules).
LuaCheck(scores) ==
  {Result(v, s) : v \in Verdicts, s \in scores} \cup {NoResult}

\* BaseModule.MessageCheck and that of the demo module: nothing to say.
BaseModuleCheck == {NoResult}
=============================================================================
