----------------------------- MODULE MCVerdict ------------------------------
(***************************************************************************)
(* An instance of Verdict: the modules are named by strings, and what      *)
(* their checks return comes from module ModuleChecks.  A quota that calls *)
(* back, the module group of cluegetter.conf.dist, and any one of the      *)
(* other modules, a script that may do anything included.                  *)
(***************************************************************************)
EXTENDS Verdict

Outcome == INSTANCE ModuleChecks

SpamGroups == {[spamassassin |-> 9, rspamd |-> 1]}

OtherCheck ==
  UNION {Outcome!LuaCheck({0, 600, 2600}), Outcome!ClamavCheck(TRUE, 2600),
         Outcome!GreylistingCheck(TRUE, 600), Outcome!DkimCheck("required"),
         Outcome!ContactsCheck(TRUE, -600, -600, 2600, 600),
         Outcome!SrsCheck, Outcome!BaseModuleCheck}

MCModules == {"quotas", "other", "spamassassin", "rspamd"}
MCChecks ==
  [quotas       |-> Outcome!QuotasCheck(TRUE),
   other        |-> OtherCheck,
   spamassassin |-> Outcome!SpamassassinCheck(TRUE, {900}),
   rspamd       |-> Outcome!RspamdCheck(TRUE, {100})]
=============================================================================
