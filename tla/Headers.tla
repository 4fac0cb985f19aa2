------------------------------- MODULE Headers --------------------------------
(***************************************************************************)
(* The headers of one message, from the callbacks Header to the changes    *)
(* Eom asks the MTA for (core/message.go, core/milter.go).  The directives *)
(* add-header say which headers to add; a rule with the flag [U] has all   *)
(* others of its key removed, and one without a value adds none.           *)
(*                                                                         *)
(* The text of a header is reduced to where it comes from; keys that       *)
(* differ in case only are the same key.                                   *)
(***************************************************************************)
EXTENDS Integers, SequencesExt

CONSTANTS
  Keys,          \* of the headers
  Configs,       \* the lists of rules that add-header directives may give
  Rcpts,         \* the recipients
  RcptLists,     \* those a message may have, in order
  MaxHeaders     \* bound: what a client sends

MessageId == "Message-Id"
DkimSignature == "DKIM-Signature"

\* A header to be added: a value, none, or one for each recipient.
Template == "%{recipient}"
Rule == [key : Keys, value : {"text", "", Template}, unique : BOOLEAN]

\* What a value may come from, besides a recipient.
Sources == {"text", "", Template, "signature", "generated", "sent"}

\* The empty list of recipients is what is left when EnvRcpt panicked for a
\* whitelisted client.
ASSUME HeadersAssumption ==
  /\ {MessageId, DkimSignature} \subseteq Keys
  /\ Configs \subseteq Seq(Rule)
  /\ RcptLists \subseteq Seq(Rcpts) /\ Rcpts \cap Sources = {}
  /\ MaxHeaders \in Nat

VARIABLES
  rules,         \* MessageInsertHeaders
  rcpts,         \* Message.Rcpt
  insertMissing, \* insert-missing-message-id, which a session may have its own of
  headers,       \* Message.Headers
  addHeaders,    \* Message.addHeaders
  injected,      \* Message.injectMessageId
  cachedAs,      \* the Message-Id the message cache is given
  signed,        \* whether DKIM added its header, and was heard
  deletes,       \* the headers Eom has yet to delete
  adds,          \* those it has yet to add
  mta,           \* the headers as the MTA has them (external)
  pc             \* how far the message is

configVars == <<rules, rcpts, insertMissing>>
eomVars == <<deletes, adds>>
msgVars == <<headers, addHeaders, injected, cachedAs, signed>>
vars == <<configVars, msgVars, eomVars, mta, pc>>

None == [value |-> "", n |-> 0]
Generated == [value |-> "generated", n |-> 0]

\* What tells two headers of one key apart: the value, and for one the
\* client sent, which it is.
IdOf(hdr) == [value |-> hdr.value, n |-> hdr.n]

Init ==
  /\ rules \in Configs
  /\ rcpts \in RcptLists
  /\ insertMissing \in BOOLEAN
  /\ headers = <<>>
  /\ addHeaders = rules
  /\ injected = None
  /\ cachedAs = None
  /\ signed = "no"
  /\ deletes = {}
  /\ adds = <<>>
  /\ mta = <<>>
  /\ pc = "headers"
-----------------------------------------------------------------------------
\* Message.GetHeader, by the places of what it returns, in their order: nothing
\* is ever marked as deleted, as that is done to a copy.
GetHeader(key) == {i \in DOMAIN headers : headers[i].key = key}

Received(k, idx) ==
  [key |-> k, value |-> "sent", n |-> Len(mta) + 1, milterIdx |-> idx]

Header(k) ==
  /\ pc = "headers" /\ Len(mta) < MaxHeaders
  /\ headers' = Append(headers, Received(k, Cardinality(GetHeader(k)) + 1))
  /\ mta' = Append(mta, [key |-> k, value |-> "sent", n |-> Len(mta) + 1])
  /\ UNCHANGED <<configVars, addHeaders, injected, cachedAs, signed, eomVars, pc>>

EomStart ==
  /\ pc = "headers"
  /\ pc' = "checks"
  /\ UNCHANGED <<configVars, msgVars, eomVars, mta>>

\* The DKIM check signs; after the breaker, it may do so at any time.
AddHeader ==
  /\ pc \notin {"headers", "done", "panicked"} /\ signed = "no"
  /\ addHeaders' =
       Append(addHeaders, [key |-> DkimSignature, value |-> "signature", unique |-> FALSE])
  /\ signed' = IF pc = "checks" THEN "heard" ELSE "late"
  /\ UNCHANGED <<configVars, headers, injected, cachedAs, eomVars, mta, pc>>

\* Mutant of GetMessageId: the last one.
LastMessageId ==
  IF GetHeader(MessageId) = {} THEN Generated ELSE IdOf(headers[Max(GetHeader(MessageId))])

\* messageGetMessageId: the first one, or one that is made up once.
GetMessageId ==
  IF GetHeader(MessageId) = {} THEN Generated ELSE IdOf(headers[Min(GetHeader(MessageId))])

EnsureHasMessageId ==
  /\ pc = "checks"
  /\ IF GetHeader(MessageId) # {}
     THEN UNCHANGED <<headers, injected>>
     ELSE /\ injected' = GetMessageId
          /\ headers' = Append(headers, [key |-> MessageId, value |-> GetMessageId.value,
                                         n |-> 0, milterIdx |-> 0])
  /\ pc' = "judged"
  /\ UNCHANGED <<configVars, addHeaders, cachedAs, signed, eomVars, mta>>

\* messageSave hands the message over to the cache.
Save ==
  /\ pc = "judged"
  /\ cachedAs' = GetMessageId
  /\ pc' = "saved"
  /\ UNCHANGED <<configVars, headers, addHeaders, injected, signed, eomVars, mta>>
-----------------------------------------------------------------------------
(* messageGetMutableHeaders                                                *)

IsTemplate(hdr) == hdr.value = Template

\* The first recipient takes the place of the template, the others follow at
\* the end, without its flag.
Expand(acc, i, hdr) ==
  IF ~IsTemplate(hdr) THEN acc
  ELSE [acc EXCEPT ![i].value = rcpts[1]]
         \o [j \in 1 .. Len(rcpts) - 1 |->
              [key |-> hdr.key, value |-> rcpts[j + 1], unique |-> FALSE]]

Expanded(hdrs) ==
  LET ExpandAt(acc, i) == Expand(acc, i, hdrs[i])
  IN FoldLeftDomain(ExpandAt, hdrs, hdrs)

WithMessageId(hdrs) ==
  IF insertMissing /\ injected # None
  THEN Append(hdrs, [key |-> MessageId, value |-> injected.value, unique |-> FALSE])
  ELSE hdrs

\* Which rule asks for which header to be deleted: in this order.
Deletes(hdrs) ==
  {d \in (DOMAIN hdrs) \X (DOMAIN headers) :
     hdrs[d[1]].unique /\ headers[d[2]].key = hdrs[d[1]].key}

\* A round of the loop that removes the headers without a value from the list
\* it goes through.
Drop(acc, i) ==
  LET k == i - acc.deleted
  IN IF acc.left[k].value # "" THEN acc
     ELSE [left |-> RemoveAt(acc.left, k), deleted |-> acc.deleted + 1]

DropEmpty(hdrs) == FoldLeftDomain(Drop, [left |-> hdrs, deleted |-> 0], hdrs).left

\* msg.Rcpt[1:] and msg.Rcpt[0] of a message that has none.
NoRecipient == rcpts = <<>> /\ \E i \in DOMAIN addHeaders : IsTemplate(addHeaders[i])

MutableHeaders ==
  /\ pc = "saved" /\ ~NoRecipient
  /\ LET all == WithMessageId(Expanded(addHeaders)) IN
       /\ deletes' = Deletes(all)
       /\ addHeaders' = DropEmpty(all)
       /\ adds' = DropEmpty(all)
  /\ pc' = "deleting"
  /\ UNCHANGED <<configVars, headers, injected, cachedAs, signed, mta>>

MutableHeadersPanics ==
  /\ pc = "saved" /\ NoRecipient
  /\ pc' = "panicked"
  /\ UNCHANGED <<configVars, msgVars, eomVars, mta>>
-----------------------------------------------------------------------------
(* What Eom asks of the MTA                                                *)

\* The header of the MTA that a key and a number name now, or 0: those after
\* a deleted one have moved down.
Position(key, idx) ==
  LET P == {p \in DOMAIN mta :
              /\ mta[p].key = key
              /\ Cardinality({q \in 1 .. p : mta[q].key = key}) = idx}
  IN IF P = {} THEN 0 ELSE Max(P)

ChgHeaderDeletes(key, idx) ==
  mta' = IF Position(key, idx) = 0 THEN mta ELSE RemoveAt(mta, Position(key, idx))

\* The next one to be deleted: the first rule's first.
NextDelete ==
  LET i == Min({d[1] : d \in deletes})
  IN <<i, Min({d[2] : d \in {e \in deletes : e[1] = i}})>>

\* Mutant of DeleteHeader: the number among all the headers is meant.
DeleteHeaderAt ==
  /\ pc = "deleting" /\ deletes # {}
  /\ LET idx == headers[NextDelete[2]].milterIdx
     IN mta' = IF idx \in DOMAIN mta THEN RemoveAt(mta, idx) ELSE mta
  /\ deletes' = deletes \ {NextDelete}
  /\ UNCHANGED <<configVars, msgVars, adds, pc>>

\* The loop that should renumber those that remain changes copies of them.
DeleteHeader ==
  /\ pc = "deleting" /\ deletes # {}
  /\ LET hdr == headers[NextDelete[2]] IN ChgHeaderDeletes(hdr.key, hdr.milterIdx)
  /\ deletes' = deletes \ {NextDelete}
  /\ UNCHANGED <<configVars, msgVars, adds, pc>>

EomAddHeader ==
  /\ pc = "deleting" /\ deletes = {} /\ adds # <<>>
  /\ mta' = Append(mta, [key |-> Head(adds).key, value |-> Head(adds).value, n |-> 0])
  /\ adds' = Tail(adds)
  /\ UNCHANGED <<configVars, msgVars, deletes, pc>>

EomAnswer ==
  /\ pc = "deleting" /\ deletes = {} /\ adds = <<>>
  /\ pc' = "done"
  /\ UNCHANGED <<configVars, msgVars, eomVars, mta>>

Ended == pc \in {"done", "panicked"} /\ UNCHANGED vars

Eom ==
  \/ EomStart \/ EnsureHasMessageId \/ Save
  \/ MutableHeaders \/ MutableHeadersPanics
  \/ DeleteHeader \/ EomAddHeader \/ EomAnswer

Next == (\E k \in Keys : Header(k)) \/ AddHeader \/ Eom \/ Ended

Spec == Init /\ [][Next]_vars
-----------------------------------------------------------------------------
Values == Sources \cup Rcpts

UniqueKeys == {rules[i].key : i \in {j \in DOMAIN rules : rules[j].unique}}
Sent(hdrs, K) == {hdrs[i].n : i \in {j \in DOMAIN hdrs : hdrs[j].key \in K}} \ {0}

(* Eom removes no header that the client sent but those of a key that is   *)
(* to be unique, however the numbers shift and whatever is asked for twice. *)
OthersUntouched ==
  LET K == Keys \ UniqueKeys IN Sent(mta, K) = Sent(headers, K)

(* A header that is to be unique and was sent once has gone when Eom       *)
(* answers, be it because the rule replaces it or has no value at all.     *)
SingleIsReplaced ==
  pc = "done" =>
    \A k \in UniqueKeys :
      Cardinality(Sent(headers, {k})) <= 1 => Sent(mta, {k}) = {}

\* How many headers the rules, the inserted Message-Id and DKIM come to.
Promised(k, v) ==
  Cardinality({p \in (DOMAIN rules) \X (0 .. Len(rcpts)) :
    /\ rules[p[1]].key = k
    /\ IF p[2] = 0 THEN rules[p[1]].value = v /\ v \notin {"", Template}
       ELSE rules[p[1]].value = Template /\ rcpts[p[2]] = v})
  + (IF insertMissing /\ k = MessageId /\ v = "generated"
        /\ Sent(headers, {MessageId}) = {} THEN 1 ELSE 0)

Added(k, v) ==
  Cardinality({i \in DOMAIN mta : mta[i].n = 0 /\ mta[i].key = k /\ mta[i].value = v})

(* Each rule adds what it promises, no more and no less: one header for    *)
(* each recipient where it names them, none where it is empty; and a       *)
(* signature that was heard is not lost.                                   *)
AddedAsConfigured ==
  pc = "done" =>
    /\ \A k \in Keys : \A v \in Values \ {"signature"} : Added(k, v) = Promised(k, v)
    /\ signed = "heard" => Added(DkimSignature, "signature") = 1
    /\ signed = "no" => Added(DkimSignature, "signature") = 0

(* What leaves is what came in, changed as the rules say and not otherwise. *)
HeadersAsConfigured == OthersUntouched /\ SingleIsReplaced /\ AddedAsConfigured

(* The Message-Id the cache knows a message by is the first one it carries *)
(* when it leaves: by that one a bounce will name it.                      *)
LeavesAsCached ==
  pc = "done" /\ insertMissing /\ (\A i \in DOMAIN rules : rules[i].key # MessageId) =>
    \E p \in DOMAIN mta :
      /\ mta[p].key = MessageId /\ IdOf(mta[p]) = cachedAs
      /\ \A q \in 1 .. p - 1 : mta[q].key # MessageId

(* "It ensures that all other headers with that key are removed."          *)
UniqueRemovesOthers == pc = "done" => Sent(mta, UniqueKeys) = {}
=============================================================================
