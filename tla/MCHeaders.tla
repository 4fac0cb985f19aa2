------------------------------ MODULE MCHeaders -------------------------------
(***************************************************************************)
(* Instances of Headers: the kinds of rules of cluegetter.conf.dist.       *)
(***************************************************************************)
EXTENDS Headers

HeaderKeys == {MessageId, DkimSignature, "X-Spam-Flag"}

Rules == [key : {"X-Spam-Flag"}, value : {"text", "", Template}, unique : BOOLEAN]
           \cup {[key |-> DkimSignature, value |-> "", unique |-> TRUE],
                 [key |-> MessageId, value |-> "text", unique |-> TRUE]}

\* No rule, one, or two.
UpToTwoRules == {<<>>} \cup {<<r>> : r \in Rules} \cup (Rules \X Rules)

UpToTwoRcpts == {<<>>, <<"alice">>, <<"alice", "bob">>}
=============================================================================
