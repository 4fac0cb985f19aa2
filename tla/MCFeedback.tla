----------------------------- MODULE MCFeedback -----------------------------
(***************************************************************************)
(* Instances of Feedback for TLC.                                          *)
(***************************************************************************)
EXTENDS Feedback

CONSTANTS here, peer, b1, b2, q1, q2, m1, m2, spamassassin, srs

MCInstance == [p \in {here, peer} |-> IF p = here THEN 1 ELSE 2]
MCCachedAt == [p \in {peer} |-> {m1}]
MCJudged == {<<q1, m1>>, <<q1, m2>>, <<q2, m1>>}
MCLearners ==
  [p \in {here, peer} |-> IF p = here THEN <<spamassassin, srs>> ELSE <<srs>>]

MCBounceOf ==
  [b \in {b1} |-> [msgId |-> m1, queueId |-> q1, recipients |-> 1]]
=============================================================================
