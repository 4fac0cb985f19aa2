------------------------------ MODULE MCQuotas ------------------------------
(***************************************************************************)
(* Quotas for TLC.  Nothing tells one message from another.                *)
(***************************************************************************)
EXTENDS Quotas, TLC

MCSymmetry == Permutations(Msgs)
=============================================================================
