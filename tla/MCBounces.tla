------------------------------ MODULE MCBounces -------------------------------
(***************************************************************************)
(* An instance of Bounces: two addresses of one domain, and two of others; *)
(* two bounces that are alike to greylisting.                              *)
(***************************************************************************)
EXTENDS Bounces

MCAddresses == {"a@d", "b@d", "c@e", "x@f"}
MCDomainOf == ("a@d" :> "d") @@ ("b@d" :> "d") @@ ("c@e" :> "e") @@ ("x@f" :> "f")
MCSymmetry == Permutations(Bounces)
MCKeyOf == [b \in Bounces |-> "null sender"]
=============================================================================
