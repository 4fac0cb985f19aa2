------------------------- MODULE MCQuotaDefinitions -------------------------
(***************************************************************************)
(* Instances of QuotaDefinitions: definition "a" comes from the database,  *)
(* maybe twice, and "b" from a regex.                                      *)
(***************************************************************************)
EXTENDS QuotaDefinitions

DatabaseProfiles == {None, [None EXCEPT !["a"] = 1], [None EXCEPT !["a"] = 2]}
MatchingOnce == [None EXCEPT !["b"] = 1]
=============================================================================
