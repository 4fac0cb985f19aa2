----------------------------- MODULE MCServices -----------------------------
(***************************************************************************)
(* Services for TLC, with a minute of a few ticks.  Hosts differ by their  *)
(* clocks only.                                                            *)
(***************************************************************************)
EXTENDS Services, TLC

MCSymmetry == Permutations(Hosts)
=============================================================================
