------------------------------ MODULE MCMilter ------------------------------
(***************************************************************************)
(* Instances of Milter for TLC.  Of the whitelist, a network of four and   *)
(* one address: the last of the network is in it, its successor is not.    *)
(***************************************************************************)
EXTENDS Milter

CONSTANTS s1, s2

MCIp == [s \in {s1, s2} |-> IF s = s1 THEN 8 ELSE 7]
MCDirectives == {[ip |-> 5, size |-> 4], [ip |-> 9, size |-> 1]}
=============================================================================
