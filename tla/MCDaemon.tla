------------------------------ MODULE MCDaemon ------------------------------
(***************************************************************************)
(* Instances of Daemon for TLC.                                            *)
(***************************************************************************)
EXTENDS Daemon

CONSTANTS s1, ipinfo, lua, srs, script

MCIp == [s \in {s1} |-> 0]
MCRegistered == <<ipinfo, lua, srs>>
MCScripts == <<script>>
=============================================================================
