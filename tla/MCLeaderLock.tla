---------------------------- MODULE MCLeaderLock ----------------------------
(***************************************************************************)
(* LeaderLock for TLC: model values for replicas and sessions.             *)
(***************************************************************************)
EXTENDS LeaderLock

CONSTANTS r1, r2, s1, s2, s3

MCReplica == {r1, r2}
MCSession == {s1, s2, s3}
OnlyMonitorFault == {"monitor"}
=============================================================================
