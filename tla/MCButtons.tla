------------------------------ MODULE MCButtons ------------------------------
(***************************************************************************)
(* ButtonEvents and AquariumLights for TLC.  They share no state: a        *)
(* behaviour follows presses up to their dispatch, or the operations on    *)
(* the lights, and the other one waits.  Two replicas and one id; two      *)
(* operations at a time, a low brightness that no light takes, and two     *)
(* high ones.                                                              *)
(***************************************************************************)
EXTENDS ButtonEvents, AquariumLights

CONSTANTS r1, r2, p1, c1, c2

MCReplica == {r1, r2}
MCPID == {p1}
MCCall == {c1, c2}
MCLow == {-1, 1}
MCHigh == {2, 3}

VARIABLE part  \* "presses" or "lights"

MCInit == part \in {"presses", "lights"} /\ ButtonInit /\ Init

MCNext ==
  /\ UNCHANGED part
  /\ \/ part = "presses" /\ ButtonNext /\ UNCHANGED vars
     \/ part = "lights" /\ Next /\ UNCHANGED buttonVars

MCSpec ==
  /\ MCInit /\ [][MCNext]_<<buttonVars, vars, part>>
  /\ part = "presses" => ButtonFairness
=============================================================================
