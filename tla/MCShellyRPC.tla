----------------------------- MODULE MCShellyRPC -----------------------------
(***************************************************************************)
(* ShellyRPC for TLC.                                                      *)
(***************************************************************************)
EXTENDS ShellyRPC

CONSTANTS c1, c2

TwoCalls == {c1, c2}
=============================================================================
