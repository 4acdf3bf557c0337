---------------------------- MODULE MCLightWatch ----------------------------
(***************************************************************************)
(* LightWatch for TLC: two lights, two watchers, short channels.           *)
(***************************************************************************)
EXTENDS LightWatch

CONSTANTS l1, l2, w1, w2

MCLight == {l1, l2}
MCWatcher == {w1, w2}
OneLight == {l1}
OneWatcher == {w1}
=============================================================================
