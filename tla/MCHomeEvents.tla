---------------------------- MODULE MCHomeEvents ----------------------------
(***************************************************************************)
(* HomeEvents for TLC: one light and one page.                             *)
(***************************************************************************)
EXTENDS HomeEvents

CONSTANTS l1, w1

OneLight == {l1}
OnePage == {w1}
=============================================================================
