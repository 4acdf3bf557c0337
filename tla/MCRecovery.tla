----------------------------- MODULE MCRecovery -----------------------------
(***************************************************************************)
(* Recovery for TLC: three directories, one in the other, with two files   *)
(* in the second and one in the third; names and backups differ.           *)
(***************************************************************************)
EXTENDS Recovery

CONSTANTS base, sub, deep, a, b, c

MCFile == {a, b, c}
MCDir == {base, sub, deep}
MCEntry == {a, b, c, sub, deep}
MCIn == [e \in MCEntry |-> CASE e = sub -> base [] e = c -> deep [] OTHER -> sub]
\* deep < a < b < a with suffix < b with suffix
MCName == [e \in MCEntry |-> CASE e = deep -> 1 [] e = a -> 2 [] e = b -> 3
                               [] e = sub -> 1 [] e = c -> 1]
MCMarkedName == [f \in MCFile |-> CASE f = a -> 4 [] f = b -> 5 [] f = c -> 2]
MCBackup == [f \in MCFile |-> CASE f = a -> {} [] f = b -> {"snapshot"}
                                [] f = c -> {"snapshot2", "snapshot"}]
=============================================================================
