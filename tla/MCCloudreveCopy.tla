-------------------------- MODULE MCCloudreveCopy --------------------------
(***************************************************************************)
(* CloudreveCopy for TLC: under the prefix p, two keys with the target a,  *)
(* one below it, and a folder, on two pages; sizes of a few bytes.         *)
(***************************************************************************)
EXTENDS CloudreveCopy

CONSTANTS small, large, larger, dir

MCObject == {small, large, larger, dir}
MCKey == [o \in MCObject |-> CASE o = small -> <<"p", "/", "a">>
                               [] o = large -> <<"p", "a">>
                               [] o = larger -> <<"p", "/", "a", "/", "b">>
                               [] o = dir -> <<"p", "/">>]
MCPrefix == <<"p">>
MCPageOf == [o \in MCObject |-> IF o = large THEN 1 ELSE 2]
MCSize == [o \in MCObject |-> CASE o = large -> 2 [] o = larger -> 3
                              [] o = small -> 1 [] o = dir -> 0]
MCChunkSize == {0, 1, 2, 3, 4}
=============================================================================
