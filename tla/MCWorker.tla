------------------------------- MODULE MCWorker -------------------------------
(***************************************************************************)
(* Pools in one of two zones, or in both; two versions of an image, of     *)
(* which the operator drops the first and takes it up again.               *)
(***************************************************************************)
EXTENDS Worker

CONSTANTS za, zb, v1, v2, i1

MCZoneLists == {<<za>>, <<zb>>, <<za, zb>>}
MCProfiles  == {[v \in {v1, v2} |-> i1], [v \in {v1, v2} |-> IF v = v1 THEN None ELSE i1]}
=============================================================================
