--------------------------- MODULE MCInfrastructure ---------------------------
(***************************************************************************)
(* Instances of Infrastructure for TLC.  A shoot's model value is also the *)
(* generated name of its objects, so the shoots are interchangeable.       *)
(***************************************************************************)
EXTENDS Infrastructure, TLC

MCTechnicalName == [s \in Shoots |-> s]

ShootSymmetry == Permutations(Shoots)
=============================================================================
