------------------------------- MODULE MCBastion -------------------------------
(***************************************************************************)
(* Instances of Bastion for TLC: a bastion's model value is also the name  *)
(* of its host.  Bastions share nothing, so one of them is enough.         *)
(***************************************************************************)
EXTENDS Bastion

MCMachineName == [b \in Bastions |-> b]
=============================================================================
