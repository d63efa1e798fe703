---------------------------- MODULE MachineRollout ----------------------------
(***************************************************************************)
(* What the worker controller promises machine-controller-manager, without *)
(* its runs, pools, images and failures: a machine deployment follows a    *)
(* class that is complete, with its user data; the recipe of a class never *)
(* changes while there are machines of it; and no class goes away that a   *)
(* deployment follows.                                                     *)
(***************************************************************************)
CONSTANTS Deployments, Classes, Recipes, None

VARIABLES
  recipe,  \* class -> what machines are made of, or None if it is not complete
  follows  \* deployment -> its class, or None

vars == <<recipe, follows>>

Init ==
  /\ recipe  = [c \in Classes |-> None]
  /\ follows = [d \in Deployments |-> None]

Complete(c, r) ==
  /\ recipe[c] = None
  /\ recipe' = [recipe EXCEPT ![c] = r]
  /\ UNCHANGED follows

Follow(d, c) ==
  /\ recipe[c] # None
  /\ follows' = [follows EXCEPT ![d] = c]
  /\ UNCHANGED recipe

(* Deployments go away together with their machines. *)
Retire(gone) ==
  /\ follows' = [d \in Deployments |-> IF d \in gone THEN None ELSE follows[d]]
  /\ UNCHANGED recipe

Discard(gone) ==
  /\ \A d \in Deployments : follows[d] = None \/ follows[d] \notin gone
  /\ recipe' = [c \in Classes |-> IF c \in gone THEN None ELSE recipe[c]]
  /\ UNCHANGED follows

Next ==
  \/ \E c \in Classes, r \in Recipes : Complete(c, r)
  \/ \E d \in Deployments, c \in Classes : Follow(d, c)
  \/ \E gone \in SUBSET Deployments : Retire(gone)
  \/ \E gone \in SUBSET Classes : Discard(gone)

Spec == Init /\ [][Next]_vars
=============================================================================
