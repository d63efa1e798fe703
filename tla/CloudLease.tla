------------------------------ MODULE CloudLease ------------------------------
(***************************************************************************)
(* What a controller promises Gardener, without its runs, names,           *)
(* references and failures: an owner, a shoot or a backup bucket, holds    *)
(* cloud objects only while its extension resource exists, gives none up   *)
(* unless it is being deleted (not while it stays, and not while it moves  *)
(* to another seed), and the resource goes only when nothing is held any   *)
(* more.                                                                   *)
(***************************************************************************)
CONSTANTS Owners, Kinds

VARIABLES
  phase,  \* the extension resource of an owner
  held    \* the kinds of object the owner has in the cloud

vars == <<phase, held>>

Init ==
  /\ phase = [s \in Owners |-> "absent"]
  /\ held  = [s \in Owners |-> {}]

Moves(s, from, to) ==
  /\ phase[s] = from
  /\ phase' = [phase EXCEPT ![s] = to]
  /\ UNCHANGED held

Gone(s) == held[s] = {} /\ Moves(s, "deleting", "absent")

Acquire(s, k) ==
  /\ phase[s] \in {"present", "deleting", "migrating"}
  /\ held' = [held EXCEPT ![s] = @ \cup {k}]
  /\ UNCHANGED phase

GiveUp(s, k) ==
  /\ phase[s] = "deleting"
  /\ held' = [held EXCEPT ![s] = @ \ {k}]
  /\ UNCHANGED phase

Next ==
  \E s \in Owners :
    \/ Moves(s, "absent", "present")
    \/ Moves(s, "present", "deleting")
    \/ Moves(s, "present", "migrating")
    \/ Moves(s, "migrating", "migrated")
    \/ Moves(s, "migrated", "present")
    \/ Gone(s)
    \/ \E k \in Kinds : Acquire(s, k) \/ GiveUp(s, k)

Spec == Init /\ [][Next]_vars
=============================================================================
