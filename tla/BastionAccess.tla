---------------------------- MODULE BastionAccess ----------------------------
(***************************************************************************)
(* What the bastion controller promises, without its runs, names, owners   *)
(* and failures: a Bastion has a host only while its resource is there,    *)
(* nobody is told to connect to the first host before it is guarded by its *)
(* ignition and its network policy, the guard stays as long as that host   *)
(* does, and the resource goes only when the host is down.                 *)
(***************************************************************************)
CONSTANT Bastions

VARIABLES
  phase,  \* the Bastion resource
  host,   \* none yet, the first one, down, or another that came after it
  access  \* to the first host: closed, guarded but not published, or open

vars == <<phase, host, access>>

Init ==
  /\ phase  = [b \in Bastions |-> "absent"]
  /\ host   = [b \in Bastions |-> "none"]
  /\ access = [b \in Bastions |-> "closed"]

Moves(b, from, to) ==
  /\ phase[b] = from
  /\ phase' = [phase EXCEPT ![b] = to]
  /\ UNCHANGED <<host, access>>

Gone(b) == host[b] \in {"none", "down"} /\ Moves(b, "deleting", "gone")

Starts(b, before, after) ==
  /\ phase[b] \in {"present", "deleting"}
  /\ host[b] = before
  /\ host' = [host EXCEPT ![b] = after]
  /\ UNCHANGED <<phase, access>>

GoesDown(b) ==
  /\ host[b] \in {"first", "other"}
  /\ host'   = [host EXCEPT ![b] = "down"]
  /\ access' = [access EXCEPT ![b] = "closed"]
  /\ UNCHANGED phase

Admits(b, before, after) ==
  /\ phase[b] \in {"present", "deleting"}
  /\ host[b] = "first"
  /\ access[b] = before
  /\ access' = [access EXCEPT ![b] = after]
  /\ UNCHANGED <<phase, host>>

Next ==
  \E b \in Bastions :
    \/ Moves(b, "absent", "present")
    \/ Moves(b, "present", "deleting")
    \/ Gone(b)
    \/ Starts(b, "none", "first")
    \/ Starts(b, "down", "other")
    \/ GoesDown(b)
    \/ Admits(b, "closed", "guarded")
    \/ Admits(b, "guarded", "open")

Spec == Init /\ [][Next]_vars
=============================================================================
