-------------------------------- MODULE Bastion --------------------------------
(***************************************************************************)
(* The bastion controller: the Bastion resources of a shoot and, for each, *)
(* a machine in the ironcore project, the secret with its ignition and the *)
(* network policy that lets SSH in (pkg/controller/bastion).               *)
(*                                                                         *)
(* Secret and policy are owned by the machine.  Delete deletes only the    *)
(* machine; the garbage collector takes the others once it has vanished.   *)
(* Gardener runs the actuator for each resource, one run at a time, and    *)
(* again after an error or a crash; every call may fail before or after it *)
(* took effect.                                                            *)
(*                                                                         *)
(* A definition whose name ends in Bug is a plausible mistake in the       *)
(* definition that follows it; nothing uses it but the mutation checks.    *)
(***************************************************************************)
EXTENDS Naturals

CONSTANTS
  Bastions,     \* Bastion resources, told apart by their UIDs
  MachineName,  \* the name generated for the host of a bastion
  Ingress,      \* values of spec.ingress: the clients that may connect
  Nobody,       \* no value of spec.ingress
  MaxMachines   \* bound: users delete machines up to this UID

(***************************************************************************)
(* The name is made of the cluster, the bastion and its UID, and truncated *)
(* to 63 characters: "in rare cases, this truncation may result in         *)
(* non-unique names".  The model assumes the common case.                  *)
(***************************************************************************)
ASSUME NamesAssumption ==
  \A b, c \in Bastions : MachineName[b] = MachineName[c] => b = c

ASSUME IngressAssumption == Ingress # {} /\ Nobody \notin Ingress

ASSUME BoundAssumption == MaxMachines \in Nat

Names == {MachineName[b] : b \in Bastions}

generateBastionHostResourceName(b) == MachineName[b]

VARIABLES
  phase,      \* a Bastion resource: absent, present, deleting, gone
  ingress,    \* its spec.ingress
  published,  \* status.ingress: UID of the machine whose address it shows
  pending,    \* a reconciliation is due
  infra,      \* the shoot's Worker carries an infrastructure status
  pc,         \* where the actuator is in its run
  seen,       \* spec.ingress as that run found it
  host,       \* the machine as that run got it
  address,    \* UID of the machine whose address that run has read
  machines,   \* the machines of the project; "shows" is what they report
  secrets,    \* ignition secrets: UID of the owner, 0 if there is none
  policies    \* network policies: UID of the owner, and the clients let in

resourceVars == <<phase, ingress, published>>
runVars      == <<pc, seen, host, address>>
cloudVars    == <<machines, secrets, policies>>
vars         == <<resourceVars, pending, infra, runVars, cloudVars>>

PCs == {"idle", "infra", "machine", "secret", "policy", "endpoints", "status",
        "delete", "release"}

(* What a machine comes to report: that it is running and has a network    *)
(* interface, and there the private and the virtual IP.                    *)
Reports == {"running", "ips"}

NoHost   == [uid |-> 0, running |-> FALSE]
NoPolicy == [owner |-> 0, clients |-> Nobody]

Host(b)   == machines[generateBastionHostResourceName(b)]
Secret(b) == secrets[generateBastionHostResourceName(b)]
Policy(b) == policies[generateBastionHostResourceName(b)]

Init ==
  /\ phase     = [b \in Bastions |-> "absent"]
  /\ ingress   = [b \in Bastions |-> Nobody]
  /\ published = [b \in Bastions |-> 0]
  /\ pending   = [b \in Bastions |-> FALSE]
  /\ infra     = FALSE
  /\ pc        = [b \in Bastions |-> "idle"]
  /\ seen      = [b \in Bastions |-> Nobody]
  /\ host      = [b \in Bastions |-> NoHost]
  /\ address   = [b \in Bastions |-> 0]
  /\ machines  = [n \in Names |-> [state |-> "absent", uid |-> 0, shows |-> {}]]
  /\ secrets   = [n \in Names |-> 0]
  /\ policies  = [n \in Names |-> NoPolicy]

-----------------------------------------------------------------------------
(***************************************************************************)
(* Gardener and its users, ironcore and the garbage collector.             *)
(***************************************************************************)

CreateBastion(b, i) ==
  /\ phase[b] = "absent"
  /\ phase'   = [phase EXCEPT ![b] = "present"]
  /\ ingress' = [ingress EXCEPT ![b] = i]
  /\ pending' = [pending EXCEPT ![b] = TRUE]
  /\ UNCHANGED <<published, infra, runVars, cloudVars>>

UpdateIngress(b, i) ==
  /\ phase[b] = "present"
  /\ i # ingress[b]
  /\ ingress' = [ingress EXCEPT ![b] = i]
  /\ pending' = [pending EXCEPT ![b] = TRUE]
  /\ UNCHANGED <<phase, published, infra, runVars, cloudVars>>

RequestDeletion(b) ==
  /\ phase[b] = "present"
  /\ phase'   = [phase EXCEPT ![b] = "deleting"]
  /\ pending' = [pending EXCEPT ![b] = TRUE]
  /\ UNCHANGED <<ingress, published, infra, runVars, cloudVars>>

(* The Worker is created with the infrastructure status, or goes. *)
InfraChanges ==
  /\ infra' = ~infra
  /\ UNCHANGED <<resourceVars, pending, runVars, cloudVars>>

MachineReports(n, what) ==
  /\ machines[n].state = "live"
  /\ machines' = [machines EXCEPT ![n].shows = @ \cup {what}]
  /\ UNCHANGED <<resourceVars, pending, infra, runVars, secrets, policies>>

(* Somebody deletes the machine of a bastion that stays. *)
OperatorDeletes(n) ==
  /\ machines[n].state = "live"
  /\ machines[n].uid < MaxMachines
  /\ machines' = [machines EXCEPT ![n].state = "terminating"]
  /\ UNCHANGED <<resourceVars, pending, infra, runVars, secrets, policies>>

MachineVanishes(n) ==
  /\ machines[n].state = "terminating"
  /\ machines' = [machines EXCEPT ![n].state = "absent", ![n].shows = {}]
  /\ UNCHANGED <<resourceVars, pending, infra, runVars, secrets, policies>>

OwnerGone(n, owner) == machines[n].state = "absent" \/ machines[n].uid # owner

CollectSecret(n) ==
  /\ secrets[n] # 0 /\ OwnerGone(n, secrets[n])
  /\ secrets' = [secrets EXCEPT ![n] = 0]
  /\ UNCHANGED <<resourceVars, pending, infra, runVars, machines, policies>>

CollectPolicy(n) ==
  /\ policies[n] # NoPolicy /\ OwnerGone(n, policies[n].owner)
  /\ policies' = [policies EXCEPT ![n] = NoPolicy]
  /\ UNCHANGED <<resourceVars, pending, infra, runVars, machines, secrets>>

-----------------------------------------------------------------------------
(***************************************************************************)
(* A run of the actuator.                                                  *)
(***************************************************************************)

Begin(b) ==
  /\ pc[b] = "idle"
  /\ pending[b]
  /\ pending' = [pending EXCEPT ![b] = FALSE]
  /\ \/ /\ phase[b] = "present"
        /\ pc'   = [pc EXCEPT ![b] = "infra"]
        /\ seen' = [seen EXCEPT ![b] = ingress[b]]
     \/ /\ phase[b] = "deleting"
        /\ pc' = [pc EXCEPT ![b] = "delete"]
        /\ UNCHANGED seen
  /\ UNCHANGED <<resourceVars, infra, host, address, cloudVars>>

EndRun(b) ==
  /\ pc'      = [pc EXCEPT ![b] = "idle"]
  /\ seen'    = [seen EXCEPT ![b] = Nobody]
  /\ host'    = [host EXCEPT ![b] = NoHost]
  /\ address' = [address EXCEPT ![b] = 0]

FailRun(b) == EndRun(b) /\ pending' = [pending EXCEPT ![b] = TRUE]

(* A call fails without effect, or the controller crashes before it. *)
Abort(b) ==
  /\ pc[b] # "idle"
  /\ FailRun(b)
  /\ UNCHANGED <<resourceVars, infra, cloudVars>>

(* A call that took effect returns, or its answer is lost. *)
Returns(b, next) ==
  \/ /\ pc' = [pc EXCEPT ![b] = next]
     /\ UNCHANGED <<pending, seen, host, address>>
  \/ FailRun(b)

(* Validate and reconcile read the Worker of the shoot. *)
getInfrastructureStatus(b) ==
  /\ pc[b] = "infra"
  /\ infra
  /\ pc' = [pc EXCEPT ![b] = "machine"]
  /\ UNCHANGED <<resourceVars, pending, infra, seen, host, address, cloudVars>>

(***************************************************************************)
(* applyMachineAndIgnitionSecret: CreateOrPatch(object, nil) creates what  *)
(* is missing and only reads what exists.                                  *)
(***************************************************************************)
applyMachine(b) ==
  LET n == generateBastionHostResourceName(b)
  IN  /\ pc[b] = "machine"
      /\ IF machines[n].state # "absent"
           THEN UNCHANGED machines
           ELSE machines' = [machines EXCEPT ![n] =
                               [state |-> "live", uid |-> @.uid + 1, shows |-> {}]]
      /\ \/ /\ pc'   = [pc EXCEPT ![b] = "secret"]
            /\ host' = [host EXCEPT ![b] =
                          [uid     |-> machines'[n].uid,
                           running |-> "running" \in machines'[n].shows]]
            /\ UNCHANGED <<pending, seen, address>>
         \/ FailRun(b)
      /\ UNCHANGED <<resourceVars, infra, secrets, policies>>

applyIgnitionSecret_Bug(b) ==
  LET n == generateBastionHostResourceName(b)
  IN  /\ pc[b] = "secret"
      /\ secrets' = [secrets EXCEPT ![n] = IF @ = 0 THEN host[b].uid ELSE @]
      /\ Returns(b, "endpoints")
      /\ UNCHANGED <<resourceVars, infra, machines, policies>>

applyIgnitionSecret(b) ==
  LET n == generateBastionHostResourceName(b)
  IN  /\ pc[b] = "secret"
      /\ secrets' = [secrets EXCEPT ![n] = IF @ = 0 THEN host[b].uid ELSE @]
      /\ Returns(b, "policy")
      /\ UNCHANGED <<resourceVars, infra, machines, policies>>

(* The owner of the policy is the machine the run has got. *)
ensureNetworkPolicy(b) ==
  LET n == generateBastionHostResourceName(b)
  IN  /\ pc[b] = "policy"
      /\ policies' = [policies EXCEPT ![n] =
                        IF @ = NoPolicy THEN [owner   |-> host[b].uid,
                                              clients |-> seen[b]]
                                        ELSE @]
      /\ Returns(b, "endpoints")
      /\ UNCHANGED <<resourceVars, infra, machines, secrets>>

getMachineEndpoints_Bug(b) ==
  /\ pc[b] = "endpoints"
  /\ host[b].running
  /\ address' = [address EXCEPT ![b] = IF "ips" \in Host(b).shows THEN Host(b).uid ELSE 0]
  /\ pc' = [pc EXCEPT ![b] = "status"]
  /\ UNCHANGED <<resourceVars, pending, infra, seen, host, cloudVars>>

(***************************************************************************)
(* getMachineEndpoints: the machine is the one the run got at first, its   *)
(* network interface is read now.  Without both addresses the run ends.    *)
(***************************************************************************)
getMachineEndpoints(b) ==
  /\ pc[b] = "endpoints"
  /\ host[b].running
  /\ "ips" \in Host(b).shows
  /\ address' = [address EXCEPT ![b] = Host(b).uid]
  /\ pc' = [pc EXCEPT ![b] = "status"]
  /\ UNCHANGED <<resourceVars, pending, infra, seen, host, cloudVars>>

publishIngress(b) ==
  /\ pc[b] = "status"
  /\ published' = [published EXCEPT ![b] = address[b]]
  /\ \/ EndRun(b) /\ UNCHANGED pending
     \/ FailRun(b)
  /\ UNCHANGED <<phase, ingress, infra, cloudVars>>

LookupFails_Bug(b) ==
  /\ \/ pc[b] = "infra" /\ ~infra
     \/ pc[b] = "endpoints" /\ ~(host[b].running /\ "ips" \in Host(b).shows)
  /\ EndRun(b)
  /\ UNCHANGED <<resourceVars, pending, infra, cloudVars>>

(* Errors the run makes itself: no infrastructure status, no endpoints. *)
LookupFails(b) ==
  /\ \/ pc[b] = "infra" /\ ~infra
     \/ pc[b] = "endpoints" /\ ~(host[b].running /\ "ips" \in Host(b).shows)
  /\ FailRun(b)
  /\ UNCHANGED <<resourceVars, infra, cloudVars>>

Delete_Bug(b) ==
  LET n == generateBastionHostResourceName(b)
  IN  /\ pc[b] = "delete"
      /\ machines[n].state # "absent"
      /\ machines' = [machines EXCEPT ![n].state = "terminating"]
      /\ Returns(b, "release")
      /\ UNCHANGED <<resourceVars, infra, secrets, policies>>

Delete_SkipBug(b) ==
  LET n == generateBastionHostResourceName(b)
  IN  /\ pc[b] = "delete"
      /\ IF published[b] = 0
           THEN UNCHANGED machines
           ELSE machines' = [machines EXCEPT ![n].state =
                               IF @ = "absent" THEN "absent" ELSE "terminating"]
      /\ Returns(b, "release")
      /\ UNCHANGED <<resourceVars, infra, secrets, policies>>

(* A machine that is not found is no error. *)
Delete(b) ==
  LET n == generateBastionHostResourceName(b)
  IN  /\ pc[b] = "delete"
      /\ machines' = [machines EXCEPT ![n].state =
                        IF @ = "absent" THEN "absent" ELSE "terminating"]
      /\ Returns(b, "release")
      /\ UNCHANGED <<resourceVars, infra, secrets, policies>>

(* Delete returned nil: Gardener removes the finalizer. *)
Release(b) ==
  /\ pc[b] = "release"
  /\ phase'     = [phase EXCEPT ![b] = "gone"]
  /\ published' = [published EXCEPT ![b] = 0]
  /\ EndRun(b)
  /\ UNCHANGED <<ingress, pending, infra, cloudVars>>

-----------------------------------------------------------------------------
RunStep(b) ==
  \/ getInfrastructureStatus(b)
  \/ applyMachine(b)
  \/ applyIgnitionSecret(b)
  \/ ensureNetworkPolicy(b)
  \/ getMachineEndpoints(b)
  \/ publishIngress(b)
  \/ LookupFails(b)
  \/ Delete(b)
  \/ Release(b)

CloudStep(n) ==
  \/ \E what \in Reports : MachineReports(n, what)
  \/ OperatorDeletes(n)
  \/ MachineVanishes(n)
  \/ CollectSecret(n)
  \/ CollectPolicy(n)

Next ==
  \/ \E b \in Bastions :
       \/ \E i \in Ingress : CreateBastion(b, i) \/ UpdateIngress(b, i)
       \/ RequestDeletion(b)
       \/ Begin(b) \/ RunStep(b) \/ Abort(b)
  \/ InfraChanges
  \/ \E n \in Names : CloudStep(n)

Spec == Init /\ [][Next]_vars

(***************************************************************************)
(* Fairness.  The work queue hands out a due resource, a run goes on,      *)
(* machines come up, deletions are finished and garbage is collected (WF); *)
(* failures of calls and crashes end some day.  The failures the run makes *)
(* itself (LookupFails) may go on, and nothing is assumed of users.        *)
(***************************************************************************)
Fails(b) ==
  /\ pc[b] # "idle" /\ pc'[b] = "idle"
  /\ pc[b] = "status"  => published'[b] # address[b]
  /\ pc[b] = "release" => phase'[b] # "gone"
  /\ ~LookupFails(b)

Fairness ==
  /\ \A b \in Bastions :
       WF_vars(Begin(b)) /\ WF_vars(RunStep(b)) /\ <>[][~Fails(b)]_vars
  /\ \A n \in Names :
       /\ \A what \in Reports : WF_vars(MachineReports(n, what))
       /\ WF_vars(MachineVanishes(n))
       /\ WF_vars(CollectSecret(n)) /\ WF_vars(CollectPolicy(n))

FairSpec == Spec /\ Fairness

-----------------------------------------------------------------------------
(* A run that goes on from the machine has one, and one that publishes an  *)
(* address has read it.                                                    *)
RunHasWhatItNeeds(b) ==
  /\ pc[b] \in {"secret", "policy", "endpoints", "status"} => host[b].uid # 0
  /\ pc[b] = "status" => address[b] # 0

(* A machine that is there has been made, one that is not reports nothing. *)
MachineReportsItself(n) ==
  /\ machines[n].state # "absent" => machines[n].uid # 0
  /\ machines[n].state = "absent" => machines[n].shows = {}

TypeOK ==
  /\ phase     \in [Bastions -> {"absent", "present", "deleting", "gone"}]
  /\ ingress   \in [Bastions -> Ingress \cup {Nobody}]
  /\ published \in [Bastions -> Nat]
  /\ pending   \in [Bastions -> BOOLEAN]
  /\ infra     \in BOOLEAN
  /\ pc        \in [Bastions -> PCs]
  /\ seen      \in [Bastions -> Ingress \cup {Nobody}]
  /\ host      \in [Bastions -> [uid : Nat, running : BOOLEAN]]
  /\ address   \in [Bastions -> Nat]
  /\ machines  \in [Names -> [state : {"absent", "live", "terminating"},
                              uid : Nat, shows : SUBSET Reports]]
  /\ secrets   \in [Names -> Nat]
  /\ policies  \in [Names -> [owner : Nat, clients : Ingress \cup {Nobody}]]
  /\ \A b \in Bastions : RunHasWhatItNeeds(b)
  /\ \A n \in Names : MachineReportsItself(n)

Settled(b) == phase[b] = "present" /\ pc[b] = "idle" /\ ~pending[b]

(* The first machine of the bastion is there, and nobody has deleted it. *)
Undisturbed(b) == Host(b).state = "live" /\ Host(b).uid = 1

Guarded(b) ==
  /\ Secret(b) = Host(b).uid
  /\ Policy(b).owner = Host(b).uid

(***************************************************************************)
(* An address is published only for a machine that has its ignition and    *)
(* its network policy, both owned by it, and it is the address of that     *)
(* machine: before the policy is there nobody is told to connect.          *)
(***************************************************************************)
PublishedHostIsGuarded ==
  \A b \in Bastions :
    published[b] # 0 /\ Undisturbed(b) =>
      published[b] = Host(b).uid /\ Guarded(b)

(***************************************************************************)
(* The controller keeps the promise of BastionAccess: a host is there only *)
(* for a Bastion that is, it is guarded before it is published and as long *)
(* as it is there, and a Bastion that is gone leaves no host behind.       *)
(***************************************************************************)
HostOf(b) ==
  CASE Host(b).uid = 0                             -> "none"
    [] Host(b).uid # 0 /\ Host(b).state # "live"   -> "down"
    [] Host(b).uid = 1 /\ Host(b).state = "live"   -> "first"
    [] Host(b).uid > 1 /\ Host(b).state = "live"   -> "other"

AccessOf(b) ==
  IF ~Undisturbed(b) THEN "closed"
  ELSE IF published[b] # 0 THEN "open"
  ELSE IF Guarded(b) THEN "guarded"
  ELSE "closed"

Access == INSTANCE BastionAccess WITH
  host   <- [b \in Bastions |-> HostOf(b)],
  access <- [b \in Bastions |-> AccessOf(b)]

ImplementsAccess == Access!Spec

(***************************************************************************)
(* The machine of a Bastion that stays is deleted by nobody but a user:    *)
(* not by the controller for another Bastion of the shoot.                 *)
(***************************************************************************)
HostsAreKept ==
  [][\A b \in Bastions :
       /\ phase[b] = "present"
       /\ Host(b).state = "live"
       /\ ~OperatorDeletes(generateBastionHostResourceName(b))
       => Host(b)'.state = "live"]_vars

(***************************************************************************)
(* The secret's owner is set "to ensure that the secret is garbage         *)
(* collected when the bastion host is deleted" (actuator_reconcile.go): a  *)
(* Bastion that is deleted goes, and with it everything made for it, also  *)
(* when its machine was gone before.                                       *)
(***************************************************************************)
DeletionCollectsAll ==
  \A b \in Bastions :
    phase[b] = "deleting" ~>
      /\ phase[b] = "gone"
      /\ Host(b).state = "absent" /\ Secret(b) = 0 /\ Policy(b) = NoPolicy

(***************************************************************************)
(* A Bastion that stays, whose machine nobody deletes, becomes usable:     *)
(* however late the machine runs and gets its addresses, it is published.  *)
(***************************************************************************)
BecomesUsable ==
  \A b \in Bastions :
    <>[](phase[b] = "present" /\ infra /\ Host(b).uid <= 1 /\ Host(b).state # "terminating")
      /\ []~(phase[b] = "present" /\ Host(b).state = "terminating")
      => <>[](Undisturbed(b) /\ published[b] = 1 /\ Guarded(b))

(***************************************************************************)
(* "ensuring bastion network policy is created with correct spec"          *)
(* (actuator_reconcile_test.go): the policy lets in the clients that the   *)
(* Bastion names.                                                          *)
(***************************************************************************)
PolicyAdmitsIngress ==
  \A b \in Bastions :
    Settled(b) /\ published[b] # 0 /\ Undisturbed(b) => Policy(b).clients = ingress[b]
=============================================================================
