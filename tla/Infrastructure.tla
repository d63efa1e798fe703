--------------------------- MODULE Infrastructure ---------------------------
(***************************************************************************)
(* The infrastructure controller: one Infrastructure resource per shoot,   *)
(* and the network, NAT gateway, prefix and network policy the actuator    *)
(* keeps for it in the ironcore project (pkg/controller/infrastructure).   *)
(*                                                                         *)
(* Gardener's generic reconciler runs the actuator, at most one run per    *)
(* resource at a time, and runs it again after an error or a crash.  A run *)
(* is a sequence of calls to the ironcore API; every call may fail before  *)
(* or after it took effect, so each is a step of its own and the run may   *)
(* stop between any two of them.  Objects in the cloud carry finalizers: a *)
(* deleted one is "terminating" until it vanishes, and a Get still finds   *)
(* it.                                                                     *)
(*                                                                         *)
(* A definition whose name ends in _Bug is a plausible mistake in the      *)
(* definition that follows it; nothing uses it but the mutation checks.    *)
(***************************************************************************)
EXTENDS Naturals

CONSTANTS
  Shoots,         \* the shoots whose Infrastructure this controller manages
  UserNetworks,   \* names of networks users may make and refer to
  UserPolicies,   \* names of network policies users may make
  TechnicalName,  \* the name generated for the objects of a shoot
  Ports,          \* values of natPortsPerNetworkInterface
  PolicyRefs,     \* values of networkPolicyRef
  None,           \* an absent reference
  MaxLives,       \* bound: how often a shoot of one name is created
  MaxUserGen      \* bound: how often a user creates an object of one name

UserNames      == UserNetworks \cup UserPolicies
GeneratedNames == {TechnicalName[s] : s \in Shoots}
Names          == GeneratedNames \cup UserNames

(***************************************************************************)
(* Gardener allows no "--" in project and shoot names, so two shoots never *)
(* share shoot--<namespace>--<name>; that users do not give their own      *)
(* objects such a name is an assumption of this model.                     *)
(***************************************************************************)
ASSUME NamesAssumption ==
  /\ \A s, t \in Shoots : TechnicalName[s] = TechnicalName[t] => s = t
  /\ GeneratedNames \cap UserNames = {}
  /\ None \notin Names
  /\ PolicyRefs \subseteq UserPolicies \cup {None}
  /\ PolicyRefs # {} /\ Ports # {}

ASSUME BoundsAssumption == MaxLives \in Nat /\ MaxUserGen \in Nat

Kinds == {"network", "natgateway", "prefix", "policy"}

(***************************************************************************)
(* InfrastructureConfig.  The nodes CIDR of the shoot is immutable and     *)
(* left out, so "natPorts" stands for the port number computed from it.    *)
(***************************************************************************)
Configs == [networkRef       : UserNetworks \cup {None},
            networkPolicyRef : PolicyRefs,
            natPorts         : Ports]

AnyConfig == CHOOSE c \in Configs : TRUE

(***************************************************************************)
(* A cloud object.  "uid" counts the creations under its kind and name and *)
(* stands for the UID of the last one; "net" is spec.networkRef, "ports"   *)
(* spec.portsPerNetworkInterface, of the kinds that have them.             *)
(***************************************************************************)
Objects == [state : {"absent", "live", "terminating"},
            uid   : Nat,
            net   : Names \cup {None},
            ports : Ports \cup {None}]

InState(o, st) == [o EXCEPT !.state = st]

Ref   == [name : Names \cup {None}, uid : Nat]
NoRef == [name |-> None, uid |-> 0]

RefsUnset == [k \in Kinds |-> NoRef]

VARIABLES
  phase,    \* the Infrastructure resource: absent, present, deleting, ...
  config,   \* its spec.providerConfig
  status,   \* its status.providerStatus: one reference per kind
  pending,  \* a reconciliation is due: operation annotation or failed run
  lives,    \* how often the resource has been created
  pc,       \* where the actuator is in its run for this shoot
  seen,     \* the config that run decoded
  refs,     \* the objects that run has got so far
  objs      \* the ironcore project: kind -> name -> object

infraVars  == <<phase, config, status, pending, lives>>
workerVars == <<pc, seen, refs>>
vars       == <<infraVars, workerVars, objs>>

Phases == {"absent", "present", "deleting", "migrating", "migrated"}
PCs    == {"idle", "validate", "network", "natgateway", "prefix", "policy",
           "status", "delPrefix", "delNATGateway", "delNetworkPolicy",
           "delNetwork", "release", "migrate"}

Published(s) == status[s] # RefsUnset

generateResourceNameFromCluster(s) == TechnicalName[s]

(* The network a config asks for. *)
NetworkName(s, cfg) ==
  IF cfg.networkRef # None THEN cfg.networkRef
                           ELSE generateResourceNameFromCluster(s)

Init ==
  /\ phase   = [s \in Shoots |-> "absent"]
  /\ config  = [s \in Shoots |-> AnyConfig]
  /\ status  = [s \in Shoots |-> RefsUnset]
  /\ pending = [s \in Shoots |-> FALSE]
  /\ lives   = [s \in Shoots |-> 0]
  /\ pc      = [s \in Shoots |-> "idle"]
  /\ seen    = [s \in Shoots |-> AnyConfig]
  /\ refs    = [s \in Shoots |-> RefsUnset]
  /\ objs    = [k \in Kinds |-> [n \in Names |->
                  [state |-> "absent", uid |-> 0, net |-> None, ports |-> None]]]

-----------------------------------------------------------------------------
(***************************************************************************)
(* Gardener and the users.                                                 *)
(***************************************************************************)

(* A shoot is created, under a name that may have been used before. *)
CreateInfrastructure(s, cfg) ==
  /\ phase[s] = "absent"
  /\ lives[s] < MaxLives
  /\ phase'   = [phase EXCEPT ![s] = "present"]
  /\ config'  = [config EXCEPT ![s] = cfg]
  /\ pending' = [pending EXCEPT ![s] = TRUE]
  /\ lives'   = [lives EXCEPT ![s] = @ + 1]
  /\ UNCHANGED <<status, workerVars, objs>>

MayUpdate_Bug(old, new) == TRUE

(* ValidateInfrastructureConfigUpdate lets everything but networkRef change. *)
MayUpdate(old, new) == new.networkRef = old.networkRef

UpdateConfig(s, cfg) ==
  /\ phase[s] = "present"
  /\ cfg # config[s]
  /\ MayUpdate(config[s], cfg)
  /\ config'  = [config EXCEPT ![s] = cfg]
  /\ pending' = [pending EXCEPT ![s] = TRUE]
  /\ UNCHANGED <<phase, status, lives, workerVars, objs>>

(* The gardenlet reconciles every shoot periodically. *)
RequestReconcile(s) ==
  /\ phase[s] = "present"
  /\ ~pending[s]
  /\ pending' = [pending EXCEPT ![s] = TRUE]
  /\ UNCHANGED <<phase, config, status, lives, workerVars, objs>>

(* The shoot is deleted, or its control plane is moved to another seed. *)
RequestDeletion(s) ==
  /\ phase[s] = "present"
  /\ phase'   = [phase EXCEPT ![s] = "deleting"]
  /\ pending' = [pending EXCEPT ![s] = TRUE]
  /\ UNCHANGED <<config, status, lives, workerVars, objs>>

RequestMigration(s) ==
  /\ phase[s] = "present"
  /\ phase'   = [phase EXCEPT ![s] = "migrating"]
  /\ pending' = [pending EXCEPT ![s] = TRUE]
  /\ UNCHANGED <<config, status, lives, workerVars, objs>>

(* The other seed creates the resource again and Restore reconciles it. *)
RequestRestore(s) ==
  /\ phase[s] = "migrated"
  /\ phase'   = [phase EXCEPT ![s] = "present"]
  /\ pending' = [pending EXCEPT ![s] = TRUE]
  /\ UNCHANGED <<config, status, lives, workerVars, objs>>

UserCreates(k, n) ==
  /\ objs[k][n].state = "absent"
  /\ objs[k][n].uid < MaxUserGen
  /\ objs' = [objs EXCEPT ![k][n] = [state |-> "live", uid |-> @.uid + 1,
                                      net |-> None, ports |-> None]]
  /\ UNCHANGED <<infraVars, workerVars>>

UserDeletes(k, n) ==
  /\ objs[k][n].state = "live"
  /\ objs' = [objs EXCEPT ![k][n] = InState(@, "terminating")]
  /\ UNCHANGED <<infraVars, workerVars>>

(* The ironcore controllers remove the finalizers of a deleted object. *)
Vanish(k, n) ==
  /\ objs[k][n].state = "terminating"
  /\ objs' = [objs EXCEPT ![k][n] = InState(@, "absent")]
  /\ UNCHANGED <<infraVars, workerVars>>

-----------------------------------------------------------------------------
(***************************************************************************)
(* The generic reconciler: one run per shoot, from the resource as it is   *)
(* when the run begins.                                                    *)
(***************************************************************************)

FirstStep_Bug(ph) == IF ph = "present" THEN "validate" ELSE "delPrefix"

FirstStep(ph) == CASE ph = "present"   -> "validate"
                   [] ph = "deleting"  -> "delPrefix"
                   [] ph = "migrating" -> "migrate"

Begin(s) ==
  /\ pc[s] = "idle"
  /\ pending[s]
  /\ phase[s] \in {"present", "deleting", "migrating"}
  /\ pc'      = [pc EXCEPT ![s] = FirstStep(phase[s])]
  /\ seen'    = [seen EXCEPT ![s] = config[s]]
  /\ pending' = [pending EXCEPT ![s] = FALSE]
  /\ UNCHANGED <<phase, config, status, lives, refs, objs>>

(* The run is over; its local state is gone. *)
EndRun(s) ==
  /\ pc'   = [pc EXCEPT ![s] = "idle"]
  /\ seen' = [seen EXCEPT ![s] = AnyConfig]
  /\ refs' = [refs EXCEPT ![s] = RefsUnset]

(* A run that ends in an error is repeated from its beginning. *)
FailRun(s) == EndRun(s) /\ pending' = [pending EXCEPT ![s] = TRUE]

(* A call fails without effect, or the controller crashes before it. *)
Abort(s) ==
  /\ pc[s] # "idle"
  /\ FailRun(s)
  /\ UNCHANGED <<phase, config, status, lives, objs>>

(* A call that took effect either returns, and the run goes on to "next",  *)
(* or its answer is lost.                                                  *)
Returns(s, next) ==
  \/ /\ pc' = [pc EXCEPT ![s] = next]
     /\ UNCHANGED <<pending, seen, refs>>
  \/ FailRun(s)

ReturnsRef(s, next, k, ref) ==
  \/ /\ pc'   = [pc EXCEPT ![s] = next]
     /\ refs' = [refs EXCEPT ![s][k] = ref]
     /\ UNCHANGED <<pending, seen>>
  \/ FailRun(s)

RefTo(k, n) == [name |-> n, uid |-> objs[k][n].uid]

(***************************************************************************)
(* controllerutil.CreateOrPatch with a nil mutate function: an object that *)
(* exists is read and left as it is, one that does not is created.         *)
(***************************************************************************)
CreateOrPatch(s, next, k, n, net, ports) ==
  /\ IF objs[k][n].state # "absent"
       THEN UNCHANGED objs
       ELSE objs' = [objs EXCEPT ![k][n] =
                       [state |-> "live", uid |-> @.uid + 1,
                        net |-> net, ports |-> ports]]
  /\ ReturnsRef(s, next, k, [name |-> n, uid |-> objs'[k][n].uid])

(* A Get of an object that exists; else see LookupFails. *)
Get(s, next, k, n) ==
  /\ objs[k][n].state # "absent"
  /\ ReturnsRef(s, next, k, RefTo(k, n))
  /\ UNCHANGED objs

-----------------------------------------------------------------------------
(***************************************************************************)
(* The actuator: reconcile (and Restore, which is the same).               *)
(***************************************************************************)

(* configValidator.Validate: a referenced network must exist. *)
Validate(s) ==
  /\ pc[s] = "validate"
  /\ LET n == seen[s].networkRef
     IN  n # None => objs["network"][n].state # "absent"
  /\ pc' = [pc EXCEPT ![s] = "network"]
  /\ UNCHANGED <<infraVars, seen, refs, objs>>

applyNetwork(s) ==
  /\ pc[s] = "network"
  /\ IF seen[s].networkRef # None
       THEN Get(s, "natgateway", "network", seen[s].networkRef)
       ELSE CreateOrPatch(s, "natgateway", "network",
                          generateResourceNameFromCluster(s), None, None)
  /\ UNCHANGED <<phase, config, status, lives>>

applyNATGateway(s) ==
  /\ pc[s] = "natgateway"
  /\ CreateOrPatch(s, "prefix", "natgateway",
                   generateResourceNameFromCluster(s),
                   refs[s]["network"].name, seen[s].natPorts)
  /\ UNCHANGED <<phase, config, status, lives>>

applyPrefix_Bug(s) ==
  /\ pc[s] = "prefix"
  /\ IF status[s]["prefix"] # NoRef
       THEN /\ ReturnsRef(s, "policy", "prefix", status[s]["prefix"])
            /\ UNCHANGED objs
       ELSE CreateOrPatch(s, "policy", "prefix",
                          generateResourceNameFromCluster(s), None, None)
  /\ UNCHANGED <<phase, config, status, lives>>

applyPrefix(s) ==
  /\ pc[s] = "prefix"
  /\ CreateOrPatch(s, "policy", "prefix",
                   generateResourceNameFromCluster(s), None, None)
  /\ UNCHANGED <<phase, config, status, lives>>

(***************************************************************************)
(* With a networkPolicyRef the policy that is looked up is the one called  *)
(* like the *network* reference; without a network reference the lookup    *)
(* dereferences nil and the run panics.                                    *)
(***************************************************************************)
applyNetworkPolicy(s) ==
  /\ pc[s] = "policy"
  /\ IF seen[s].networkPolicyRef # None
       THEN /\ seen[s].networkRef # None
            /\ Get(s, "status", "policy", seen[s].networkRef)
       ELSE CreateOrPatch(s, "status", "policy",
                          generateResourceNameFromCluster(s),
                          refs[s]["network"].name, None)
  /\ UNCHANGED <<phase, config, status, lives>>

updateProviderStatus_NamesBug(s) ==
  /\ pc[s] = "status"
  /\ status' = [status EXCEPT ![s] = [k \in Kinds |-> refs[s][k].name]]
  /\ EndRun(s)
  /\ UNCHANGED <<phase, config, pending, lives, objs>>

updateProviderStatus_OnceBug(s) ==
  /\ pc[s] = "status"
  /\ status' = [status EXCEPT ![s] = IF Published(s) THEN @ ELSE refs[s]]
  /\ EndRun(s)
  /\ UNCHANGED <<phase, config, pending, lives, objs>>

updateProviderStatus(s) ==
  /\ pc[s] = "status"
  /\ status' = [status EXCEPT ![s] = refs[s]]
  /\ \/ EndRun(s) /\ UNCHANGED pending
     \/ FailRun(s)
  /\ UNCHANGED <<phase, config, lives, objs>>

(***************************************************************************)
(* Errors the run itself makes: a referenced network is missing, the       *)
(* looked-up policy is missing, or its name is read through a nil pointer. *)
(***************************************************************************)
LookupFails(s) ==
  /\ \/ /\ pc[s] \in {"validate", "network"}
        /\ seen[s].networkRef # None
        /\ objs["network"][seen[s].networkRef].state = "absent"
     \/ /\ pc[s] = "policy"
        /\ seen[s].networkPolicyRef # None
        /\ seen[s].networkRef = None
     \/ /\ pc[s] = "policy"
        /\ seen[s].networkPolicyRef # None
        /\ seen[s].networkRef # None
        /\ objs["policy"][seen[s].networkRef].state = "absent"
  /\ FailRun(s)
  /\ UNCHANGED <<phase, config, status, lives, objs>>

-----------------------------------------------------------------------------
(***************************************************************************)
(* The actuator: Delete.  Only objects of the generated name are deleted,  *)
(* a missing one is no error, and nothing waits for them to vanish.        *)
(***************************************************************************)

DeleteObject_RefBug(s, k) ==
  LET n == status[s][k].name
  IN  IF n # None /\ objs[k][n].state = "live"
        THEN objs' = [objs EXCEPT ![k][n] = InState(@, "terminating")]
        ELSE UNCHANGED objs

DeleteObject_NotFoundBug(s, k) ==
  LET n == generateResourceNameFromCluster(s)
  IN  /\ objs[k][n].state # "absent"
      /\ objs' = [objs EXCEPT ![k][n] = InState(@, "terminating")]

DeleteObject(s, k) ==
  LET n == generateResourceNameFromCluster(s)
  IN  IF objs[k][n].state = "live"
        THEN objs' = [objs EXCEPT ![k][n] = InState(@, "terminating")]
        ELSE UNCHANGED objs

deletePrefix(s) ==
  /\ pc[s] = "delPrefix"
  /\ DeleteObject(s, "prefix")
  /\ Returns(s, "delNATGateway")
  /\ UNCHANGED <<phase, config, status, lives>>

deleteNATGateway(s) ==
  /\ pc[s] = "delNATGateway"
  /\ DeleteObject(s, "natgateway")
  /\ Returns(s, "delNetworkPolicy")
  /\ UNCHANGED <<phase, config, status, lives>>

deleteNetworkPolicy(s) ==
  /\ pc[s] = "delNetworkPolicy"
  /\ DeleteObject(s, "policy")
  /\ Returns(s, "delNetwork")
  /\ UNCHANGED <<phase, config, status, lives>>

deleteNetwork(s) ==
  /\ pc[s] = "delNetwork"
  /\ DeleteObject(s, "network")
  /\ Returns(s, "release")
  /\ UNCHANGED <<phase, config, status, lives>>

(* Delete returned nil: Gardener removes the finalizer. *)
Release(s) ==
  /\ pc[s] = "release"
  /\ phase'  = [phase EXCEPT ![s] = "absent"]
  /\ status' = [status EXCEPT ![s] = RefsUnset]
  /\ EndRun(s)
  /\ UNCHANGED <<config, pending, lives, objs>>

(* Migrate does nothing; Gardener keeps the state for the other seed. *)
Migrate(s) ==
  /\ pc[s] = "migrate"
  /\ phase' = [phase EXCEPT ![s] = "migrated"]
  /\ EndRun(s)
  /\ UNCHANGED <<config, status, pending, lives, objs>>

-----------------------------------------------------------------------------
ReconcileStep(s) ==
  \/ Validate(s)
  \/ applyNetwork(s)
  \/ applyNATGateway(s)
  \/ applyPrefix(s)
  \/ applyNetworkPolicy(s)
  \/ updateProviderStatus(s)

DeleteStep(s) ==
  \/ deletePrefix(s)
  \/ deleteNATGateway(s)
  \/ deleteNetworkPolicy(s)
  \/ deleteNetwork(s)
  \/ Release(s)

RunStep(s) ==
  \/ LookupFails(s)
  \/ ReconcileStep(s)
  \/ DeleteStep(s)
  \/ Migrate(s)

GardenerStep(s) ==
  \/ \E cfg \in Configs : CreateInfrastructure(s, cfg)
  \/ \E cfg \in Configs : UpdateConfig(s, cfg)
  \/ RequestReconcile(s)
  \/ RequestDeletion(s)
  \/ RequestMigration(s)
  \/ RequestRestore(s)

CloudStep ==
  \/ \E n \in UserNetworks : UserCreates("network", n)
  \/ \E n \in UserPolicies : UserCreates("policy", n)
  \/ \E k \in Kinds, n \in UserNames : UserDeletes(k, n)
  \/ \E k \in Kinds, n \in Names : Vanish(k, n)

Next ==
  \/ \E s \in Shoots : Begin(s) \/ RunStep(s) \/ Abort(s)
  \/ \E s \in Shoots : GardenerStep(s)
  \/ CloudStep

Spec == Init /\ [][Next]_vars

(***************************************************************************)
(* Fairness.  The work queue hands out every due resource, no API call     *)
(* hangs for ever, so a run that began goes on, the gardenlet reconciles a *)
(* shoot periodically and the cloud finishes deletions (WF).  Failures of  *)
(* calls and crashes may be many but end some day; errors of the run's own *)
(* making (LookupFails) need not.  Nothing is assumed of users.            *)
(***************************************************************************)
Fails(s) ==
  /\ pc[s] # "idle" /\ pc'[s] = "idle"
  /\ pc[s] = "status" => status'[s] # refs[s]
  /\ pc[s] \in {"release", "migrate"} => phase'[s] = phase[s]
  /\ ~LookupFails(s)

Fairness ==
  /\ \A s \in Shoots :
       /\ WF_vars(RequestReconcile(s))
       /\ WF_vars(Begin(s))
       /\ WF_vars(RunStep(s))
       /\ <>[][~Fails(s)]_vars
  /\ \A k \in Kinds, n \in Names : WF_vars(Vanish(k, n))

FairSpec == Spec /\ Fairness

-----------------------------------------------------------------------------
(***************************************************************************)
(* Properties.                                                             *)
(***************************************************************************)

TypeOK ==
  /\ phase   \in [Shoots -> Phases]
  /\ config  \in [Shoots -> Configs]
  /\ status  \in [Shoots -> [Kinds -> Ref]]
  /\ pending \in [Shoots -> BOOLEAN]
  /\ lives   \in [Shoots -> Nat]
  /\ pc      \in [Shoots -> PCs]
  /\ seen    \in [Shoots -> Configs]
  /\ refs    \in [Shoots -> [Kinds -> Ref]]
  /\ objs    \in [Kinds -> [Names -> Objects]]

Own(s, k)  == objs[k][generateResourceNameFromCluster(s)]
Holds(s)   == {k \in Kinds : Own(s, k).state = "live"}
Settled(s) == phase[s] = "present" /\ pc[s] = "idle" /\ ~pending[s]

(***************************************************************************)
(* The NAT gateway and the network policy of a shoot serve the network     *)
(* that its published status names, the one workers and bastions attach    *)
(* to, although CreateOrPatch never corrects an object that exists.        *)
(***************************************************************************)
GatewayOnPublishedNetwork ==
  \A s \in Shoots :
    Published(s) =>
      \A k \in Holds(s) \cap {"natgateway", "policy"} :
        Own(s, k).net = status[s]["network"].name

(***************************************************************************)
(* After a run that ended well the status names, of every object under the *)
(* generated name, the incarnation created last, also when a terminating   *)
(* predecessor of the same name was still there during the run.            *)
(***************************************************************************)
SettledStatusIsCurrent ==
  \A s \in Shoots :
    Settled(s) =>
      \A k \in Kinds :
        /\ status[s][k] # NoRef
        /\ status[s][k].name = generateResourceNameFromCluster(s)
             => status[s][k].uid = Own(s, k).uid

(***************************************************************************)
(* A run for a shoot creates, changes and deletes nothing but objects of   *)
(* the shoot's generated name: not those of users, not those of others.    *)
(***************************************************************************)
RunsTouchOwnObjectsOnly ==
  [][\A s \in Shoots :
       pc'[s] # pc[s] =>
         \A k \in Kinds :
           \A n \in Names \ {generateResourceNameFromCluster(s)} :
             objs'[k][n] = objs[k][n]]_vars

(***************************************************************************)
(* The controller keeps the promise of CloudLease: the objects of a shoot  *)
(* come and go only as its Infrastructure resource allows.                 *)
(***************************************************************************)
Lease == INSTANCE CloudLease WITH Owners <- Shoots, held <- [s \in Shoots |-> Holds(s)]

ImplementsLease == Lease!Spec

(***************************************************************************)
(* Delete is idempotent, so a deletion that failed half-way is completed.  *)
(***************************************************************************)
DeletionCompletes ==
  \A s \in Shoots : phase[s] = "deleting" ~> phase[s] = "absent"

(***************************************************************************)
(* A shoot that stays, and whose referenced network stays, gets a status   *)
(* whose every reference names an existing object, even when it took over  *)
(* its name while the objects of its predecessor were still terminating.   *)
(***************************************************************************)
InputsStable(s) ==
  /\ phase[s] = "present"
  /\ config[s].networkPolicyRef = None
  /\ config[s].networkRef # None
       => objs["network"][config[s].networkRef].state = "live"

StatusUsable(s) ==
  \A k \in Kinds :
    /\ status[s][k] # NoRef
    /\ LET o == objs[k][status[s][k].name]
       IN  o.state = "live" /\ o.uid = status[s][k].uid

StatusBecomesUsable ==
  \A s \in Shoots : <>[]InputsStable(s) => <>[]StatusUsable(s)

(***************************************************************************)
(* types_infrastructure.go: networkPolicyRef "is reference to the          *)
(* NetworkPolicy to use for the Shoot creation".                           *)
(***************************************************************************)
ReferencedPolicyIsUsed ==
  \A s \in Shoots :
    Settled(s) /\ config[s].networkPolicyRef # None =>
      status[s]["policy"].name = config[s].networkPolicyRef
=============================================================================
