-------------------------------- MODULE Worker --------------------------------
(***************************************************************************)
(* The worker controller: one Worker resource with its pools, the machine  *)
(* classes and their secrets in the seed, and the machine images the       *)
(* Worker status remembers (pkg/controller/worker).                        *)
(*                                                                         *)
(* Gardener's generic actuator runs the delegate, which looks at the       *)
(* Worker and the CloudProfile as they are when the run begins, and        *)
(* afterwards removes the classes nothing uses any more.  The name of a    *)
(* class holds a hash of its pool, with the version of the machine image   *)
(* but neither its path nor the zones.  A pool has a class and a machine   *)
(* deployment for each of its zones, told apart by the zone's index.       *)
(*                                                                         *)
(* A definition whose name ends in Bug is a plausible mistake in the       *)
(* definition that follows it; nothing uses it but the mutation checks.    *)
(***************************************************************************)
EXTENDS Naturals, Sequences

CONSTANTS
  Pools,     \* names of worker pools
  Versions,  \* versions of the machine image
  Images,    \* paths a CloudProfile may give for a version
  Profiles,  \* CloudProfiles there may be: version -> path, or None
  ZoneLists, \* spec.zones of a pool
  None       \* no pool, no image, no object

ASSUME ProfilesAssumption == Profiles \subseteq [Versions -> Images \cup {None}]

Indices    == UNION {DOMAIN zones : zones \in ZoneLists}
Zones      == UNION {{zones[i] : i \in DOMAIN zones} : zones \in ZoneLists}

(* ValidateWorkers: a pool has a zone at least. *)
ASSUME ZoneListsAssumption == ZoneLists \subseteq Seq(Zones) \ {<<>>}

ClassNames == [pool : Pools, index : Indices, version : Versions]

(* The names of machine deployments have no hash. *)
DeploymentNames == [pool : Pools, index : Indices]

VARIABLES
  pools,     \* spec.pools: pool -> version of its image, and zones
  profile,   \* the CloudProfile: version -> image
  pending,   \* a reconciliation is due
  pc,        \* where the run is
  seen,      \* pools and profile as the run found them
  classes,   \* MachineClasses: name -> image, and zone in the node template
  secrets,   \* names of the classes that have a secret with user data
  status,    \* status.providerStatus.machineImages: version -> image
  machineDeployments, \* name -> their class
  readded,   \* history: pools made anew while something of former ones was left
  reconciled \* history: a run ended well with the pools there are

runVars     == <<pc, seen>>
historyVars == <<readded, reconciled>>
vars        == <<pools, profile, pending, runVars, classes, secrets, status,
                 machineDeployments, historyVars>>

PoolSpecs == [Pools -> [version : Versions, zones : ZoneLists] \cup {None}]
ImagesOf  == [Versions -> Images \cup {None}]

NoPools   == [p \in Pools |-> None]
NoImages  == [v \in Versions |-> None]
NoneSeen  == [pools |-> NoPools, profile |-> NoImages]

PCs == {"idle", "classes", "secrets", "images", "deployments", "cleanup"}

(* The names of the classes of a spec. *)
ClassesOf(spec) ==
  {c \in ClassNames : /\ spec[c.pool] # None
                      /\ c.version = spec[c.pool].version
                      /\ c.index \in DOMAIN spec[c.pool].zones}

Init ==
  /\ pools   = NoPools
  /\ profile \in Profiles
  /\ pending = TRUE
  /\ pc      = "idle"
  /\ seen    = NoneSeen
  /\ classes = [c \in ClassNames |-> None]
  /\ secrets = {}
  /\ status  = NoImages
  /\ machineDeployments = [d \in DeploymentNames |-> None]
  /\ readded = {} /\ reconciled = FALSE

-----------------------------------------------------------------------------
ValidateWorkersUpdate_Bug(old, new) == TRUE

(* Zones of a pool that has been there can only be added behind the others; *)
(* pools are told apart by their names.                                    *)
ValidateWorkersUpdate(old, new) ==
  old # None /\ new # None =>
    /\ Len(old.zones) <= Len(new.zones)
    /\ \A i \in DOMAIN old.zones : old.zones[i] = new.zones[i]

Remains(p) ==
  \/ seen.pools[p] # None
  \/ \E c \in ClassNames : c.pool = p /\ classes[c] # None

(* The shoot's owner adds, removes and updates pools. *)
UpdatePool(p, pool) ==
  /\ pool # pools[p]
  /\ ValidateWorkersUpdate(pools[p], pool)
  /\ pools'   = [pools EXCEPT ![p] = pool]
  /\ pending' = TRUE
  /\ readded' = readded \cup {q \in {p} : pools[p] = None /\ Remains(p)}
  /\ reconciled' = FALSE
  /\ UNCHANGED <<profile, runVars, classes, secrets, status, machineDeployments>>

(* The operator adds, changes and removes images; nothing is due for it. *)
UpdateProfile(new) ==
  /\ new # profile
  /\ profile' = new
  /\ UNCHANGED <<pools, pending, runVars, classes, secrets, status, machineDeployments, historyVars>>

RequestReconcile ==
  /\ ~pending
  /\ pending' = TRUE
  /\ UNCHANGED <<pools, profile, runVars, classes, secrets, status, machineDeployments, historyVars>>

-----------------------------------------------------------------------------
(* NewWorkerDelegate, and GenerateMachineDeployments, which changes nothing. *)
Begin ==
  /\ pc = "idle"
  /\ pending
  /\ pending' = FALSE
  /\ seen'    = [pools |-> pools, profile |-> profile]
  /\ pc'      = "classes"
  /\ UNCHANGED <<pools, profile, classes, secrets, status, machineDeployments, historyVars>>

EndRun == pc' = "idle" /\ seen' = NoneSeen

FailRun == EndRun /\ pending' = TRUE

(* A call fails before or after it took effect, or the controller crashes. *)
Abort ==
  /\ pc # "idle"
  /\ FailRun
  /\ UNCHANGED <<pools, profile, classes, secrets, status, machineDeployments, historyVars>>

Wanted == ClassesOf(seen.pools)

findMachineImage_Bug(v) == seen.profile[v]

(* The image of the CloudProfile, or else the one the status remembers. *)
findMachineImage(v) ==
  IF seen.profile[v] # None THEN seen.profile[v] ELSE status[v]

ImagesFound == \A c \in Wanted : findMachineImage(c.version) # None

(* The step from "images" looks them up again, with the same result. *)
ImageNotFound ==
  /\ pc = "classes"
  /\ ~ImagesFound
  /\ FailRun
  /\ UNCHANGED <<pools, profile, classes, secrets, status, machineDeployments, historyVars>>

(* The zones of a pool before that of a class. *)
Before(c) == {d \in Wanted : d.pool = c.pool /\ d.index < c.index}

CreateClass_Bug(c) ==
  /\ pc = "classes" /\ ImagesFound
  /\ c \in Wanted /\ classes[c] = None
  /\ \A d \in Before(c) : classes[d] # None
  /\ classes' = [classes EXCEPT ![c] = findMachineImage(c.version)]
  /\ UNCHANGED <<pools, profile, pending, runVars, secrets, status, machineDeployments, historyVars>>

(***************************************************************************)
(* DeployMachineClasses: first all classes, then all secrets, each created *)
(* with CreateOrPatch(object, nil), which leaves what exists as it is; the *)
(* zones of a pool in their order.                                         *)
(***************************************************************************)
CreateClass(c) ==
  /\ pc = "classes" /\ ImagesFound
  /\ c \in Wanted /\ classes[c] = None
  /\ \A d \in Before(c) : classes[d] # None
  /\ classes' = [classes EXCEPT ![c] = [image |-> findMachineImage(c.version),
                                     zone  |-> seen.pools[c.pool].zones[c.index]]]
  /\ UNCHANGED <<pools, profile, pending, runVars, secrets, status, machineDeployments, historyVars>>

ClassesDone_Bug ==
  /\ pc = "classes" /\ ImagesFound
  /\ \E c \in Wanted : classes[c] # None
  /\ pc' = "secrets"
  /\ UNCHANGED <<pools, profile, pending, seen, classes, secrets, status, machineDeployments, historyVars>>

ClassesDone ==
  /\ pc = "classes" /\ ImagesFound
  /\ \A c \in Wanted : classes[c] # None
  /\ pc' = "secrets"
  /\ UNCHANGED <<pools, profile, pending, seen, classes, secrets, status, machineDeployments, historyVars>>

CreateSecret(c) ==
  /\ pc = "secrets"
  /\ c \in Wanted \ secrets /\ Before(c) \subseteq secrets
  /\ secrets' = secrets \cup {c}
  /\ UNCHANGED <<pools, profile, pending, runVars, classes, status, machineDeployments, historyVars>>

SecretsDone_Bug ==
  /\ pc = "secrets"
  /\ pc' = "images"
  /\ UNCHANGED <<pools, profile, pending, seen, classes, secrets, status, machineDeployments, historyVars>>

SecretsDone ==
  /\ pc = "secrets"
  /\ Wanted \subseteq secrets
  /\ pc' = "images"
  /\ UNCHANGED <<pools, profile, pending, seen, classes, secrets, status, machineDeployments, historyVars>>

UpdateMachineImagesStatus_Bug ==
  /\ pc = "images"
  /\ status' = [v \in Versions |-> IF \E c \in Wanted : c.version = v
                                     THEN seen.profile[v] ELSE None]
  /\ pc' = "deployments" /\ seen' = [seen EXCEPT !.profile = NoImages]
  /\ UNCHANGED <<pools, profile, pending, classes, secrets, machineDeployments, historyVars>>

(* The images of the spec the run has seen, and no others; after that it   *)
(* needs the CloudProfile no more.                                         *)
UpdateMachineImagesStatus ==
  /\ pc = "images"
  /\ status' = [v \in Versions |-> IF \E c \in Wanted : c.version = v
                                     THEN findMachineImage(v) ELSE None]
  /\ pc' = "deployments" /\ seen' = [seen EXCEPT !.profile = NoImages]
  /\ UNCHANGED <<pools, profile, pending, classes, secrets, machineDeployments, historyVars>>

(***************************************************************************)
(* Gardener deploys what GenerateMachineDeployments has given it, which    *)
(* makes up the names of the classes once more.                            *)
(***************************************************************************)
WantedClass(d) ==
  [pool |-> d.pool, index |-> d.index, version |-> seen.pools[d.pool].version]

GenerateMachineDeployments ==
  {d \in DeploymentNames : /\ seen.pools[d.pool] # None
                           /\ d.index \in DOMAIN seen.pools[d.pool].zones}

DeployMachineDeployment(d) ==
  /\ pc = "deployments"
  /\ d \in GenerateMachineDeployments
  /\ machineDeployments[d] # WantedClass(d)
  /\ \A e \in GenerateMachineDeployments :
       e.pool = d.pool /\ e.index < d.index => machineDeployments[e] = WantedClass(e)
  /\ machineDeployments' = [machineDeployments EXCEPT ![d] = WantedClass(d)]
  /\ UNCHANGED <<pools, profile, pending, runVars, classes, secrets, status, historyVars>>

(* Deployments of pools and zones that are no more go with their machines. *)
MachineDeploymentsDone ==
  /\ pc = "deployments"
  /\ \A d \in GenerateMachineDeployments : machineDeployments[d] = WantedClass(d)
  /\ machineDeployments' = [d \in DeploymentNames |->
       IF d \in GenerateMachineDeployments THEN machineDeployments[d] ELSE None]
  /\ pc' = "cleanup"
  /\ UNCHANGED <<pools, profile, pending, seen, classes, secrets, status, historyVars>>

(* The machines have been rolled; what they used before is removed.        *)
Cleanup ==
  /\ pc = "cleanup"
  /\ classes' = [c \in ClassNames |-> IF c \in Wanted THEN classes[c] ELSE None]
  /\ secrets' = secrets \cap Wanted
  /\ readded' = {p \in readded : seen.pools[p] # None}
  /\ reconciled' = (reconciled \/ ~pending)
  /\ EndRun
  /\ UNCHANGED <<pools, profile, pending, status, machineDeployments>>

-----------------------------------------------------------------------------
RunStep ==
  \/ ImageNotFound
  \/ \E c \in ClassNames : CreateClass(c) \/ CreateSecret(c)
  \/ ClassesDone \/ SecretsDone
  \/ UpdateMachineImagesStatus
  \/ \E d \in DeploymentNames : DeployMachineDeployment(d)
  \/ MachineDeploymentsDone
  \/ Cleanup

Next ==
  \/ \E p \in Pools, pool \in [version : Versions, zones : ZoneLists] \cup {None} :
       UpdatePool(p, pool)
  \/ \E new \in Profiles : UpdateProfile(new)
  \/ RequestReconcile \/ Begin \/ RunStep \/ Abort

Spec == Init /\ [][Next]_vars

(* A run that is due begins, goes on, and does not fail for ever for other *)
(* reasons than a missing image; the gardenlet reconciles periodically.    *)
Fails == Abort /\ ~ImageNotFound

Fairness ==
  /\ WF_vars(RequestReconcile) /\ WF_vars(Begin) /\ WF_vars(RunStep)
  /\ <>[][~Fails]_vars

FairSpec == Spec /\ Fairness

-----------------------------------------------------------------------------
TypeOK ==
  /\ pools   \in PoolSpecs
  /\ profile \in Profiles
  /\ pending \in BOOLEAN
  /\ pc      \in PCs
  /\ seen    \in [pools : PoolSpecs, profile : ImagesOf]
  /\ classes \in [ClassNames -> [image : Images, zone : Zones] \cup {None}]
  /\ secrets \subseteq ClassNames
  /\ status  \in ImagesOf
  /\ machineDeployments \in [DeploymentNames -> ClassNames \cup {None}]
  /\ readded \subseteq Pools
  /\ reconciled \in BOOLEAN

Settled == pc = "idle" /\ ~pending

(***************************************************************************)
(* After a run that ended well every pool has its class with its secret,   *)
(* and no other pool or version has.                                       *)
(***************************************************************************)
SettledClassesAreWanted ==
  Settled => /\ {c \in ClassNames : classes[c] # None} = ClassesOf(pools)
             /\ secrets = ClassesOf(pools)

(***************************************************************************)
(* A class keeps the zone it was made for, while the list of zones grows   *)
(* and its runs see former states of it, unless its pool was removed and   *)
(* made anew before a run had removed the classes of the former pool.      *)
(***************************************************************************)
ClassesAreInTheirZones ==
  \A c \in ClassNames :
    /\ classes[c] # None
    /\ pools[c.pool] # None /\ c.index \in DOMAIN pools[c.pool].zones
    /\ c.pool \notin readded
    => classes[c].zone = pools[c.pool].zones[c.index]

(***************************************************************************)
(* Machines are only ever made from a class that exists and has its user   *)
(* data, and what a class says does not change while machines are made of  *)
(* it, whatever runs fail in between and whatever the pools become.        *)
(***************************************************************************)
Rollout == INSTANCE MachineRollout WITH
  Deployments <- DeploymentNames,
  Classes     <- ClassNames,
  Recipes     <- [image : Images, zone : Zones],
  recipe      <- [c \in ClassNames |-> IF c \in secrets THEN classes[c] ELSE None],
  follows     <- machineDeployments

ImplementsRollout == Rollout!Spec

(***************************************************************************)
(* The status remembers the images in use: once a run has ended well with  *)
(* the pools there are, any later run finds all images, whatever the       *)
(* CloudProfile has dropped since, even one that began before.             *)
(***************************************************************************)
ImagesAreRemembered ==
  reconciled =>
    /\ \A c \in ClassesOf(pools) : status[c.version] # None
    /\ pc \in {"classes", "secrets", "images"} => ImagesFound

(***************************************************************************)
(* Once the Worker is reconciled, no change of the CloudProfile can stop   *)
(* it from being reconciled again: images in use are remembered.           *)
(***************************************************************************)
StaysReconcilable == <>[]reconciled => []<>Settled
=============================================================================
