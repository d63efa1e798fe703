------------------------------ MODULE ControlPlane ------------------------------
(***************************************************************************)
(* The control plane controller: Gardener's generic actuator with the      *)
(* secrets, charts and values of this extension                            *)
(* (pkg/controller/controlplane).                                          *)
(*                                                                         *)
(* The actuator is external, and with it the order of a run: secrets, the  *)
(* config chart, the control plane chart (cloud-controller-manager and CSI *)
(* controller, in the seed), the charts for the shoot, the storage         *)
(* classes, and then the secrets of earlier runs go.  What it asks the     *)
(* values provider for comes from the Cluster as the run found it.  The    *)
(* kube-apiserver is scaled by the gardenlet.  Calls may fail and the      *)
(* controller may restart between any two steps.                           *)
(*                                                                         *)
(* A definition whose name ends in Bug is a plausible mistake in the       *)
(* definition that follows it; nothing uses it but the mutation checks.    *)
(***************************************************************************)
EXTENDS Naturals

CONSTANTS
  StorageClasses,  \* of the CloudProfile, told apart by their volume classes
  MayBe,           \* what the volume class of a storage class may be
  Networkings,     \* provider configs of spec.networking of the shoot
  NotDeployed,     \* no such deployment, no storage classes, no run
  MaxRotations     \* bound: the CA is rotated so many times

ASSUME NetworkingsAssumption == Networkings \subseteq {"none", "no overlay", "disabled", "enabled"}

ASSUME RotationsAssumption == MaxRotations \in Nat

ASSUME MayBeAssumption ==
  MayBe \in [StorageClasses -> SUBSET {"missing", "Static", "ExpandOnly"}]

ASSUME NotDeployedAssumption ==
  /\ NotDeployed \notin [replicas : {0, 1}, configureCloudRoutes : BOOLEAN, server : Nat]
  /\ NotDeployed # [replicas |-> 0]
  /\ \A classes \in SUBSET [type : StorageClasses, expandable : BOOLEAN] : NotDeployed # classes

Modes == {"awake", "hibernated"}

VARIABLES
  mode,        \* the shoot
  networking,  \* its spec.networking.providerConfig
  policies,    \* the volume classes: missing, or how they may be resized
  rotation,    \* rotations of the control plane's CA so far
  apiserver,   \* the kube-apiserver has replicas
  controlplane,\* the ControlPlane: "absent", "present", "deleting", "gone"
  due,         \* a run is due
  step,        \* where the run is
  found,       \* the shoot and the rotation it found
  scaledDown,  \* it found the kube-apiserver scaled down
  serverSecrets, \* the server secrets in the seed, by rotation
  charts,      \* of the charts with a content of their own: "config", "shoot"
  ccm,         \* the deployment of the cloud-controller-manager
  csi,         \* the replicas of the CSI controller
  storageClasses, \* in the shoot: type and whether it can be expanded
  wasDown      \* history: the kube-apiserver was down in this run until then

shootVars        == <<mode, networking, policies, rotation>>
stepVars         == <<step, found, scaledDown>>
deployedVars     == <<serverSecrets, charts, ccm, csi, storageClasses>>
controlPlaneVars == <<shootVars, apiserver, controlplane, due, stepVars, deployedVars, wasDown>>

NotRunning ==
  step' = "idle" /\ found' = NotDeployed /\ scaledDown' = FALSE /\ wasDown' = FALSE

(* A volume class that is not always there is made some time later. *)
AtFirst(class) ==
  IF "missing" \in MayBe[class] THEN "missing" ELSE CHOOSE p \in MayBe[class] : TRUE

ControlPlaneInit ==
  /\ mode = "awake" /\ networking = "none" /\ rotation = 0
  /\ policies = [class \in StorageClasses |-> AtFirst(class)]
  /\ apiserver = FALSE /\ controlplane = "absent" /\ due = FALSE
  /\ step = "idle" /\ found = NotDeployed /\ scaledDown = FALSE
  /\ serverSecrets = {} /\ charts = {} /\ ccm = NotDeployed /\ csi = NotDeployed
  /\ storageClasses = NotDeployed
  /\ wasDown = FALSE

-----------------------------------------------------------------------------
(* Users, operators and Gardener.  After a change of the shoot its control *)
(* plane is due; after others it is when the shoot is reconciled next.     *)
(* Gardener wakes a shoot up before it deletes it.  Two changes of a shoot *)
(* at once are two updates with no step in between.                        *)
Others == UNCHANGED <<controlplane, stepVars, deployedVars>>

UpdateShoot(m, n) ==
  /\ (m = mode) # (n = networking)
  /\ mode' = m /\ networking' = n
  /\ due'  = (controlplane = "present" \/ due)
  /\ UNCHANGED <<policies, rotation, apiserver, wasDown>> /\ Others

UpdateVolumeClass(class, policy) ==
  /\ policy \in MayBe[class] /\ policy # policies[class]
  /\ policies' = [policies EXCEPT ![class] = policy]
  /\ UNCHANGED <<mode, networking, rotation, apiserver, due, wasDown>> /\ Others

RotateCA ==
  /\ rotation < MaxRotations
  /\ rotation' = rotation + 1
  /\ due'      = (controlplane = "present" \/ due)
  /\ UNCHANGED <<mode, networking, policies, apiserver, wasDown>> /\ Others

ScaleAPIServer ==
  /\ apiserver' = ~apiserver
  /\ wasDown'   = (step \in {"secrets", "config", "hibernation", "charts"} /\ (wasDown \/ apiserver))
  /\ UNCHANGED <<shootVars, due>> /\ Others

DeployControlPlane ==
  /\ controlplane = "absent"
  /\ controlplane' = "present" /\ due' = TRUE
  /\ UNCHANGED <<shootVars, apiserver, stepVars, deployedVars, wasDown>>

DestroyControlPlane ==
  /\ controlplane = "present" /\ mode = "awake"
  /\ controlplane' = "deleting" /\ due' = TRUE
  /\ UNCHANGED <<shootVars, apiserver, stepVars, deployedVars, wasDown>>

-----------------------------------------------------------------------------
Run == UNCHANGED <<shootVars, apiserver, controlplane>>

BeginReconcile ==
  /\ step = "idle" /\ due /\ controlplane = "present"
  /\ due'     = FALSE
  /\ step'    = "secrets"
  /\ found'   = [mode |-> mode, networking |-> networking, rotation |-> rotation]
  /\ wasDown' = ~apiserver
  /\ UNCHANGED <<scaledDown, deployedVars>> /\ Run

(* A call fails before or after it took effect, or the controller restarts. *)
FailReconcile ==
  /\ step # "idle"
  /\ due' = TRUE
  /\ NotRunning
  /\ UNCHANGED deployedVars /\ Run

(* secretConfigsFunc: with another CA the server secret has another name.  *)
GenerateAllSecrets ==
  /\ step = "secrets"
  /\ serverSecrets' = serverSecrets \cup {found.rotation}
  /\ step' = "config"
  /\ UNCHANGED <<due, found, scaledDown, charts, ccm, csi, storageClasses, wasDown>> /\ Run

(* It holds the names of network, prefix and cluster, which stay the same. *)
ApplyConfigChart ==
  /\ step = "config"
  /\ charts' = charts \cup {"config"}
  /\ step'   = "hibernation"
  /\ UNCHANGED <<due, found, scaledDown, serverSecrets, ccm, csi, storageClasses, wasDown>> /\ Run

CheckHibernation_Bug ==
  /\ step = "hibernation"
  /\ scaledDown' = (found.mode = "hibernated" /\ ~apiserver)
  /\ step'       = "charts"
  /\ UNCHANGED <<due, found, deployedVars, wasDown>> /\ Run

(* With hibernation enabled another run is due until one finds the         *)
(* kube-apiserver scaled down.                                             *)
CheckHibernation ==
  /\ step = "hibernation"
  /\ scaledDown' = (found.mode = "hibernated" /\ ~apiserver)
  /\ due'        = (due \/ (found.mode = "hibernated" /\ apiserver))
  /\ step'       = "charts"
  /\ UNCHANGED <<found, deployedVars, wasDown>> /\ Run

isOverlayEnabled_Bug(config) == config # "disabled"

(* With overlay networking the cloud needs no routes.  No configuration at *)
(* all counts as overlay, one that does not mention it does not.           *)
isOverlayEnabled(config) == config \in {"none", "enabled"}

GetControlPlaneReplicas(m, down) == IF m = "hibernated" /\ down THEN 0 ELSE 1

getCCMChartValues_Bug(seen, down) ==
  [replicas |-> GetControlPlaneReplicas(seen.mode, down),
   configureCloudRoutes |-> ~isOverlayEnabled(seen.networking),
   server |-> IF ccm = NotDeployed THEN seen.rotation ELSE ccm.server]

(* secretsReader gives the server secret of this run. *)
getCCMChartValues(seen, down) ==
  [replicas |-> GetControlPlaneReplicas(seen.mode, down),
   configureCloudRoutes |-> ~isOverlayEnabled(seen.networking),
   server |-> seen.rotation]

getCSIControllerChartValues_Bug(seen, down) ==
  [replicas |-> GetControlPlaneReplicas(seen.mode, TRUE)]

getCSIControllerChartValues(seen, down) ==
  [replicas |-> GetControlPlaneReplicas(seen.mode, down)]

(* The chart is applied object by object. *)
ApplyCCM ==
  /\ step = "charts"
  /\ ccm # getCCMChartValues(found, scaledDown)
  /\ ccm' = getCCMChartValues(found, scaledDown)
  /\ UNCHANGED <<due, stepVars, serverSecrets, charts, csi, storageClasses, wasDown>> /\ Run

ApplyCSI ==
  /\ step = "charts"
  /\ csi # getCSIControllerChartValues(found, scaledDown)
  /\ csi' = getCSIControllerChartValues(found, scaledDown)
  /\ UNCHANGED <<due, stepVars, serverSecrets, charts, ccm, storageClasses, wasDown>> /\ Run

ChartsApplied ==
  /\ step = "charts"
  /\ ccm = getCCMChartValues(found, scaledDown)
  /\ csi = getCSIControllerChartValues(found, scaledDown)
  /\ step'  = "shoot" /\ scaledDown' = FALSE /\ wasDown' = FALSE
  /\ UNCHANGED <<due, found, deployedVars>> /\ Run

(* getControlPlaneShootChartValues gives the same for every shoot.         *)
ApplyShootChart ==
  /\ step = "shoot"
  /\ charts' = charts \cup {"shoot"}
  /\ step'   = "storage"
  /\ UNCHANGED <<due, found, scaledDown, serverSecrets, ccm, csi, storageClasses, wasDown>> /\ Run

isVolumeClassExpandable(class) == policies[class] = "ExpandOnly"

(* One volume class that is not found fails the run. *)
VolumeClassesFound == \A class \in StorageClasses : policies[class] # "missing"

GetStorageClassesChartValues ==
  {[type |-> class, expandable |-> isVolumeClassExpandable(class)] : class \in StorageClasses}

ApplyStorageClasses ==
  /\ step = "storage"
  /\ VolumeClassesFound
  /\ storageClasses' = GetStorageClassesChartValues
  /\ step' = "cleanup"
  /\ UNCHANGED <<due, found, scaledDown, serverSecrets, charts, ccm, csi, wasDown>> /\ Run

VolumeClassNotFound ==
  /\ step = "storage"
  /\ ~VolumeClassesFound
  /\ due' = TRUE
  /\ NotRunning
  /\ UNCHANGED deployedVars /\ Run

(* The secrets manager removes what this run has not generated. *)
CleanupSecrets ==
  /\ step = "cleanup"
  /\ serverSecrets' = {found.rotation}
  /\ NotRunning
  /\ UNCHANGED <<due, charts, ccm, csi, storageClasses>> /\ Run

-----------------------------------------------------------------------------
(***************************************************************************)
(* Deletion: the charts of the shoot, then that of the seed, then secrets. *)
(***************************************************************************)
BeginDelete ==
  /\ step = "idle" /\ due /\ controlplane = "deleting"
  /\ due'  = FALSE
  /\ step' = "delete shoot charts"
  /\ UNCHANGED <<found, scaledDown, deployedVars, wasDown>> /\ Run

DeleteShootCharts ==
  /\ step = "delete shoot charts"
  /\ storageClasses' = NotDeployed
  /\ charts' = charts \ {"shoot"}
  /\ step'   = "delete charts"
  /\ UNCHANGED <<due, found, scaledDown, serverSecrets, ccm, csi, wasDown>> /\ Run

DeleteControlPlaneChart ==
  /\ step = "delete charts"
  /\ \/ ccm # NotDeployed /\ ccm' = NotDeployed /\ UNCHANGED csi
     \/ csi # NotDeployed /\ csi' = NotDeployed /\ UNCHANGED ccm
  /\ UNCHANGED <<due, stepVars, serverSecrets, charts, storageClasses, wasDown>> /\ Run

DeleteConfigChart ==
  /\ step = "delete charts"
  /\ ccm = NotDeployed /\ csi = NotDeployed
  /\ charts' = charts \ {"config"}
  /\ step'   = "delete secrets"
  /\ UNCHANGED <<due, found, scaledDown, serverSecrets, ccm, csi, storageClasses, wasDown>> /\ Run

DeleteSecrets ==
  /\ step = "delete secrets"
  /\ serverSecrets' = {}
  /\ controlplane'  = "gone"
  /\ NotRunning
  /\ UNCHANGED <<shootVars, apiserver, due, charts, ccm, csi, storageClasses>>

-----------------------------------------------------------------------------
ReconcileStep ==
  \/ GenerateAllSecrets \/ ApplyConfigChart \/ CheckHibernation
  \/ ApplyCCM \/ ApplyCSI \/ ChartsApplied \/ ApplyShootChart
  \/ ApplyStorageClasses \/ VolumeClassNotFound \/ CleanupSecrets
  \/ DeleteShootCharts \/ DeleteControlPlaneChart \/ DeleteConfigChart \/ DeleteSecrets

ControlPlaneNext ==
  \/ \E m \in Modes, n \in Networkings : UpdateShoot(m, n)
  \/ \E class \in StorageClasses, policy \in {"missing", "Static", "ExpandOnly"} :
       UpdateVolumeClass(class, policy)
  \/ RotateCA \/ ScaleAPIServer
  \/ DeployControlPlane \/ DestroyControlPlane
  \/ BeginReconcile \/ BeginDelete \/ ReconcileStep \/ FailReconcile

ControlPlaneSpec == ControlPlaneInit /\ [][ControlPlaneNext]_controlPlaneVars

(***************************************************************************)
(* Fairness: a run that is due begins and goes on, and does not fail for   *)
(* ever for other reasons than a missing volume class.                     *)
(***************************************************************************)
ReconcileFails ==
  /\ step # "idle" /\ step' = "idle" /\ due'
  /\ ~(step = "storage" /\ ~VolumeClassesFound)
  /\ step = "cleanup" => serverSecrets' # {found.rotation}

ControlPlaneFairness ==
  /\ WF_controlPlaneVars(BeginReconcile \/ BeginDelete)
  /\ WF_controlPlaneVars(ReconcileStep)
  /\ <>[][~ReconcileFails]_controlPlaneVars

-----------------------------------------------------------------------------
(***************************************************************************)
(* What the cloud-controller-manager mounts exists, or none of its pods    *)
(* could start: the server secret, which no rotation, clean-up or restart  *)
(* in between takes away, and the config map.                              *)
(***************************************************************************)
MountsExist ==
  ccm # NotDeployed => ccm.server \in serverSecrets /\ "config" \in charts

(***************************************************************************)
(* Neither controller is scaled down in a run during which the API server  *)
(* they work for was up all the time.                                      *)
(***************************************************************************)
NotScaledDownUnderAPIServer ==
  [][/\ ccm' \in [replicas : {0}, configureCloudRoutes : BOOLEAN, server : Nat] /\ ccm' # ccm
        => wasDown
     /\ csi' = [replicas |-> 0] /\ csi' # csi => wasDown]_controlPlaneVars

(***************************************************************************)
(* After a run that ended well the control plane is the one the shoot asks *)
(* for, in all its parts and of the same rotation, although every part is  *)
(* made by a call of its own from what the run had found, and with a shoot *)
(* that is hibernated it is scaled down.  After a deletion nothing of it   *)
(* is left, whichever runs stopped in between.                             *)
(***************************************************************************)
Deployed(seen) ==
  /\ ccm = getCCMChartValues(seen, TRUE)
  /\ csi = getCSIControllerChartValues(seen, TRUE)

WholeStorageClasses ==
  storageClasses # NotDeployed /\ {c.type : c \in storageClasses} = StorageClasses

SettledAsAsked ==
  /\ step = "idle" /\ ~due /\ controlplane = "present" =>
       /\ Deployed([mode |-> mode, networking |-> networking, rotation |-> rotation])
       /\ serverSecrets = {rotation}
       /\ charts = {"config", "shoot"}
       /\ WholeStorageClasses
  /\ controlplane = "gone" =>
       /\ serverSecrets = {} /\ charts = {}
       /\ ccm = NotDeployed /\ csi = NotDeployed /\ storageClasses = NotDeployed

(***************************************************************************)
(* When the shoot changes no more and the gardenlet has scaled the         *)
(* kube-apiserver accordingly, both controllers come to be what it asks    *)
(* for and stay so, even while the storage classes cannot be made.         *)
(***************************************************************************)
ControlPlaneFollows ==
  <>[](controlplane = "present" /\ apiserver = (mode # "hibernated"))
    => \/ []<><<mode' # mode \/ networking' # networking>>_controlPlaneVars
       \/ <>[](/\ ccm = [replicas             |-> IF mode = "hibernated" THEN 0 ELSE 1,
                         configureCloudRoutes |-> networking \in {"disabled", "no overlay"},
                         server               |-> rotation]
               /\ csi = [replicas |-> IF mode = "hibernated" THEN 0 ELSE 1])
=============================================================================
