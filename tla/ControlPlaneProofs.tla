--------------------------- MODULE ControlPlaneProofs ---------------------------
(***************************************************************************)
(* Proofs about ControlPlane: for any number of rotations, storage classes *)
(* and networkings what the cloud-controller-manager mounts exists, and no *)
(* controller is scaled down under a running API server.  And about        *)
(* ControlPlaneEnsurer: of whatever Gardener may write, the webhook makes  *)
(* what works with an external cloud provider, changes nothing else, and   *)
(* changes nothing a second time.                                          *)
(***************************************************************************)
EXTENDS ControlPlane, ControlPlaneEnsurer, SequenceTheorems, TLAPS

Deploying == {"config", "hibernation", "charts", "shoot", "storage", "cleanup"}

(***************************************************************************)
(* A run keeps the secret of the rotation it found until it has deployed   *)
(* what mounts it, and only then removes the others; a deletion removes    *)
(* the deployment first.                                                   *)
(***************************************************************************)
MountsInv ==
  /\ MountsExist
  /\ step \in Deploying => found.rotation \in serverSecrets
  /\ step \in Deploying \ {"config"} => "config" \in charts
  /\ step \in {"shoot", "storage", "cleanup"} =>
       ccm # NotDeployed /\ ccm.server = found.rotation
  /\ step = "delete secrets" => ccm = NotDeployed

LEMMA RecordOfDeployment ==
  ASSUME NEW replicas \in {0, 1}, NEW routes \in BOOLEAN, NEW server \in Nat
  PROVE  LET deployment == [replicas |-> replicas, configureCloudRoutes |-> routes,
                            server |-> server]
         IN  /\ deployment.replicas = replicas /\ deployment.server = server
             /\ deployment \in [replicas : {0, 1}, configureCloudRoutes : BOOLEAN, server : Nat]
OBVIOUS

(* What the chart values of the cloud-controller-manager are. *)
LEMMA Applied ==
  ASSUME NEW seen, NEW down, seen.rotation \in Nat
  PROVE  /\ getCCMChartValues(seen, down).server = seen.rotation
         /\ getCCMChartValues(seen, down).replicas = GetControlPlaneReplicas(seen.mode, down)
         /\ getCCMChartValues(seen, down) # NotDeployed
<1>1. GetControlPlaneReplicas(seen.mode, down) \in {0, 1}
  BY Zenon DEF GetControlPlaneReplicas
<1>2. (~isOverlayEnabled(seen.networking)) \in BOOLEAN
  BY DEF isOverlayEnabled
<1>3. /\ getCCMChartValues(seen, down).server = seen.rotation
      /\ getCCMChartValues(seen, down).replicas = GetControlPlaneReplicas(seen.mode, down)
      /\ getCCMChartValues(seen, down)
           \in [replicas : {0, 1}, configureCloudRoutes : BOOLEAN, server : Nat]
  BY <1>1, <1>2, RecordOfDeployment, Zenon DEF getCCMChartValues
<1>4. QED
  BY <1>3, NotDeployedAssumption, Zenon

(* The beginning of a run, without its history. *)
LEMMA Begun ==
  ASSUME BeginReconcile
  PROVE  /\ step' = "secrets" /\ found'.rotation = rotation
         /\ UNCHANGED <<rotation, serverSecrets, charts, ccm, csi, storageClasses>>
<1>1. /\ found' = [mode |-> mode, networking |-> networking, rotation |-> rotation]
      /\ step' = "secrets"
      /\ UNCHANGED <<rotation, serverSecrets, charts, ccm, csi, storageClasses>>
  BY Zenon DEF BeginReconcile, Run, shootVars, deployedVars
<1>2. QED
  BY <1>1

(* The rotations a run may have found. *)
RotationsType ==
  /\ rotation \in Nat
  /\ step \in Deploying \cup {"secrets"} => found.rotation \in Nat

LEMMA RotationsNext ==
  RotationsType /\ [ControlPlaneNext]_controlPlaneVars => RotationsType'
<1> SUFFICES ASSUME RotationsType, [ControlPlaneNext]_controlPlaneVars
             PROVE  RotationsType'
  OBVIOUS
<1> USE DEF RotationsType, Deploying, Run, NotRunning, shootVars, stepVars
<1>1. CASE \/ \E m \in Modes, n \in Networkings : UpdateShoot(m, n)
           \/ \E class \in StorageClasses, policy \in {"missing", "Static", "ExpandOnly"} :
                UpdateVolumeClass(class, policy)
           \/ RotateCA \/ ScaleAPIServer \/ DeployControlPlane \/ DestroyControlPlane
  BY <1>1 DEF UpdateShoot, UpdateVolumeClass, RotateCA, ScaleAPIServer,
     DeployControlPlane, DestroyControlPlane, Others
<1>2. CASE BeginReconcile
  BY <1>2, Begun
<1>3. CASE BeginDelete \/ FailReconcile
  BY <1>3 DEF BeginDelete, FailReconcile
<1>4. CASE ReconcileStep
  BY <1>4 DEF ReconcileStep, GenerateAllSecrets, ApplyConfigChart, CheckHibernation,
     ApplyCCM, ApplyCSI, ChartsApplied, ApplyShootChart, ApplyStorageClasses,
     VolumeClassNotFound, CleanupSecrets, DeleteShootCharts, DeleteControlPlaneChart,
     DeleteConfigChart, DeleteSecrets
<1>5. CASE UNCHANGED controlPlaneVars
  BY <1>5 DEF controlPlaneVars
<1>6. QED
  BY <1>1, <1>2, <1>3, <1>4, <1>5 DEF ControlPlaneNext

LEMMA MountsNext ==
  RotationsType /\ MountsInv /\ [ControlPlaneNext]_controlPlaneVars => MountsInv'
<1> SUFFICES ASSUME RotationsType, MountsInv, [ControlPlaneNext]_controlPlaneVars
             PROVE  MountsInv'
  OBVIOUS
<1> USE DEF MountsInv, MountsExist, Deploying, Run, NotRunning, stepVars, deployedVars
<1>1. CASE \/ \E m \in Modes, n \in Networkings : UpdateShoot(m, n)
           \/ \E class \in StorageClasses, policy \in {"missing", "Static", "ExpandOnly"} :
                UpdateVolumeClass(class, policy)
           \/ RotateCA \/ ScaleAPIServer \/ DeployControlPlane \/ DestroyControlPlane
  BY <1>1 DEF UpdateShoot, UpdateVolumeClass, RotateCA, ScaleAPIServer,
     DeployControlPlane, DestroyControlPlane, Others
<1>2. CASE BeginReconcile
  BY <1>2, Begun
<1>3. CASE BeginDelete \/ FailReconcile
  BY <1>3 DEF BeginDelete, FailReconcile
<1>4. CASE GenerateAllSecrets \/ ApplyConfigChart \/ CheckHibernation
  BY <1>4 DEF GenerateAllSecrets, ApplyConfigChart, CheckHibernation
<1>5. CASE ApplyCCM
  <2>1. ccm'.server = found.rotation
    BY <1>5, Applied DEF ApplyCCM, RotationsType
  <2>2. QED
    BY <1>5, <2>1 DEF ApplyCCM
<1>6. CASE ApplyCSI \/ ApplyShootChart
  BY <1>6 DEF ApplyCSI, ApplyShootChart
<1>7. CASE ChartsApplied
  <2>1. ccm # NotDeployed /\ ccm.server = found.rotation
    BY <1>7, Applied DEF ChartsApplied, RotationsType
  <2>2. QED
    BY <1>7, <2>1 DEF ChartsApplied
<1>8. CASE ApplyStorageClasses \/ VolumeClassNotFound
  BY <1>8 DEF ApplyStorageClasses, VolumeClassNotFound
<1>9. CASE CleanupSecrets
  BY <1>9 DEF CleanupSecrets
<1>10. CASE DeleteShootCharts \/ DeleteControlPlaneChart \/ DeleteConfigChart \/ DeleteSecrets
  BY <1>10 DEF DeleteShootCharts, DeleteControlPlaneChart, DeleteConfigChart, DeleteSecrets
<1>11. CASE UNCHANGED controlPlaneVars
  BY <1>11 DEF controlPlaneVars
<1>12. QED
  BY <1>1, <1>2, <1>3, <1>4, <1>5, <1>6, <1>7, <1>8, <1>9, <1>10, <1>11
  DEF ControlPlaneNext, ReconcileStep

(* The server secret and the config map the cloud-controller-manager       *)
(* mounts exist as long as it is deployed.                                 *)
THEOREM MountsStay == ControlPlaneSpec => []MountsExist
<1>1. ControlPlaneInit => RotationsType /\ MountsInv
  BY DEF ControlPlaneInit, RotationsType, MountsInv, MountsExist, Deploying
<1>2. MountsInv => MountsExist
  BY DEF MountsInv
<1>3. QED
  BY <1>1, <1>2, RotationsNext, MountsNext, PTL DEF ControlPlaneSpec

-----------------------------------------------------------------------------
(***************************************************************************)
(* While a run has not passed the charts, wasDown says at least that the   *)
(* kube-apiserver is down now, and that the run has found it so.           *)
(***************************************************************************)
Watched == {"secrets", "config", "hibernation", "charts"}

Flags == apiserver \in BOOLEAN /\ wasDown \in BOOLEAN /\ scaledDown \in BOOLEAN

WatchInv ==
  /\ step \in Watched => apiserver \/ wasDown
  /\ scaledDown => step \in Watched /\ wasDown

LEMMA FlagsNext == Flags /\ [ControlPlaneNext]_controlPlaneVars => Flags'
BY Zenon DEF Flags, ControlPlaneNext, ReconcileStep, UpdateShoot, UpdateVolumeClass,
   RotateCA, ScaleAPIServer, DeployControlPlane, DestroyControlPlane, Others,
   BeginReconcile, BeginDelete, FailReconcile, GenerateAllSecrets, ApplyConfigChart,
   CheckHibernation, ApplyCCM, ApplyCSI, ChartsApplied, ApplyShootChart,
   ApplyStorageClasses, VolumeClassNotFound, CleanupSecrets, DeleteShootCharts,
   DeleteControlPlaneChart, DeleteConfigChart, DeleteSecrets, Run, NotRunning,
   stepVars, shootVars, controlPlaneVars

LEMMA WatchNext ==
  Flags /\ WatchInv /\ [ControlPlaneNext]_controlPlaneVars => WatchInv'
<1> SUFFICES ASSUME Flags, WatchInv, [ControlPlaneNext]_controlPlaneVars PROVE WatchInv'
  OBVIOUS
<1> USE DEF WatchInv, Watched, Run, NotRunning, stepVars
<1>0. ASSUME step \notin Watched, step' \notin Watched,
             scaledDown' = scaledDown \/ scaledDown' = FALSE
      PROVE  WatchInv'
  <2>1. ~scaledDown
    BY <1>0, Zenon
  <2>2. ~scaledDown'
    BY <1>0, <2>1, Zenon DEF Flags
  <2> HIDE DEF Watched
  <2>3. QED
    BY <1>0, <2>2, Zenon
<1>1. CASE \/ \E m \in Modes, n \in Networkings : UpdateShoot(m, n)
           \/ \E class \in StorageClasses, policy \in {"missing", "Static", "ExpandOnly"} :
                UpdateVolumeClass(class, policy)
           \/ RotateCA \/ DeployControlPlane \/ DestroyControlPlane
  BY <1>1 DEF UpdateShoot, UpdateVolumeClass, RotateCA,
     DeployControlPlane, DestroyControlPlane, Others, Flags
<1>2. CASE ScaleAPIServer
  BY <1>2 DEF ScaleAPIServer, Others, Flags
<1>3. CASE BeginReconcile \/ BeginDelete \/ FailReconcile
  <2>1. CASE BeginReconcile
    <3>1. step \notin Watched
      <4>1. step = "idle"
        BY <2>1, Zenon DEF BeginReconcile
      <4>2. QED
        BY <4>1
    <3>2. scaledDown' = scaledDown /\ wasDown' = ~apiserver /\ apiserver' = apiserver
      BY <2>1, Zenon DEF BeginReconcile
    <3>3. QED
      BY <3>1, <3>2, Zenon DEF Flags
  <2>2. CASE BeginDelete
    <3>1. step \notin Watched /\ step' \notin Watched
      BY <2>2 DEF BeginDelete
    <3>2. QED
      BY <2>2, <3>1, <1>0, Zenon DEF BeginDelete
  <2>3. CASE FailReconcile
    <3>1. step' \notin Watched
      BY <2>3 DEF FailReconcile
    <3>2. QED
      BY <2>3, <3>1, Zenon DEF FailReconcile
  <2>4. QED
    BY <1>3, <2>1, <2>2, <2>3
<1>4. CASE GenerateAllSecrets \/ ApplyConfigChart
  BY <1>4 DEF GenerateAllSecrets, ApplyConfigChart, Flags
<1>5. CASE CheckHibernation
  BY <1>5 DEF CheckHibernation, Flags
<1>6. CASE ApplyCCM \/ ApplyCSI \/ ChartsApplied
  BY <1>6 DEF ApplyCCM, ApplyCSI, ChartsApplied, Flags
<1>7. CASE ApplyShootChart \/ ApplyStorageClasses \/ VolumeClassNotFound \/ CleanupSecrets
  BY <1>7 DEF ApplyShootChart, ApplyStorageClasses, VolumeClassNotFound, CleanupSecrets, Flags
<1>8. CASE DeleteShootCharts \/ DeleteControlPlaneChart \/ DeleteConfigChart \/ DeleteSecrets
  <2>1. step \notin Watched /\ step' \notin Watched
    BY <1>8 DEF DeleteShootCharts, DeleteControlPlaneChart, DeleteConfigChart, DeleteSecrets
  <2>2. scaledDown' = scaledDown \/ scaledDown' = FALSE
    BY <1>8, Zenon
    DEF DeleteShootCharts, DeleteControlPlaneChart, DeleteConfigChart, DeleteSecrets
  <2>3. QED
    BY <2>1, <2>2, <1>0
<1>9. CASE UNCHANGED controlPlaneVars
  BY <1>9, Zenon DEF controlPlaneVars
<1>10. QED
  BY <1>1, <1>2, <1>3, <1>4, <1>5, <1>6, <1>7, <1>8, <1>9
  DEF ControlPlaneNext, ReconcileStep

Down == [replicas : {0}, configureCloudRoutes : BOOLEAN, server : Nat]

LEMMA ScaledDownWhenDown ==
  ASSUME RotationsType, WatchInv, [ControlPlaneNext]_controlPlaneVars
  PROVE  /\ ccm' \in Down /\ ccm' # ccm => wasDown
         /\ csi' = [replicas |-> 0] /\ csi' # csi => wasDown
<1>1. CASE ApplyCCM
  <2>1. ASSUME ccm' \in Down PROVE scaledDown
    <3>1. ccm'.replicas = GetControlPlaneReplicas(found.mode, scaledDown)
      BY <1>1, Applied DEF ApplyCCM, RotationsType, Deploying
    <3>2. ccm'.replicas = 0
      BY <2>1 DEF Down
    <3>3. QED
      BY <3>1, <3>2 DEF GetControlPlaneReplicas
  <2>2. QED
    BY <1>1, <2>1 DEF ApplyCCM, WatchInv, Watched
<1>2. CASE ApplyCSI
  <2>1. ASSUME csi' = [replicas |-> 0] PROVE scaledDown
    BY <1>2, <2>1 DEF ApplyCSI, getCSIControllerChartValues, GetControlPlaneReplicas
  <2>2. QED
    BY <1>2, <2>1 DEF ApplyCSI, WatchInv, Watched
<1>3. CASE DeleteControlPlaneChart
  BY <1>3, NotDeployedAssumption DEF DeleteControlPlaneChart, Down
<1>4. CASE UNCHANGED <<ccm, csi>>
  BY <1>4
<1>5. \/ ApplyCCM \/ ApplyCSI \/ DeleteControlPlaneChart
      \/ UNCHANGED <<ccm, csi>>
  <2> USE DEF Others, deployedVars
  <2>1. CASE \/ \E m \in Modes, n \in Networkings : UpdateShoot(m, n)
             \/ \E class \in StorageClasses, policy \in {"missing", "Static", "ExpandOnly"} :
                  UpdateVolumeClass(class, policy)
             \/ RotateCA \/ ScaleAPIServer \/ DeployControlPlane \/ DestroyControlPlane
    BY <2>1 DEF UpdateShoot, UpdateVolumeClass, RotateCA, ScaleAPIServer,
       DeployControlPlane, DestroyControlPlane
  <2>2. CASE BeginReconcile \/ BeginDelete \/ FailReconcile
    BY <2>2 DEF BeginReconcile, BeginDelete, FailReconcile
  <2>3. CASE ReconcileStep
    BY <2>3 DEF ReconcileStep, GenerateAllSecrets, ApplyConfigChart, CheckHibernation,
       ChartsApplied, ApplyShootChart, ApplyStorageClasses,
       VolumeClassNotFound, CleanupSecrets, DeleteShootCharts, DeleteConfigChart,
       DeleteSecrets
  <2>4. CASE UNCHANGED controlPlaneVars
    BY <2>4 DEF controlPlaneVars
  <2>5. QED
    BY <2>1, <2>2, <2>3, <2>4 DEF ControlPlaneNext
<1>6. QED
  BY <1>1, <1>2, <1>3, <1>4, <1>5

(* Neither controller is scaled down in a run during which the             *)
(* kube-apiserver was up all the time.                                     *)
THEOREM UpWithAPIServer == ControlPlaneSpec => NotScaledDownUnderAPIServer
<1>1. ControlPlaneInit => RotationsType /\ Flags /\ WatchInv
  <2>1. ControlPlaneInit => RotationsType /\ step \notin Watched
    BY DEF ControlPlaneInit, RotationsType, Watched, Deploying
  <2>2. ControlPlaneInit => Flags /\ ~scaledDown
    BY Zenon DEF ControlPlaneInit, Flags
  <2>3. QED
    BY <2>1, <2>2, Zenon DEF WatchInv
<1>2. RotationsType /\ WatchInv /\ [ControlPlaneNext]_controlPlaneVars
        => [/\ ccm' \in Down /\ ccm' # ccm => wasDown
            /\ csi' = [replicas |-> 0] /\ csi' # csi => wasDown]_controlPlaneVars
  BY ScaledDownWhenDown
<1>3. QED
  BY <1>1, <1>2, RotationsNext, FlagsNext, WatchNext, PTL DEF ControlPlaneSpec, NotScaledDownUnderAPIServer, Down

-----------------------------------------------------------------------------
(***************************************************************************)
(* What a run has put in place or taken away, step by step.                *)
(***************************************************************************)
Reconciling == {"secrets"} \cup Deploying
Deleting    == {"delete shoot charts", "delete charts", "delete secrets"}

(* As long as nothing is due the run has found the shoot as it is now. *)
FoundIsCurrent ==
  step \in Reconciling /\ ~due =>
    /\ controlplane = "present"
    /\ found = [mode |-> mode, networking |-> networking, rotation |-> rotation]

(* What a reconciliation has put in place for the shoot it has found. *)
InPlace ==
  /\ charts \subseteq {"config", "shoot"}
  /\ step \in Deploying \ {"config"} => "config" \in charts
  /\ step = "charts" /\ ~due /\ found.mode = "hibernated" => scaledDown
  /\ step \in {"shoot", "storage", "cleanup"} /\ ~due => Deployed(found)
  /\ step \in {"storage", "cleanup"} => "shoot" \in charts
  /\ step = "cleanup" => WholeStorageClasses

(* What a deletion has taken away; it goes on neither beside a *)
(* reconciliation nor after its end.                           *)
TakenAway ==
  /\ step \in Deleting => controlplane = "deleting"
  /\ controlplane = "gone" => step = "idle"
  /\ step \in {"delete charts", "delete secrets"} =>
       storageClasses = NotDeployed /\ charts \subseteq {"config"}
  /\ step = "delete secrets" => ccm = NotDeployed /\ csi = NotDeployed /\ charts = {}

AskedInv == SettledAsAsked /\ FoundIsCurrent /\ InPlace /\ TakenAway

(* What is deployed when a hibernated shoot was found scaled down. *)
LEMMA DeployedAsAsked ==
  ASSUME NEW seen, NEW down, seen.mode = "hibernated" => down
  PROVE  /\ getCCMChartValues(seen, down) = getCCMChartValues(seen, TRUE)
         /\ getCSIControllerChartValues(seen, down) = getCSIControllerChartValues(seen, TRUE)
<1>1. GetControlPlaneReplicas(seen.mode, down) = GetControlPlaneReplicas(seen.mode, TRUE)
  BY Zenon DEF GetControlPlaneReplicas
<1>2. QED
  BY <1>1, Zenon DEF getCCMChartValues, getCSIControllerChartValues

LEMMA Hibernation ==
  ASSUME CheckHibernation
  PROVE  /\ ~due' => ~due
         /\ ~due' /\ found.mode = "hibernated" => scaledDown'
BY Zenon DEF CheckHibernation

LEMMA WholeClasses ==
  ASSUME ApplyStorageClasses
  PROVE  WholeStorageClasses'
<1> DEFINE Entry(class) == [type |-> class, expandable |-> isVolumeClassExpandable(class)]
<1>1. storageClasses' = {Entry(class) : class \in StorageClasses}
  BY DEF ApplyStorageClasses, GetStorageClassesChartValues
<1>2. \A class \in StorageClasses :
        Entry(class) \in [type : StorageClasses, expandable : BOOLEAN] /\ Entry(class).type = class
  BY DEF isVolumeClassExpandable
<1> HIDE DEF Entry
<1>3. {c.type : c \in storageClasses'} = StorageClasses
  BY <1>1, <1>2
<1>4. storageClasses' \in SUBSET [type : StorageClasses, expandable : BOOLEAN]
  BY <1>1, <1>2
<1>5. QED
  BY <1>3, <1>4, NotDeployedAssumption DEF WholeStorageClasses

LEMMA AskedNext ==
  AskedInv /\ [ControlPlaneNext]_controlPlaneVars => AskedInv'
<1> SUFFICES ASSUME AskedInv, [ControlPlaneNext]_controlPlaneVars PROVE AskedInv'
  OBVIOUS
<1> USE DEF AskedInv, SettledAsAsked, FoundIsCurrent, InPlace, TakenAway,
            Deploying, Reconciling, Deleting, Run, NotRunning, shootVars, stepVars, deployedVars
<1>1. CASE \E m \in Modes, n \in Networkings : UpdateShoot(m, n)
  BY <1>1 DEF UpdateShoot, Others, Deployed, WholeStorageClasses
<1>2. CASE RotateCA
  BY <1>2 DEF RotateCA, Others, Deployed, WholeStorageClasses
<1>3. CASE \/ \E class \in StorageClasses, policy \in {"missing", "Static", "ExpandOnly"} :
                UpdateVolumeClass(class, policy)
           \/ ScaleAPIServer
  BY <1>3 DEF UpdateVolumeClass, ScaleAPIServer, Others, Deployed, WholeStorageClasses
<1>4. CASE DeployControlPlane \/ DestroyControlPlane
  BY <1>4 DEF DeployControlPlane, DestroyControlPlane, Deployed, WholeStorageClasses
<1>5. CASE BeginReconcile
  BY <1>5 DEF BeginReconcile
<1>6. CASE BeginDelete \/ FailReconcile
  BY <1>6 DEF BeginDelete, FailReconcile
<1>7. CASE GenerateAllSecrets \/ ApplyConfigChart
  BY <1>7 DEF GenerateAllSecrets, ApplyConfigChart
<1>8. CASE CheckHibernation
  BY <1>8, Hibernation DEF CheckHibernation
<1>9. CASE ApplyCCM \/ ApplyCSI
  BY <1>9 DEF ApplyCCM, ApplyCSI
<1>10. CASE ChartsApplied
  <2>1. ~due => Deployed(found)
    <3>1. ~due /\ found.mode = "hibernated" => scaledDown
      BY <1>10 DEF ChartsApplied
    <3>2. /\ ccm = getCCMChartValues(found, scaledDown)
          /\ csi = getCSIControllerChartValues(found, scaledDown)
      BY <1>10, Zenon DEF ChartsApplied
    <3>3. QED
      BY <3>1, <3>2, DeployedAsAsked, Zenon DEF Deployed
  <2>2. QED
    BY <1>10, <2>1 DEF ChartsApplied, Deployed
<1>11. CASE ApplyShootChart
  BY <1>11 DEF ApplyShootChart, Deployed
<1>12. CASE ApplyStorageClasses
  BY <1>12, WholeClasses DEF ApplyStorageClasses, Deployed
<1>13. CASE VolumeClassNotFound
  BY <1>13 DEF VolumeClassNotFound
<1>14. CASE CleanupSecrets
  <2>1. /\ step = "cleanup" /\ step' = "idle" /\ serverSecrets' = {found.rotation}
        /\ UNCHANGED <<due, charts, ccm, csi, storageClasses, mode, networking, rotation, controlplane>>
    BY <1>14 DEF CleanupSecrets
  <2>2. charts = {"config", "shoot"} /\ WholeStorageClasses'
    BY <2>1 DEF WholeStorageClasses
  <2>3. ASSUME ~due
        PROVE  /\ Deployed([mode |-> mode, networking |-> networking, rotation |-> rotation])'
               /\ serverSecrets' = {rotation'}
    <3>1. /\ Deployed(found)
          /\ found = [mode |-> mode, networking |-> networking, rotation |-> rotation]
      BY <2>1, <2>3
    <3>2. found.rotation = rotation
      BY <3>1
    <3>3. Deployed([mode |-> mode, networking |-> networking, rotation |-> rotation])
      BY <3>1, Zenon
    <3>4. QED
      BY <2>1, <3>2, <3>3 DEF Deployed
  <2>4. SettledAsAsked'
    BY <2>1, <2>2, <2>3
  <2>5. QED
    BY <2>1, <2>2, <2>4
<1>15. CASE DeleteShootCharts
  BY <1>15 DEF DeleteShootCharts
<1>16. CASE DeleteControlPlaneChart \/ DeleteConfigChart
  BY <1>16 DEF DeleteControlPlaneChart, DeleteConfigChart
<1>17. CASE DeleteSecrets
  BY <1>17 DEF DeleteSecrets
<1>18. CASE UNCHANGED controlPlaneVars
  BY <1>18 DEF controlPlaneVars, Deployed, WholeStorageClasses
<1>19. QED
  BY <1>1, <1>2, <1>3, <1>4, <1>5, <1>6, <1>7, <1>8, <1>9, <1>10, <1>11, <1>12, <1>13, <1>14,
     <1>15, <1>16, <1>17, <1>18 DEF ControlPlaneNext, ReconcileStep

(* A control plane that is settled is the one the shoot asks for, and one  *)
(* that is gone has left nothing.                                          *)
THEOREM SettlesAsAsked == ControlPlaneSpec => []SettledAsAsked
<1>1. ControlPlaneInit => AskedInv
  BY DEF ControlPlaneInit, AskedInv, SettledAsAsked, FoundIsCurrent, InPlace, TakenAway,
     Deploying, Reconciling, Deleting
<1>2. AskedInv => SettledAsAsked
  BY DEF AskedInv
<1>3. QED
  BY <1>1, <1>2, AskedNext, PTL DEF ControlPlaneSpec

-----------------------------------------------------------------------------
(* A sequence is one of its own items.                                     *)
LEMMA OwnItems ==
  ASSUME NEW T, NEW items \in Seq(T)
  PROVE  items \in Seq(ToSet(items))
<1>1. items \in [1..Len(items) -> T] /\ DOMAIN items = 1..Len(items) /\ Len(items) \in Nat
  OBVIOUS
<1>2. items \in [1..Len(items) -> ToSet(items)]
  BY <1>1 DEF ToSet
<1>3. QED
  BY <1>1, <1>2

(* The index of a name that comes once at most is where it is.             *)
LEMMA IndexOf ==
  ASSUME NEW items, NEW names, NEW name \in names, Unique(items, names)
  PROVE  /\ Index(items, name) = 0 <=> Lacks(items, name)
         /\ \A i \in DOMAIN items : items[i].name = name => Index(items, name) = i
<1> DEFINE at == {i \in 1..Len(items) : items[i].name = name}
<1>1. DOMAIN items = 1..Len(items) /\ Len(items) \in Nat
  BY DEF Unique
<1>2. Index(items, name) = IF at # {} THEN Min(at) ELSE 0
  BY DEF Index, SelectInSeq
<1>3. ASSUME NEW i \in at
      PROVE  Index(items, name) = i
  <2>1. at = {i} /\ i \in Nat
    BY <1>1, <1>3 DEF Unique
  <2>2. Min({i}) = i
    BY <2>1 DEF Min
  <2>3. QED
    BY <1>2, <2>1, <2>2
<1>4. QED
  BY <1>1, <1>2, <1>3 DEF Lacks

-----------------------------------------------------------------------------
(* EnsureItem, where the item is as it should be, changes nothing.         *)
LEMMA EnsureItemStable ==
  ASSUME NEW items, NEW names, Unique(items, names),
         NEW i \in DOMAIN items, items[i].name \in names
  PROVE  EnsureItem(items, items[i]) = items
<1>1. Index(items, items[i].name) = i /\ i # 0
  BY IndexOf DEF Unique
<1>2. ReplaceAt(items, i, items[i]) = items
  BY DEF ReplaceAt, Unique
<1>3. QED
  BY <1>1, <1>2 DEF EnsureItem

(* The two ways EnsureItem puts an item into a list.                       *)
LEMMA EnsureItemCases ==
  ASSUME NEW items, NEW names, Unique(items, names), NEW item, item.name \in names
  PROVE  \/ Lacks(items, item.name) /\ EnsureItem(items, item) = Append(items, item)
         \/ \E i \in DOMAIN items :
              items[i].name = item.name /\ EnsureItem(items, item) = [items EXCEPT ![i] = item]
<1>1. CASE Lacks(items, item.name)
  BY <1>1, IndexOf DEF EnsureItem
<1>2. CASE ~Lacks(items, item.name)
  <2>1. PICK i \in DOMAIN items : items[i].name = item.name
    BY <1>2 DEF Lacks
  <2>2. Index(items, item.name) = i /\ Index(items, item.name) # 0
    BY <1>2, <2>1, IndexOf
  <2>3. QED
    BY <2>1, <2>2 DEF EnsureItem, ReplaceAt
<1>3. QED
  BY <1>1, <1>2

(* The places of what is not touched, when no place changes.               *)
LEMMA SamePlaces ==
  ASSUME NEW before, NEW after, NEW places \in SUBSET Nat,
         \A p \in places : after[p] = before[p]
  PROVE  SameItems(before, places, after, places)
<1> DEFINE from == [p \in places |-> p]
<1>1. from \in [places -> places] /\ \A p \in places : from[p] = p
  OBVIOUS
<1>2. QED
  BY <1>1 DEF SameItems

(* EnsureItem: the list has the item then, and the others as before.       *)
LEMMA EnsureItemEnsures ==
  ASSUME NEW items, NEW names, Unique(items, names), NEW item, item.name \in names
  PROVE  /\ Unique(EnsureItem(items, item), names)
         /\ \E i \in DOMAIN EnsureItem(items, item) : EnsureItem(items, item)[i] = item
         /\ Kept(items, EnsureItem(items, item), {item.name})
<1> DEFINE result == EnsureItem(items, item)
           T == ToSet(items) \cup {item}
<1>1. items \in Seq(T) /\ Len(items) \in Nat /\ DOMAIN items = 1..Len(items)
  <2>1. items \in Seq(ToSet(items))
    BY DEF Unique
  <2>2. QED
    BY <2>1
<1>2. CASE Lacks(items, item.name) /\ result = Append(items, item)
  <2>1. /\ result \in Seq(T) /\ Len(result) = Len(items) + 1
        /\ DOMAIN result = 1..(Len(items) + 1)
        /\ result[Len(items) + 1] = item
        /\ \A i \in DOMAIN items : result[i] = items[i]
    BY <1>1, <1>2
  <2>2. Unique(result, names)
    <3>1. result \in Seq(ToSet(result))
      BY <2>1, OwnItems
    <3>2. ASSUME NEW j \in DOMAIN result, NEW k \in DOMAIN result,
                 result[j].name = result[k].name, result[j].name \in names
          PROVE  j = k
      BY <1>1, <1>2, <2>1, <3>2 DEF Unique, Lacks
    <3>3. QED
      BY <3>1, <3>2 DEF Unique
  <2>3. OfOtherNames(result, {item.name}) = OfOtherNames(items, {item.name})
    BY <1>1, <2>1 DEF OfOtherNames
  <2>4. Kept(items, result, {item.name})
    <3> DEFINE places == OfOtherNames(items, {item.name})
    <3>1. places \in SUBSET Nat /\ \A p \in places : result[p] = items[p]
      BY <1>1, <2>1 DEF OfOtherNames
    <3>2. SameItems(items, places, result, places)
      BY <3>1, SamePlaces
    <3>3. QED
      BY <2>3, <3>2 DEF Kept
  <2>5. QED
    BY <1>1, <2>1, <2>2, <2>4
<1>3. ASSUME NEW i \in DOMAIN items, items[i].name = item.name,
             result = [items EXCEPT ![i] = item]
      PROVE  /\ Unique(result, names)
             /\ \E j \in DOMAIN result : result[j] = item
             /\ Kept(items, result, {item.name})
  <2>1. /\ result \in Seq(T) /\ Len(result) = Len(items)
        /\ DOMAIN result = DOMAIN items /\ result[i] = item
        /\ \A j \in DOMAIN items : j # i => result[j] = items[j]
    BY <1>1, <1>3
  <2>2. Unique(result, names)
    <3>1. result \in Seq(ToSet(result))
      BY <2>1, OwnItems
    <3>2. ASSUME NEW j \in DOMAIN result, NEW k \in DOMAIN result,
                 result[j].name = result[k].name, result[j].name \in names
          PROVE  j = k
      BY <1>1, <1>3, <2>1, <3>2 DEF Unique, Lacks
    <3>3. QED
      BY <3>1, <3>2 DEF Unique
  <2>3. OfOtherNames(result, {item.name}) = OfOtherNames(items, {item.name})
    BY <1>1, <1>3, <2>1 DEF OfOtherNames
  <2>4. Kept(items, result, {item.name})
    <3> DEFINE places == OfOtherNames(items, {item.name})
    <3>1. places \in SUBSET Nat /\ \A p \in places : result[p] = items[p]
      BY <1>1, <1>3, <2>1 DEF OfOtherNames
    <3>2. SameItems(items, places, result, places)
      BY <3>1, SamePlaces
    <3>3. QED
      BY <2>3, <3>2 DEF Kept
  <2>5. QED
    BY <1>1, <2>1, <2>2, <2>4
<1>4. QED
  BY <1>2, <1>3, EnsureItemCases

(* EnsureNoItem, where there is no such item, changes nothing.             *)
LEMMA EnsureNoItemStable ==
  ASSUME NEW items, NEW names, Unique(items, names), NEW name \in names, Lacks(items, name)
  PROVE  EnsureNoItem(items, name) = items
BY IndexOf DEF EnsureNoItem

(* What is left when an item is taken out of a list.                       *)
LEMMA Removed ==
  ASSUME NEW T, NEW items \in Seq(T), NEW k \in 1..Len(items)
  PROVE  /\ RemoveAt(items, k) \in Seq(T)
         /\ Len(RemoveAt(items, k)) = Len(items) - 1
         /\ \A i \in 1..(Len(items) - 1) :
              RemoveAt(items, k)[i] = IF i < k THEN items[i] ELSE items[i + 1]
<1> DEFINE front == SubSeq(items, 1, k - 1)
           back  == SubSeq(items, k + 1, Len(items))
<1>1. front \in Seq(T) /\ Len(front) = k - 1 /\ \A i \in 1..(k - 1) : front[i] = items[i]
  <2>1. \A i \in 1..(k - 1) : items[i] \in T
    OBVIOUS
  <2>2. QED
    BY <2>1, SubSeqProperties
<1>2. /\ back \in Seq(T) /\ Len(back) = Len(items) - k
      /\ \A i \in 1..(Len(items) - k) : back[i] = items[k + i]
  <2>1. \A i \in (k + 1)..Len(items) : items[i] \in T
    OBVIOUS
  <2>2. QED
    BY <2>1, SubSeqProperties
<1> HIDE DEF front, back
<1>3. /\ front \o back \in Seq(T) /\ Len(front \o back) = Len(items) - 1
      /\ \A i \in 1..(Len(items) - 1) :
           (front \o back)[i] = IF i <= k - 1 THEN front[i] ELSE back[i - (k - 1)]
  <2>1. /\ front \o back \in Seq(T) /\ Len(front \o back) = Len(front) + Len(back)
        /\ \A i \in 1..(Len(front) + Len(back)) :
             (front \o back)[i] = IF i <= Len(front) THEN front[i] ELSE back[i - Len(front)]
    BY <1>1, <1>2, ConcatProperties
  <2>2. Len(front) + Len(back) = Len(items) - 1
    BY <1>1, <1>2
  <2>3. QED
    BY <1>1, <2>1, <2>2
<1>4. \A i \in 1..(Len(items) - 1) :
        (front \o back)[i] = IF i < k THEN items[i] ELSE items[i + 1]
  BY <1>1, <1>2, <1>3
<1>5. RemoveAt(items, k) = front \o back
  BY DEF RemoveAt, front, back
<1>6. QED
  BY <1>3, <1>4, <1>5

(* EnsureNoItem: the list has no such item then, and the others as before. *)
LEMMA EnsureNoItemEnsures ==
  ASSUME NEW items, NEW names, Unique(items, names), NEW name \in names
  PROVE  /\ Unique(EnsureNoItem(items, name), names)
         /\ Lacks(EnsureNoItem(items, name), name)
         /\ Kept(items, EnsureNoItem(items, name), {name})
         /\ \A i \in DOMAIN items : items[i].name # name =>
              \E j \in DOMAIN EnsureNoItem(items, name) : EnsureNoItem(items, name)[j] = items[i]
         /\ ToSet(EnsureNoItem(items, name)) \subseteq ToSet(items)
<1> DEFINE result == EnsureNoItem(items, name)
           T == ToSet(items)
<1>1. items \in Seq(T) /\ Len(items) \in Nat /\ DOMAIN items = 1..Len(items)
  BY DEF Unique
<1>2. CASE Lacks(items, name)
  <2>1. result = items
    BY <1>2, EnsureNoItemStable
  <2>2. Kept(items, items, {name})
    <3>1. OfOtherNames(items, {name}) \in SUBSET Nat
      BY <1>1 DEF OfOtherNames
    <3>2. QED
      BY <3>1, SamePlaces DEF Kept
  <2>3. QED
    BY <1>1, <1>2, <2>1, <2>2
<1>3. CASE ~Lacks(items, name)
  <2>1. PICK k \in DOMAIN items : items[k].name = name
    BY <1>3 DEF Lacks
  <2>2. Index(items, name) = k /\ Index(items, name) # 0
    BY <1>3, <2>1, IndexOf
  <2>3. /\ result \in Seq(T) /\ Len(result) = Len(items) - 1 /\ DOMAIN result = 1..(Len(items) - 1)
        /\ \A i \in 1..(Len(items) - 1) : result[i] = IF i < k THEN items[i] ELSE items[i + 1]
    <3>1. result = RemoveAt(items, k) /\ k \in 1..Len(items)
      BY <1>1, <2>1, <2>2 DEF EnsureNoItem
    <3>2. /\ result \in Seq(T) /\ Len(result) = Len(items) - 1
          /\ \A i \in 1..(Len(items) - 1) : result[i] = IF i < k THEN items[i] ELSE items[i + 1]
      BY <1>1, <3>1, Removed
    <3> HIDE DEF result
    <3>3. DOMAIN result = 1..Len(result)
      BY <3>2
    <3>4. QED
      BY <3>2, <3>3
  <2> DEFINE from == [i \in DOMAIN result |-> IF i < k THEN i ELSE i + 1]
  <2>4. \A i \in DOMAIN result : from[i] \in DOMAIN items /\ from[i] # k /\ result[i] = items[from[i]]
    BY <1>1, <2>1, <2>3
  <2>5. \A i, j \in DOMAIN result : i < j => from[i] < from[j]
    BY <1>1, <2>1, <2>3
  <2>6. \A p \in DOMAIN items : p # k => \E i \in DOMAIN result : from[i] = p
    <3> SUFFICES ASSUME NEW p \in DOMAIN items, p # k
                 PROVE  \E i \in DOMAIN result : from[i] = p
      OBVIOUS
    <3>1. CASE p < k
      BY <1>1, <2>1, <2>3, <3>1
    <3>2. CASE ~(p < k)
      <4>1. p - 1 \in DOMAIN result /\ from[p - 1] = p
        BY <1>1, <2>1, <2>3, <3>2
      <4>2. QED
        BY <4>1
    <3>3. QED
      BY <3>1, <3>2
  <2> HIDE DEF from, result
  <2>7. \A p \in DOMAIN items : items[p].name = name => p = k
    BY <2>1 DEF Unique
  <2>8. Unique(result, names)
    <3>1. result \in Seq(ToSet(result))
      BY <2>3, OwnItems
    <3>2. ASSUME NEW i \in DOMAIN result, NEW j \in DOMAIN result,
                 result[i].name = result[j].name, result[i].name \in names
          PROVE  i = j
      <4>1. from[i] = from[j]
        BY <2>4, <3>2 DEF Unique
      <4>2. i \in Int /\ j \in Int /\ from[i] \in Int
        BY <1>1, <2>3, <2>4
      <4>3. QED
        BY <2>5, <4>1, <4>2
    <3>3. QED
      BY <3>1, <3>2 DEF Unique
  <2>9. Lacks(result, name)
    BY <2>4, <2>7 DEF Lacks
  <2>10. Kept(items, result, {name})
    <3> DEFINE g == [i \in OfOtherNames(result, {name}) |-> from[i]]
    <3>1. OfOtherNames(result, {name}) = DOMAIN result
      BY <2>9 DEF OfOtherNames, Lacks
    <3>2. OfOtherNames(items, {name}) = DOMAIN items \ {k}
      BY <2>1, <2>7 DEF OfOtherNames
    <3>3. g \in [OfOtherNames(result, {name}) -> OfOtherNames(items, {name})]
      BY <2>4, <3>1, <3>2
    <3>4. \A i \in DOMAIN result : g[i] = from[i]
      BY <3>1
    <3> HIDE DEF g
    <3>5. \A p \in OfOtherNames(items, {name}) : \E i \in OfOtherNames(result, {name}) : g[i] = p
      BY <2>6, <3>1, <3>2, <3>4
    <3>6. /\ \A i \in OfOtherNames(result, {name}) : result[i] = items[g[i]]
          /\ \A i, j \in OfOtherNames(result, {name}) : i < j => g[i] < g[j]
      BY <2>4, <2>5, <3>1, <3>4
    <3>7. QED
      BY <3>3, <3>5, <3>6 DEF Kept, SameItems
  <2>11. ToSet(result) \subseteq T
    BY <2>4 DEF ToSet
  <2>12. \A i \in DOMAIN items : items[i].name # name => \E j \in DOMAIN result : result[j] = items[i]
    BY <2>1, <2>4, <2>6
  <2>13. QED
    BY <2>8, <2>9, <2>10, <2>11, <2>12 DEF result
<1>4. QED
  BY <1>2, <1>3

(* What is kept twice is kept.                                             *)
LEMMA KeptTwice ==
  ASSUME NEW a, NEW b, NEW c, NEW names, Kept(a, b, names), Kept(b, c, names)
  PROVE  Kept(a, c, names)
<1> DEFINE A == OfOtherNames(a, names)
           B == OfOtherNames(b, names)
           C == OfOtherNames(c, names)
<1>1. PICK f \in [B -> A] : /\ \A p \in A : \E k \in B : f[k] = p
                            /\ \A k \in B : b[k] = a[f[k]]
                            /\ \A k, l \in B : k < l => f[k] < f[l]
  BY DEF Kept, SameItems
<1>2. PICK g \in [C -> B] : /\ \A p \in B : \E k \in C : g[k] = p
                            /\ \A k \in C : c[k] = b[g[k]]
                            /\ \A k, l \in C : k < l => g[k] < g[l]
  BY DEF Kept, SameItems
<1> DEFINE h == [k \in C |-> f[g[k]]]
<1>3. h \in [C -> A] /\ \A k \in C : h[k] = f[g[k]]
  BY <1>1, <1>2
<1> HIDE DEF A, B, C, h
<1>4. \A p \in A : \E k \in C : h[k] = p
  BY <1>1, <1>2, <1>3
<1>5. /\ \A k \in C : c[k] = a[h[k]]
      /\ \A k, l \in C : k < l => h[k] < h[l]
  BY <1>1, <1>2, <1>3
<1>6. QED
  BY <1>3, <1>4, <1>5 DEF Kept, SameItems, A, C

(* What is kept beside some names is kept beside more of them.             *)
LEMMA KeptBeside ==
  ASSUME NEW a, NEW b, NEW names, NEW more, names \subseteq more, Kept(a, b, names)
  PROVE  Kept(a, b, more)
<1> DEFINE A == OfOtherNames(a, names)
           B == OfOtherNames(b, names)
           C == OfOtherNames(a, more)
           D == OfOtherNames(b, more)
<1>1. PICK f \in [B -> A] : /\ \A p \in A : \E k \in B : f[k] = p
                            /\ \A k \in B : b[k] = a[f[k]]
                            /\ \A k, l \in B : k < l => f[k] < f[l]
  BY DEF Kept, SameItems
<1>2. C = {i \in A : a[i].name \notin more} /\ D = {i \in B : b[i].name \notin more}
  BY DEF OfOtherNames
<1> DEFINE g == [k \in D |-> f[k]]
<1>3. g \in [D -> C] /\ \A k \in D : g[k] = f[k]
  BY <1>1, <1>2
<1> HIDE DEF A, B, C, D, g
<1>4. \A p \in C : \E k \in D : g[k] = p
  BY <1>1, <1>2, <1>3
<1>5. /\ \A k \in D : b[k] = a[g[k]]
      /\ \A k, l \in D : k < l => g[k] < g[l]
  BY <1>1, <1>2, <1>3
<1>6. QED
  BY <1>3, <1>4, <1>5 DEF Kept, SameItems, C, D

-----------------------------------------------------------------------------
(* WithCommand, where there is nothing of that name, changes nothing.      *)
LEMMA WithoutCommand ==
  ASSUME NEW items, NEW name, Commanded(items, name), Lacks(items, name), NEW command
  PROVE  /\ WithCommand(items, name, command) = items
         /\ CommandsOf(items, name) = {}
         /\ Kept(items, items, {name})
<1>1. Index(items, name) = 0
  BY IndexOf DEF Commanded
<1>2. OfOtherNames(items, {name}) \in SUBSET Nat
  BY DEF Commanded, Unique, OfOtherNames
<1>3. Kept(items, items, {name})
  BY <1>2, SamePlaces DEF Kept
<1>4. QED
  BY <1>1, <1>3 DEF WithCommand, CommandsOf, Lacks

(* WithCommand changes the command of the one item of that name, and       *)
(* nothing else.                                                           *)
LEMMA CommandGiven ==
  ASSUME NEW items, NEW name, Commanded(items, name), ~Lacks(items, name), NEW command,
         NEW after, after = WithCommand(items, name, command)
  PROVE  /\ Command(after, name) = command
         /\ CommandsOf(after, name) = {command}
         /\ CommandsOf(items, name) = {Command(items, name)}
         /\ Unique(Command(items, name), CloudFlags)
         /\ Unique(after, {name})
         /\ WithCommand(after, name, command) = after
         /\ Kept(items, after, {name})
<1>1. PICK k \in DOMAIN items : items[k].name = name
  BY DEF Lacks
<1>2. /\ items \in Seq(ToSet(items)) /\ DOMAIN items = 1..Len(items) /\ Len(items) \in Nat
      /\ \A i \in DOMAIN items : items[i].name = name => i = k
  BY <1>1 DEF Commanded, Unique
<1>3. Index(items, name) = k /\ k # 0
  BY <1>1, <1>2, IndexOf DEF Commanded
<1>4. /\ after = [items EXCEPT ![k].command = command]
      /\ "command" \in DOMAIN items[k] /\ Unique(items[k].command, CloudFlags)
  BY <1>1, <1>3 DEF WithCommand, Commanded
<1>5. /\ DOMAIN after = DOMAIN items
      /\ \A i \in DOMAIN items : after[i].name = items[i].name
      /\ \A i \in DOMAIN items : i # k => after[i] = items[i]
      /\ after[k].command = command
  BY <1>1, <1>2, <1>4
<1>6. Unique(after, {name})
  <2> DEFINE T == ToSet(items) \cup {after[k]}
  <2>1. after \in Seq(T)
    BY <1>2, <1>4, <1>5
  <2>2. after \in Seq(ToSet(after))
    BY <2>1, OwnItems
  <2>3. QED
    BY <1>2, <1>5, <2>2 DEF Unique
<1>7. Index(after, name) = k
  BY <1>1, <1>5, <1>6, IndexOf
<1>8. Command(after, name) = command /\ Command(items, name) = items[k].command
  BY <1>3, <1>5, <1>7 DEF Command
<1>9. CommandsOf(after, name) = {command} /\ CommandsOf(items, name) = {items[k].command}
  BY <1>1, <1>2, <1>5 DEF CommandsOf
<1>10. WithCommand(after, name, command) = after
  <2>1. WithCommand(after, name, command) = [after EXCEPT ![k].command = command]
    BY <1>3, <1>7 DEF WithCommand
  <2>2. after[k] = [items[k] EXCEPT !.command = command]
    BY <1>2, <1>4
  <2>3. [after[k] EXCEPT !.command = command] = after[k]
    BY <1>4, <2>2
  <2>4. [after EXCEPT ![k].command = command] = [after EXCEPT ![k] = [after[k] EXCEPT !.command = command]]
    OBVIOUS
  <2>5. QED
    BY <1>5, <2>1, <2>3, <2>4, <1>6 DEF Unique
<1>11. Kept(items, after, {name})
  <2>1. OfOtherNames(after, {name}) = OfOtherNames(items, {name})
    BY <1>5 DEF OfOtherNames
  <2>2. /\ OfOtherNames(items, {name}) \in SUBSET Nat
        /\ \A p \in OfOtherNames(items, {name}) : after[p] = items[p]
    BY <1>1, <1>2, <1>5 DEF OfOtherNames
  <2>3. QED
    BY <2>1, <2>2, SamePlaces DEF Kept
<1>12. QED
  BY <1>1, <1>4, <1>6, <1>8, <1>9, <1>10, <1>11

-----------------------------------------------------------------------------
(* The flag of a name that comes once is the one that counts.              *)
LEMMA OnceGiven ==
  ASSUME NEW command, NEW names, Unique(command, names), NEW flag, flag.name \in names,
         NEW i \in DOMAIN command, command[i] = flag
  PROVE  Gives(command, flag)
<1>1. DOMAIN command = 1..Len(command) /\ Len(command) \in Nat
  BY DEF Unique
<1>2. \A j \in DOMAIN command : j > i => command[j].name # flag.name
  BY <1>1 DEF Unique
<1>3. QED
  BY <1>2 DEF Gives

(* The kube-apiserver loses both flags, and no other.                      *)
LEMMA APIServerArgs ==
  ASSUME NEW command, Unique(command, CloudFlags)
  PROVE  LET args == ensureKubeAPIServerCommandLineArgs(command) IN
         /\ Lacks(args, "--cloud-provider") /\ Lacks(args, "--cloud-config")
         /\ Kept(command, args, CloudFlags)
         /\ ensureKubeAPIServerCommandLineArgs(args) = args
<1> DEFINE once == EnsureNoItem(command, "--cloud-provider")
           args == EnsureNoItem(once, "--cloud-config")
<1>1. {"--cloud-provider"} \subseteq CloudFlags /\ {"--cloud-config"} \subseteq CloudFlags
      /\ "--cloud-provider" \in CloudFlags /\ "--cloud-config" \in CloudFlags
  BY DEF CloudFlags
<1>2. /\ Unique(once, CloudFlags) /\ Lacks(once, "--cloud-provider")
      /\ Kept(command, once, {"--cloud-provider"})
  BY <1>1, EnsureNoItemEnsures
<1>3. /\ Unique(args, CloudFlags) /\ Lacks(args, "--cloud-config")
      /\ Kept(once, args, {"--cloud-config"}) /\ ToSet(args) \subseteq ToSet(once)
  BY <1>1, <1>2, EnsureNoItemEnsures
<1>4. Lacks(args, "--cloud-provider")
  BY <1>2, <1>3 DEF Lacks, ToSet
<1>5. Kept(command, args, CloudFlags)
  BY <1>1, <1>2, <1>3, KeptBeside, KeptTwice
<1>6. EnsureNoItem(args, "--cloud-provider") = args /\ EnsureNoItem(args, "--cloud-config") = args
  BY <1>1, <1>3, <1>4, EnsureNoItemStable
<1>7. QED
  BY <1>3, <1>4, <1>5, <1>6 DEF ensureKubeAPIServerCommandLineArgs

(* A flag for the cloud provider is external and in its place.             *)
LEMMA ProviderArg ==
  ASSUME NEW command, Unique(command, CloudFlags)
  PROVE  LET flag == Flag("--cloud-provider", "external")
             args == EnsureItem(command, flag) IN
         /\ Unique(args, CloudFlags)
         /\ Kept(command, args, CloudFlags)
         /\ \E i \in DOMAIN args : args[i] = flag
<1> DEFINE flag == Flag("--cloud-provider", "external")
           args == EnsureItem(command, flag)
<1>1. flag.name = "--cloud-provider" /\ {flag.name} \subseteq CloudFlags /\ flag.name \in CloudFlags
  BY DEF CloudFlags, Flag
<1>2. /\ Unique(args, CloudFlags) /\ Kept(command, args, {flag.name})
      /\ \E i \in DOMAIN args : args[i] = flag
  BY <1>1, EnsureItemEnsures
<1>3. Kept(command, args, CloudFlags)
  BY <1>1, <1>2, KeptBeside
<1>4. QED
  BY <1>2, <1>3

(* Where the flag for the cloud provider is external, it stays.            *)
LEMMA ProviderArgStable ==
  ASSUME NEW command, Unique(command, CloudFlags),
         NEW i \in DOMAIN command, command[i] = Flag("--cloud-provider", "external")
  PROVE  /\ EnsureItem(command, Flag("--cloud-provider", "external")) = command
         /\ Gives(command, Flag("--cloud-provider", "external"))
<1>1. command[i].name = "--cloud-provider" /\ command[i].name \in CloudFlags
  BY DEF CloudFlags, Flag
<1>2. EnsureItem(command, command[i]) = command
  BY <1>1, EnsureItemStable
<1>3. Gives(command, command[i])
  BY <1>1, OnceGiven
<1>4. QED
  BY <1>2, <1>3

(* The kube-controller-manager has an external cloud provider and no       *)
(* config of it.                                                           *)
LEMMA ControllerManagerArgs ==
  ASSUME NEW command, Unique(command, CloudFlags)
  PROVE  LET args == ensureKubeControllerManagerCommandLineArgs(command) IN
         /\ Gives(args, Flag("--cloud-provider", "external"))
         /\ Lacks(args, "--cloud-config")
         /\ Kept(command, args, CloudFlags)
         /\ ensureKubeControllerManagerCommandLineArgs(args) = args
<1> DEFINE flag == Flag("--cloud-provider", "external")
           once == EnsureItem(command, flag)
           args == EnsureNoItem(once, "--cloud-config")
<1>1. {"--cloud-config"} \subseteq CloudFlags /\ "--cloud-config" \in CloudFlags
  BY DEF CloudFlags
<1>2. Unique(once, CloudFlags) /\ Kept(command, once, CloudFlags)
  BY ProviderArg
<1>3. PICK i \in DOMAIN once : once[i] = flag
  BY ProviderArg
<1>4. /\ Unique(args, CloudFlags) /\ Lacks(args, "--cloud-config")
      /\ Kept(once, args, {"--cloud-config"})
      /\ \A j \in DOMAIN once : once[j].name # "--cloud-config" =>
           \E k \in DOMAIN args : args[k] = once[j]
  BY <1>1, <1>2, EnsureNoItemEnsures
<1>5. PICK k \in DOMAIN args : args[k] = flag
  <2>1. flag.name # "--cloud-config"
    BY DEF Flag
  <2>2. QED
    BY <1>3, <1>4, <2>1
<1>6. EnsureItem(args, flag) = args /\ Gives(args, flag)
  BY <1>4, <1>5, ProviderArgStable
<1>7. EnsureNoItem(args, "--cloud-config") = args
  BY <1>1, <1>4, EnsureNoItemStable
<1>8. Kept(command, args, CloudFlags)
  BY <1>1, <1>2, <1>4, KeptBeside, KeptTwice
<1>9. QED
  BY <1>4, <1>6, <1>7, <1>8 DEF ensureKubeControllerManagerCommandLineArgs

(* The kubelet has an external cloud provider.                             *)
LEMMA KubeletArgs ==
  ASSUME NEW command, Unique(command, CloudFlags)
  PROVE  LET args == ensureKubeletCommandLineArgs(command) IN
         /\ Gives(args, Flag("--cloud-provider", "external"))
         /\ Kept(command, args, CloudFlags)
         /\ ensureKubeletCommandLineArgs(args) = args
         /\ Unique(args, CloudFlags)
<1> DEFINE flag == Flag("--cloud-provider", "external")
           args == EnsureItem(command, flag)
<1>1. Unique(args, CloudFlags) /\ Kept(command, args, CloudFlags)
  BY ProviderArg
<1>2. PICK i \in DOMAIN args : args[i] = flag
  BY ProviderArg
<1>3. EnsureItem(args, flag) = args /\ Gives(args, flag)
  BY <1>1, <1>2, ProviderArgStable
<1>4. QED
  BY <1>1, <1>3 DEF ensureKubeletCommandLineArgs

-----------------------------------------------------------------------------
(* What the webhook gives a container or an option, it gives it once.      *)
LEMMA CommandRewritten ==
  ASSUME NEW items, NEW name, NEW new, NEW after, Commanded(items, name), ~Lacks(items, name),
         after = WithCommand(items, name, new),
         Kept(Command(items, name), new, CloudFlags)
  PROVE  CommandsKept(items, after, name)
<1>1. CommandsOf(after, name) = {new} /\ Kept(items, after, {name})
  BY CommandGiven
<1>2. CommandsOf(items, name) = {Command(items, name)}
  BY CommandGiven
<1>3. QED
  BY <1>1, <1>2 DEF CommandsKept

(* The kube-apiserver: its Deployment is as it should be, and stays so.    *)
LEMMA APIServerEnsured ==
  ASSUME NEW d, "containers" \in DOMAIN d, Commanded(d.containers, "kube-apiserver")
  PROVE  LET after == EnsureKubeAPIServerDeployment(d) IN
         /\ IsExternal("kube-apiserver", d, after)
         /\ EnsureKubeAPIServerDeployment(after) = after
<1> DEFINE name == "kube-apiserver"
           items == d.containers
           command == Command(items, name)
           args == ensureKubeAPIServerCommandLineArgs(command)
           changed == WithCommand(items, name, args)
           after == EnsureKubeAPIServerDeployment(d)
<1>1. after = [d EXCEPT !.containers = changed] /\ after.containers = changed
      /\ "containers" \in DOMAIN after
  BY DEF EnsureKubeAPIServerDeployment
<1>2. /\ WithCommand(changed, name, ensureKubeAPIServerCommandLineArgs(Command(changed, name))) = changed
      /\ \A c \in CommandsOf(changed, name) : Lacks(c, "--cloud-provider") /\ Lacks(c, "--cloud-config")
      /\ CommandsKept(items, changed, name)
      /\ Kept(items, changed, {name})
  <2>1. CASE Lacks(items, name)
    <3>1. \A c : WithCommand(items, name, c) = items
      BY <2>1, WithoutCommand
    <3>2. CommandsOf(items, name) = {} /\ Kept(items, items, {name})
      BY <2>1, WithoutCommand
    <3>3. QED
      BY <3>1, <3>2 DEF CommandsKept
  <2>2. CASE ~Lacks(items, name)
    <3>1. /\ Command(changed, name) = args /\ CommandsOf(changed, name) = {args}
          /\ Unique(command, CloudFlags)
          /\ WithCommand(changed, name, args) = changed
          /\ Kept(items, changed, {name})
      BY <2>2, CommandGiven
    <3>2. /\ Lacks(args, "--cloud-provider") /\ Lacks(args, "--cloud-config")
          /\ Kept(command, args, CloudFlags)
          /\ ensureKubeAPIServerCommandLineArgs(args) = args
      BY <3>1, APIServerArgs
    <3>3. CommandsKept(items, changed, name)
      BY <2>2, <3>2, CommandRewritten
    <3>4. QED
      BY <3>1, <3>2, <3>3
  <2>3. QED
    BY <2>1, <2>2
<1>3. EnsureKubeAPIServerDeployment(after) = after
  <2>1. EnsureKubeAPIServerDeployment(after) = [after EXCEPT !.containers = changed]
    BY <1>1, <1>2 DEF EnsureKubeAPIServerDeployment
  <2>2. QED
    BY <1>1, <2>1
<1>4. IsExternal(name, d, after)
  BY <1>1, <1>2 DEF IsExternal
<1>5. QED
  BY <1>3, <1>4

(* The kube-controller-manager: the same of its Deployment.                *)
LEMMA ControllerManagerEnsured ==
  ASSUME NEW d, "containers" \in DOMAIN d, Commanded(d.containers, "kube-controller-manager")
  PROVE  LET after == EnsureKubeControllerManagerDeployment(d) IN
         /\ IsExternal("kube-controller-manager", d, after)
         /\ EnsureKubeControllerManagerDeployment(after) = after
<1> DEFINE name == "kube-controller-manager"
           items == d.containers
           command == Command(items, name)
           args == ensureKubeControllerManagerCommandLineArgs(command)
           changed == WithCommand(items, name, args)
           after == EnsureKubeControllerManagerDeployment(d)
<1>1. after = [d EXCEPT !.containers = changed] /\ after.containers = changed
      /\ "containers" \in DOMAIN after
  BY DEF EnsureKubeControllerManagerDeployment
<1>2. /\ WithCommand(changed, name, ensureKubeControllerManagerCommandLineArgs(Command(changed, name)))
            = changed
      /\ \A c \in CommandsOf(changed, name) :
           Gives(c, Flag("--cloud-provider", "external")) /\ Lacks(c, "--cloud-config")
      /\ CommandsKept(items, changed, name)
      /\ Kept(items, changed, {name})
  <2>1. CASE Lacks(items, name)
    <3>1. \A c : WithCommand(items, name, c) = items
      BY <2>1, WithoutCommand
    <3>2. CommandsOf(items, name) = {} /\ Kept(items, items, {name})
      BY <2>1, WithoutCommand
    <3>3. QED
      BY <3>1, <3>2 DEF CommandsKept
  <2>2. CASE ~Lacks(items, name)
    <3>1. /\ Command(changed, name) = args /\ CommandsOf(changed, name) = {args}
          /\ Unique(command, CloudFlags)
          /\ WithCommand(changed, name, args) = changed
          /\ Kept(items, changed, {name})
      BY <2>2, CommandGiven
    <3>2. /\ Gives(args, Flag("--cloud-provider", "external")) /\ Lacks(args, "--cloud-config")
          /\ Kept(command, args, CloudFlags)
          /\ ensureKubeControllerManagerCommandLineArgs(args) = args
      BY <3>1, ControllerManagerArgs
    <3>3. CommandsKept(items, changed, name)
      BY <2>2, <3>2, CommandRewritten
    <3>4. QED
      BY <3>1, <3>2, <3>3
  <2>3. QED
    BY <2>1, <2>2
<1>3. EnsureKubeControllerManagerDeployment(after) = after
  <2>1. EnsureKubeControllerManagerDeployment(after) = [after EXCEPT !.containers = changed]
    BY <1>1, <1>2 DEF EnsureKubeControllerManagerDeployment
  <2>2. QED
    BY <1>1, <2>1
<1>4. IsExternal(name, d, after)
  BY <1>1, <1>2 DEF IsExternal
<1>5. QED
  BY <1>3, <1>4

-----------------------------------------------------------------------------
(* The one thing in a list that was empty.                                 *)
LEMMA FirstItem ==
  ASSUME NEW item
  PROVE  EnsureItem(<<>>, item) = <<item>>
<1>1. Unique(<<>>, {item.name}) /\ Lacks(<<>>, item.name)
  BY DEF Unique, Lacks, ToSet
<1>2. Index(<<>>, item.name) = 0
  BY <1>1, IndexOf
<1>3. QED
  BY <1>2 DEF EnsureItem

(* EnsureItem once more changes nothing.                                   *)
LEMMA EnsureItemTwice ==
  ASSUME NEW items, NEW item, Unique(items, {item.name})
  PROVE  EnsureItem(EnsureItem(items, item), item) = EnsureItem(items, item)
<1> DEFINE after == EnsureItem(items, item)
<1>1. item.name \in {item.name}
  OBVIOUS
<1>2. Unique(after, {item.name}) /\ \E i \in DOMAIN after : after[i] = item
  BY <1>1, EnsureItemEnsures
<1>3. PICK i \in DOMAIN after : after[i] = item
  BY <1>2
<1>4. EnsureItem(after, after[i]) = after
  BY <1>2, <1>3, EnsureItemStable
<1>5. QED
  BY <1>3, <1>4

(* The machine-controller-manager: its side-car is there, and what the     *)
(* side-car mounts; both stay.                                             *)
LEMMA MachineControllerManagerEnsured ==
  ASSUME NEW d, Unique(d.containers, {Sidecar}), Unique(d.volumes, {"cloudprovider"})
  PROVE  LET after == EnsureMachineControllerManagerDeployment(d) IN
         /\ IsExternal("machine-controller-manager", d, after)
         /\ EnsureMachineControllerManagerDeployment(after) = after
<1> DEFINE volume == [name |-> "cloudprovider", secret |-> "cloudprovider"]
           after == EnsureMachineControllerManagerDeployment(d)
<1>1. /\ after.containers = EnsureItem(d.containers, SidecarContainer)
      /\ after.volumes = EnsureItem(d.volumes, volume)
      /\ after = [containers |-> after.containers, volumes |-> after.volumes]
  BY DEF EnsureMachineControllerManagerDeployment
<1>2. SidecarContainer.name = Sidecar /\ volume.name = "cloudprovider"
      /\ SidecarContainer.mounts = <<CloudProviderMount>>
  BY FirstItem DEF SidecarContainer
<1>3. /\ EnsureItem(after.containers, SidecarContainer) = after.containers
      /\ EnsureItem(after.volumes, volume) = after.volumes
  BY <1>1, <1>2, EnsureItemTwice
<1>4. EnsureMachineControllerManagerDeployment(after) = after
  BY <1>1, <1>3 DEF EnsureMachineControllerManagerDeployment
<1>5. /\ Kept(d.containers, after.containers, {Sidecar})
      /\ \E i \in DOMAIN after.containers : after.containers[i] = SidecarContainer
  BY <1>1, <1>2, EnsureItemEnsures
<1>6. /\ Kept(d.volumes, after.volumes, {"cloudprovider"})
      /\ \E i \in DOMAIN after.volumes : after.volumes[i] = volume
  BY <1>1, <1>2, EnsureItemEnsures
<1>7. \E i \in DOMAIN after.containers :
        /\ after.containers[i].name = Sidecar
        /\ \A mount \in ToSet(after.containers[i].mounts) :
             \E v \in ToSet(after.volumes) : v.name = mount.name
  <2>1. PICK i \in DOMAIN after.containers : after.containers[i] = SidecarContainer
    BY <1>5
  <2>2. ToSet(after.containers[i].mounts) = {CloudProviderMount}
    BY <1>2, <2>1 DEF ToSet
  <2>3. volume \in ToSet(after.volumes)
    BY <1>6 DEF ToSet
  <2>4. volume.name = CloudProviderMount.name
    BY DEF CloudProviderMount
  <2>5. QED
    BY <1>2, <2>1, <2>2, <2>3, <2>4
<1>8. IsExternal("machine-controller-manager", d, after)
  BY <1>5, <1>6, <1>7 DEF IsExternal
<1>9. QED
  BY <1>4, <1>8

(* The vertical autoscaler has a policy for the side-car, and keeps it.    *)
LEMMA VPAEnsured ==
  ASSUME NEW items, Unique(items, {Sidecar})
  PROVE  LET after == EnsureMachineControllerManagerVPA(items) IN
         /\ IsExternal("vpa", items, after)
         /\ EnsureMachineControllerManagerVPA(after) = after
<1> DEFINE policy == [name |-> Sidecar]
           after == EnsureItem(items, policy)
<1>1. policy.name = Sidecar
  OBVIOUS
<1>2. Kept(items, after, {Sidecar}) /\ \E i \in DOMAIN after : after[i] = policy
  BY <1>1, EnsureItemEnsures
<1>3. ~Lacks(after, Sidecar)
  BY <1>1, <1>2 DEF Lacks
<1>4. EnsureItem(after, policy) = after
  BY <1>1, EnsureItemTwice
<1>5. IsExternal("vpa", items, after)
  BY <1>2, <1>3 DEF IsExternal
<1>6. QED
  BY <1>4, <1>5 DEF EnsureMachineControllerManagerVPA

-----------------------------------------------------------------------------
(* WithCommand leaves the other items where and as they are.               *)
LEMMA CommandAlone ==
  ASSUME NEW items, NEW name, Commanded(items, name), NEW command,
         Unique(command, CloudFlags),
         NEW after, after = WithCommand(items, name, command)
  PROVE  /\ Commanded(after, name)
         /\ DOMAIN after = DOMAIN items
         /\ \A i \in DOMAIN items : after[i].name = items[i].name
         /\ \A i \in DOMAIN items : items[i].name # name => after[i] = items[i]
<1>1. CASE Lacks(items, name)
  BY <1>1, WithoutCommand
<1>2. CASE ~Lacks(items, name)
  <2>1. PICK k \in DOMAIN items : items[k].name = name
    BY <1>2 DEF Lacks
  <2>2. Index(items, name) = k /\ k # 0
    <3>1. Unique(items, {name}) /\ name \in {name}
      BY DEF Commanded
    <3>2. Index(items, name) = k
      BY <2>1, <3>1, IndexOf
    <3>3. QED
      BY <3>1, <3>2 DEF Unique
  <2>3. /\ after = [items EXCEPT ![k].command = command]
        /\ "command" \in DOMAIN items[k] /\ items \in Seq(ToSet(items))
        /\ \A i \in DOMAIN items : items[i].name = name => i = k
    BY <2>1, <2>2 DEF Commanded, Unique, WithCommand
  <2>4. /\ DOMAIN after = DOMAIN items
        /\ \A i \in DOMAIN items : after[i].name = items[i].name
        /\ \A i \in DOMAIN items : i # k => after[i] = items[i]
        /\ "command" \in DOMAIN after[k] /\ after[k].command = command
    BY <2>1, <2>3
  <2>5. after \in Seq(ToSet(after))
    <3> DEFINE T == ToSet(items) \cup {after[k]}
    <3>1. after \in Seq(T)
      BY <2>3, <2>4
    <3>2. QED
      BY <3>1, OwnItems
  <2>6. Commanded(after, name)
    BY <2>1, <2>3, <2>4, <2>5 DEF Commanded, Unique
  <2>7. QED
    BY <2>1, <2>4, <2>6
<1>3. QED
  BY <1>1, <1>2

(* The option that sets the hostname comes after the others, if it is not  *)
(* among them.                                                             *)
LEMMA HostnameSet ==
  ASSUME NEW options, Commanded(options, "ExecStart"),
         NEW after, after = EnsureUnitOption(options, SetHostname)
  PROVE  /\ Commanded(after, "ExecStart")
         /\ Contains(after, SetHostname)
         /\ CommandsOf(after, "ExecStart") = CommandsOf(options, "ExecStart")
         /\ OtherOptions(after) = OtherOptions(options)
         /\ \A i \in OtherOptions(options) : after[i] = options[i]
         /\ \A command : WithCommand(options, "ExecStart", command) = options =>
              WithCommand(after, "ExecStart", command) = after
<1>1. SetHostname.name # "ExecStart"
  BY DEF SetHostname
<1>2. CASE Contains(options, SetHostname)
  BY <1>2 DEF EnsureUnitOption
<1>3. CASE ~Contains(options, SetHostname)
  <2> DEFINE T == ToSet(options) \cup {SetHostname}
  <2>1. options \in Seq(T) /\ DOMAIN options = 1..Len(options) /\ Len(options) \in Nat
    <3>1. options \in Seq(ToSet(options))
      BY DEF Commanded, Unique
    <3>2. QED
      BY <3>1
  <2>2. after = Append(options, SetHostname)
    BY <1>3 DEF EnsureUnitOption
  <2>3. /\ after \in Seq(T) /\ DOMAIN after = 1..(Len(options) + 1)
        /\ after[Len(options) + 1] = SetHostname
        /\ \A i \in DOMAIN options : after[i] = options[i]
    BY <2>1, <2>2
  <2>4. {i \in DOMAIN after : after[i].name = "ExecStart"}
          = {i \in DOMAIN options : options[i].name = "ExecStart"}
    BY <1>1, <2>1, <2>3
  <2>5. CommandsOf(after, "ExecStart") = CommandsOf(options, "ExecStart")
    BY <2>3, <2>4 DEF CommandsOf
  <2>6. OtherOptions(after) = OtherOptions(options)
    BY <2>1, <2>3 DEF OtherOptions
  <2>7. Contains(after, SetHostname)
    BY <2>1, <2>3 DEF Contains
  <2>8. Commanded(after, "ExecStart")
    <3>1. after \in Seq(ToSet(after))
      BY <2>3, OwnItems
    <3>2. \A i \in DOMAIN after : after[i].name = "ExecStart" => i \in DOMAIN options
      BY <2>4
    <3>3. QED
      BY <2>3, <3>1, <3>2 DEF Commanded, Unique
  <2>9. ASSUME NEW command, WithCommand(options, "ExecStart", command) = options
        PROVE  WithCommand(after, "ExecStart", command) = after
    <3>1. CASE Lacks(after, "ExecStart")
      BY <2>8, <3>1, WithoutCommand
    <3>2. CASE ~Lacks(after, "ExecStart")
      <4>1. PICK k \in DOMAIN options : options[k].name = "ExecStart" /\ after[k] = options[k]
        BY <2>3, <2>4, <3>2 DEF Lacks
      <4>2. k \in DOMAIN after /\ after[k].name = "ExecStart" /\ k # 0
        BY <2>1, <2>3, <4>1
      <4>3. Index(options, "ExecStart") = k /\ Index(after, "ExecStart") = k
        <5>1. Unique(options, {"ExecStart"}) /\ Unique(after, {"ExecStart"}) /\ "ExecStart" \in {"ExecStart"}
          BY <2>8 DEF Commanded
        <5>2. QED
          BY <4>1, <4>2, <5>1, IndexOf
      <4>4. [options EXCEPT ![k] = [options[k] EXCEPT !.command = command]] = options
        BY <2>9, <4>2, <4>3 DEF WithCommand
      <4>5. [options[k] EXCEPT !.command = command] = options[k]
        BY <4>1, <4>4
      <4>6. [after EXCEPT ![k] = [after[k] EXCEPT !.command = command]] = after
        BY <2>3, <4>1, <4>2, <4>5
      <4>7. QED
        BY <4>2, <4>3, <4>6 DEF WithCommand
    <3>3. QED
      BY <3>1, <3>2
  <2>10. QED
    BY <2>3, <2>5, <2>6, <2>7, <2>8, <2>9 DEF OtherOptions
<1>4. QED
  BY <1>2, <1>3

(* The kubelet's unit: its command is as it should be, the hostname is     *)
(* set, the other options are as they were, and all of it stays.           *)
LEMMA KubeletEnsured ==
  ASSUME NEW options, Commanded(options, "ExecStart")
  PROVE  LET after == EnsureKubeletServiceUnitOptions(options) IN
         /\ IsExternal("kubelet", options, after)
         /\ EnsureKubeletServiceUnitOptions(after) = after
<1> DEFINE name == "ExecStart"
           command == Command(options, name)
           args == ensureKubeletCommandLineArgs(command)
           changed == WithCommand(options, name, args)
           after == EnsureUnitOption(changed, SetHostname)
<1>1. EnsureKubeletServiceUnitOptions(options) = after
  BY DEF EnsureKubeletServiceUnitOptions
<1>2. SetHostname.name # name
  BY DEF SetHostname
<1>3. /\ Commanded(changed, name)
      /\ OtherOptions(changed) = OtherOptions(options)
      /\ \A i \in OtherOptions(options) : changed[i] = options[i]
      /\ CommandsKept(options, changed, name)
      /\ \A c \in CommandsOf(changed, name) :
           /\ Gives(c, Flag("--cloud-provider", "external"))
           /\ ensureKubeletCommandLineArgs(c) = c
      /\ \A c \in CommandsOf(changed, name) : WithCommand(changed, name, c) = changed
  <2>1. CASE Lacks(options, name)
    <3>1. changed = options /\ CommandsOf(options, name) = {}
      BY <2>1, WithoutCommand
    <3>2. QED
      BY <3>1 DEF CommandsKept
  <2>2. CASE ~Lacks(options, name)
    <3>1. /\ Command(changed, name) = args /\ CommandsOf(changed, name) = {args}
          /\ Unique(command, CloudFlags)
          /\ WithCommand(changed, name, args) = changed
          /\ Kept(options, changed, {name})
      BY <2>2, CommandGiven
    <3>2. /\ Gives(args, Flag("--cloud-provider", "external"))
          /\ Kept(command, args, CloudFlags)
          /\ ensureKubeletCommandLineArgs(args) = args
          /\ Unique(args, CloudFlags)
      BY <3>1, KubeletArgs
    <3>3. CommandsKept(options, changed, name)
      BY <2>2, <3>2, CommandRewritten
    <3>4. /\ Commanded(changed, name)
          /\ DOMAIN changed = DOMAIN options
          /\ \A i \in DOMAIN options : changed[i].name = options[i].name
          /\ \A i \in DOMAIN options : options[i].name # name => changed[i] = options[i]
      BY <3>2, CommandAlone
    <3>5. OtherOptions(changed) = OtherOptions(options)
      BY <3>4 DEF OtherOptions
    <3>6. \A i \in OtherOptions(options) : changed[i] = options[i]
      BY <3>4 DEF OtherOptions
    <3>7. QED
      BY <3>1, <3>2, <3>3, <3>4, <3>5, <3>6
  <2>3. QED
    BY <2>1, <2>2
<1>4. /\ Commanded(after, name) /\ Contains(after, SetHostname)
      /\ CommandsOf(after, name) = CommandsOf(changed, name)
      /\ OtherOptions(after) = OtherOptions(changed)
      /\ \A i \in OtherOptions(changed) : after[i] = changed[i]
      /\ \A c : WithCommand(changed, name, c) = changed => WithCommand(after, name, c) = after
  BY <1>3, HostnameSet
<1> HIDE DEF changed, after
<1>5. EnsureKubeletServiceUnitOptions(after) = after
  <2>1. WithCommand(after, name, ensureKubeletCommandLineArgs(Command(after, name))) = after
    <3>1. CASE Lacks(after, name)
      BY <1>4, <3>1, WithoutCommand
    <3>2. CASE ~Lacks(after, name)
      <4>1. CommandsOf(after, name) = {Command(after, name)}
        BY <1>4, <3>2, CommandGiven
      <4>2. ensureKubeletCommandLineArgs(Command(after, name)) = Command(after, name)
        BY <1>3, <1>4, <4>1
      <4>3. QED
        BY <1>3, <1>4, <4>1, <4>2
    <3>3. QED
      BY <3>1, <3>2
  <2>2. QED
    BY <1>4, <2>1 DEF EnsureKubeletServiceUnitOptions, EnsureUnitOption
<1>6. IsExternal("kubelet", options, after)
  <2>1. SameItems(options, OtherOptions(options), after, OtherOptions(after))
    <3>1. OtherOptions(options) \in SUBSET Nat
      BY DEF Commanded, Unique, OtherOptions
    <3>2. QED
      BY <1>3, <1>4, <3>1, SamePlaces
  <2>2. CommandsKept(options, after, "ExecStart")
    BY <1>3, <1>4 DEF CommandsKept
  <2>3. QED
    BY <1>3, <1>4, <2>1, <2>2 DEF IsExternal
<1>7. QED
  BY <1>1, <1>5, <1>6

-----------------------------------------------------------------------------
(* Whatever Gardener writes, the webhook makes external at once.           *)
LEMMA WrittenIsEnsured ==
  ASSUME NEW kind \in Kinds, NEW object \in Written[kind]
  PROVE  /\ IsExternal(kind, object, Ensure(kind, object))
         /\ Ensure(kind, Ensure(kind, object)) = Ensure(kind, object)
<1>1. CASE kind = "kube-apiserver"
  <2>1. "containers" \in DOMAIN object /\ Commanded(object.containers, "kube-apiserver")
    BY <1>1, WrittenOnceAssumption
  <2>2. QED
    BY <1>1, <2>1, APIServerEnsured DEF Ensure
<1>2. CASE kind = "kube-controller-manager"
  <2>1. "containers" \in DOMAIN object /\ Commanded(object.containers, "kube-controller-manager")
    BY <1>2, WrittenOnceAssumption
  <2>2. QED
    BY <1>2, <2>1, ControllerManagerEnsured DEF Ensure
<1>3. CASE kind = "machine-controller-manager"
  <2>1. Unique(object.containers, {Sidecar}) /\ Unique(object.volumes, {"cloudprovider"})
    BY <1>3, WrittenOnceAssumption
  <2>2. QED
    BY <1>3, <2>1, MachineControllerManagerEnsured DEF Ensure
<1>4. CASE kind = "vpa"
  <2>1. Unique(object, {Sidecar})
    BY <1>4, WrittenOnceAssumption
  <2>2. QED
    BY <1>4, <2>1, VPAEnsured DEF Ensure
<1>5. CASE kind = "kubelet"
  <2>1. Commanded(object, "ExecStart")
    BY <1>5, WrittenOnceAssumption
  <2>2. QED
    BY <1>5, <2>1, KubeletEnsured DEF Ensure
<1>6. QED
  BY <1>1, <1>2, <1>3, <1>4, <1>5 DEF Kinds

(* A component is stored as the webhook ensured what Gardener wrote.       *)
StoredAsEnsured ==
  component.kind \in Kinds =>
    /\ component.written \in Written[component.kind]
    /\ component.stored = Ensure(component.kind, component.written)

(* What is stored of a component is what the webhook made of it.           *)
LEMMA ComponentsAreEnsured == EnsurerSpec => []StoredAsEnsured
<1>1. EnsurerInit => StoredAsEnsured
  BY DEF EnsurerInit, StoredAsEnsured, Kinds
<1>2. StoredAsEnsured /\ [EnsurerNext]_component => StoredAsEnsured'
  <2> SUFFICES ASSUME StoredAsEnsured, [EnsurerNext]_component
               PROVE  StoredAsEnsured'
    OBVIOUS
  <2>1. ASSUME NEW kind \in Kinds, NEW object \in Written[kind], WriteComponent(kind, object)
        PROVE  StoredAsEnsured'
    <3>1. /\ component'.kind = kind /\ component'.written = object
          /\ component'.stored = Ensure(kind, object)
      BY <2>1 DEF WriteComponent
    <3>2. QED
      BY <3>1 DEF StoredAsEnsured
  <2>2. CASE UNCHANGED component
    BY <2>2 DEF StoredAsEnsured
  <2>3. QED
    BY <2>1, <2>2 DEF EnsurerNext
<1>3. QED
  BY <1>1, <1>2, PTL DEF EnsurerSpec

(* A component written as it was read is stored as it was read.            *)
THEOREM MutationsAreStable == EnsurerSpec => []MutationIsStable
<1>1. StoredAsEnsured => MutationIsStable
  BY WrittenIsEnsured DEF StoredAsEnsured, MutationIsStable
<1>2. QED
  BY <1>1, ComponentsAreEnsured, PTL

(* Every component stored works with the external cloud provider, and      *)
(* keeps all else that Gardener wrote of it.                               *)
THEOREM ComponentsAreExternal == EnsurerSpec => []CloudProviderIsExternal
<1>1. StoredAsEnsured => CloudProviderIsExternal
  BY WrittenIsEnsured DEF StoredAsEnsured, CloudProviderIsExternal
<1>2. QED
  BY <1>1, ComponentsAreEnsured, PTL
===============================================================================
