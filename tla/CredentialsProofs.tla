--------------------------- MODULE CredentialsProofs ---------------------------
(***************************************************************************)
(* Proofs about Credentials: for any secrets, projects and regions what    *)
(* the admission has seen stays valid, the kubeconfig in the seed is made  *)
(* of one secret and one region, and a deletion leaves objects only where  *)
(* the credentials do not point to any more.                               *)
(***************************************************************************)
EXTENDS Credentials, TLAPS

(***************************************************************************)
(* The invariant begins with the review: from the moment the webhook has   *)
(* read the secret until the binding is stored, and ever after.            *)
(***************************************************************************)
ReviewedStaysValid == binding # "none" /\ ~unseen => validateBinding(secret)

(* A secret with a binding is valid, unless its data was written without a *)
(* label since the webhook read it, before or after the binding was stored.*)
THEOREM SecretsStayValid == CredentialsSpec => []AcceptedStaysValid
<1>1. CredentialsInit => ReviewedStaysValid
  BY DEF CredentialsInit, ReviewedStaysValid
<1>2. ReviewedStaysValid /\ [CredentialsNext]_credentialsVars => ReviewedStaysValid'
  <2> SUFFICES ASSUME ReviewedStaysValid, [CredentialsNext]_credentialsVars
               PROVE  ReviewedStaysValid'
    OBVIOUS
  <2> USE DEF ReviewedStaysValid
  <2>1. ASSUME NEW data \in Datas, NEW label \in BOOLEAN, WriteSecret(data, label)
        PROVE  ReviewedStaysValid'
    <3>1. CASE data = secret
      BY <2>1, <3>1 DEF WriteSecret
    <3>2. CASE data # secret
      <4>1. data # Missing
        BY DatasAssumption
      <4>2. binding' # "none" /\ ~unseen' => labelled \/ label
        BY <2>1, <3>2, Zenon DEF WriteSecret
      <4>3. binding' # "none" /\ ~unseen' => ValidateCloudProviderSecret(data)
        BY <2>1, <3>2, <4>2 DEF WriteSecret, validateSecret
      <4>4. secret' = data
        BY <2>1 DEF WriteSecret
      <4>5. QED
        BY <4>1, <4>3, <4>4 DEF validateBinding, ValidateCloudProviderSecret
    <3>3. QED
      BY <3>1, <3>2
  <2>2. CASE ReviewBinding \/ StoreBinding \/ RefuseBinding
    BY <2>2 DEF ReviewBinding, StoreBinding, RefuseBinding
  <2>3. CASE LabelSecret
    BY <2>3 DEF LabelSecret
  <2>4. CASE \/ \E server \in Servers \cup {Missing} : UpdateRegion(server)
             \/ \E what \in {"wanted", "deleting"} : Demand(what)
    BY <2>4 DEF UpdateRegion, Demand
  <2>5. CASE BeginFlow \/ DeployCloudProviderSecret \/ DropFlow
    BY <2>5 DEF BeginFlow, DeployCloudProviderSecret, DropFlow, gardenVars
  <2>6. CASE BeginTask \/ ReconcileTask \/ DeleteTask \/ FailTask
    BY <2>6 DEF BeginTask, ReconcileTask, DeleteTask, FailTask, gardenVars
  <2>7. CASE UNCHANGED credentialsVars
    BY <2>7 DEF credentialsVars, gardenVars
  <2>8. QED
    BY <2>1, <2>2, <2>3, <2>4, <2>5, <2>6, <2>7 DEF CredentialsNext
<1>3. ReviewedStaysValid => AcceptedStaysValid
  BY DEF ReviewedStaysValid, AcceptedStaysValid
<1>4. QED
  BY <1>1, <1>2, <1>3, PTL DEF CredentialsSpec

-----------------------------------------------------------------------------
(***************************************************************************)
(* What a flow has taken, and the fields of what the webhook makes of it.  *)
(***************************************************************************)
FlowType ==
  /\ secret \in Datas \cup {Missing}
  /\ regionServer \in Servers \cup {Missing}
  /\ flow # Missing => /\ flow.data \in Datas \cup {Missing}
                       /\ flow.server \in Servers \cup {Missing}

LEMMA FlowNext == FlowType /\ [CredentialsNext]_credentialsVars => FlowType'
<1> SUFFICES ASSUME FlowType, [CredentialsNext]_credentialsVars PROVE FlowType'
  OBVIOUS
<1> USE DEF FlowType, gardenVars, seedVars
<1>1. CASE \/ \E data \in Datas, label \in BOOLEAN : WriteSecret(data, label)
           \/ ReviewBinding \/ StoreBinding \/ RefuseBinding \/ LabelSecret
  BY <1>1 DEF WriteSecret, ReviewBinding, StoreBinding, RefuseBinding, LabelSecret
<1>2. CASE \/ \E server \in Servers \cup {Missing} : UpdateRegion(server)
           \/ \E what \in {"wanted", "deleting"} : Demand(what)
  BY <1>2 DEF UpdateRegion, Demand
<1>3. CASE BeginFlow \/ DeployCloudProviderSecret \/ DropFlow
  BY <1>3 DEF BeginFlow, DeployCloudProviderSecret, DropFlow
<1>4. CASE BeginTask \/ ReconcileTask \/ DeleteTask \/ FailTask
  BY <1>4 DEF BeginTask, ReconcileTask, DeleteTask, FailTask
<1>5. CASE UNCHANGED credentialsVars
  BY <1>5 DEF credentialsVars
<1>6. QED
  BY <1>1, <1>2, <1>3, <1>4, <1>5 DEF CredentialsNext

(* What EnsureCloudProviderSecret changes of a secret, and what it keeps.  *)
LEMMA EnsuredFields ==
  ASSUME NEW data \in Datas, NEW server
  PROVE  LET ensured == EnsureCloudProviderSecret(data, server) IN
           /\ ensured.token     = data.token
           /\ ensured.username  = data.username
           /\ ensured.namespace = data.namespace
           /\ ensured.kubeconfig.server    = server
           /\ ensured.kubeconfig.token     = data.token
           /\ ensured.kubeconfig.username  = data.username
           /\ ensured.kubeconfig.namespace = data.namespace
<1>1. DOMAIN data = {"token", "namespace", "username", "kubeconfig"}
  BY DatasAssumption
<1>2. QED
  BY <1>1 DEF EnsureCloudProviderSecret

(* What is deployed was taken from a secret that has its fields. *)
LEMMA DeployedIsEnsured ==
  ASSUME FlowType, DeployCloudProviderSecret
  PROVE  /\ flow.data \in Datas /\ flow.server \in Servers
         /\ cloudprovider' = EnsureCloudProviderSecret(flow.data, flow.server)
         /\ cloudprovider' # Missing
         /\ cloudprovider'.namespace = flow.data.namespace
         /\ Missing \notin {flow.data.token, flow.data.username, flow.data.namespace}
<1>1. flow.data \in Datas /\ flow.server \in Servers
  BY DEF FlowType, DeployCloudProviderSecret, Ensurable
<1>2. cloudprovider' = EnsureCloudProviderSecret(flow.data, flow.server)
  BY DEF DeployCloudProviderSecret
<1>3. Missing \notin {flow.data.token, flow.data.username, flow.data.namespace}
  BY DEF DeployCloudProviderSecret, Ensurable
<1>4. QED
  BY <1>1, <1>2, <1>3, WrittenAssumption, EnsuredFields

(* The kubeconfig in the seed is for the project and account beside it,    *)
(* none of them missing, and for a server of the region.                   *)
THEOREM KubeconfigIsWhole == CredentialsSpec => []CredentialsAreWhole
<1>1. CredentialsInit => FlowType /\ CredentialsAreWhole
  BY DEF CredentialsInit, FlowType, CredentialsAreWhole
<1>2. FlowType /\ CredentialsAreWhole /\ [CredentialsNext]_credentialsVars
        => CredentialsAreWhole'
  <2> SUFFICES ASSUME FlowType, CredentialsAreWhole, [CredentialsNext]_credentialsVars
               PROVE  CredentialsAreWhole'
    OBVIOUS
  <2>1. CASE DeployCloudProviderSecret
    BY <2>1, DeployedIsEnsured, EnsuredFields DEF CredentialsAreWhole
  <2>2. CASE UNCHANGED cloudprovider
    BY <2>2, Zenon DEF CredentialsAreWhole
  <2>3. DeployCloudProviderSecret \/ UNCHANGED cloudprovider
    BY DEF CredentialsNext, WriteSecret, ReviewBinding, StoreBinding, RefuseBinding, LabelSecret, UpdateRegion, Demand,
       BeginFlow, DropFlow, BeginTask, ReconcileTask, DeleteTask, FailTask,
       credentialsVars, seedVars
  <2>4. QED
    BY <2>1, <2>2, <2>3
<1>3. QED
  BY <1>1, <1>2, FlowNext, PTL DEF CredentialsSpec

-----------------------------------------------------------------------------
(***************************************************************************)
(* Where objects can be.  Between runs: in the project of the secret or in *)
(* former ones.  During a run the secret may move on, but the run stays in *)
(* its project, so all other objects are in former ones.                   *)
(***************************************************************************)
Located ==
  /\ cloudprovider = Missing => created = {} /\ task = Missing /\ order = "none"
  /\ task = Missing => created \subseteq left \cup {cloudprovider.namespace}
  /\ task # Missing => /\ created \subseteq left \cup {task.project}
                       /\ task.project \in left \cup {cloudprovider.namespace}
  /\ order = "gone" => task = Missing /\ created \subseteq left

LEMMA LocatedNext ==
  FlowType /\ Located /\ [CredentialsNext]_credentialsVars => Located'
<1> SUFFICES ASSUME FlowType, Located, [CredentialsNext]_credentialsVars PROVE Located'
  OBVIOUS
<1> USE DEF Located
<1>1. CASE \/ \E data \in Datas, label \in BOOLEAN : WriteSecret(data, label)
           \/ ReviewBinding \/ StoreBinding \/ RefuseBinding \/ LabelSecret
           \/ \E server \in Servers \cup {Missing} : UpdateRegion(server)
           \/ \E what \in {"wanted", "deleting"} : Demand(what)
  BY <1>1 DEF WriteSecret, ReviewBinding, StoreBinding, RefuseBinding, LabelSecret, UpdateRegion, Demand, seedVars
<1>2. CASE BeginFlow \/ DropFlow
  BY <1>2 DEF BeginFlow, DropFlow
<1>3. CASE DeployCloudProviderSecret
  <2>1. cloudprovider' # Missing /\ cloudprovider'.namespace = flow.data.namespace
    BY <1>3, DeployedIsEnsured
  <2>2. UNCHANGED <<task, created>> /\ order' \in {"wanted", "deleting"}
    BY <1>3 DEF DeployCloudProviderSecret
  <2>3. /\ left \subseteq left'
        /\ cloudprovider # Missing =>
             cloudprovider.namespace \in left' \cup {cloudprovider'.namespace}
    BY <1>3, <2>1 DEF DeployCloudProviderSecret
  <2>4. QED
    BY <2>1, <2>2, <2>3
<1>4. CASE BeginTask
  BY <1>4 DEF BeginTask, GetNamespaceFromCloudProviderSecret
<1>5. CASE ReconcileTask
  BY <1>5 DEF ReconcileTask
<1>6. CASE DeleteTask
  BY <1>6 DEF DeleteTask
<1>7. CASE FailTask
  BY <1>7 DEF FailTask
<1>8. CASE UNCHANGED credentialsVars
  BY <1>8 DEF credentialsVars, seedVars
<1>9. QED
  BY <1>1, <1>2, <1>3, <1>4, <1>5, <1>6, <1>7, <1>8 DEF CredentialsNext

(* What a deletion leaves lies in projects the credentials moved away from. *)
THEOREM LeftBehind == CredentialsSpec => []LeftOnlyInFormerProjects
<1>1. CredentialsInit => FlowType /\ Located
  BY DEF CredentialsInit, FlowType, Located
<1>2. Located => LeftOnlyInFormerProjects
  BY DEF Located, LeftOnlyInFormerProjects
<1>3. QED
  BY <1>1, <1>2, FlowNext, LocatedNext, PTL DEF CredentialsSpec
=============================================================================
