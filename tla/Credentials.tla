------------------------------ MODULE Credentials ------------------------------
(***************************************************************************)
(* The credentials of a shoot on their way from the secret of its owner in *)
(* the garden (pkg/admission/validator, pkg/apis/ironcore/validation)      *)
(* through the cloudprovider secret in the seed (pkg/webhook/cloudprovider)*)
(* to the project the infrastructure lies in (pkg/ironcore/clientutils.go, *)
(* pkg/controller/infrastructure).                                         *)
(*                                                                         *)
(* Gardener's part is external: its API server stores a binding some time  *)
(* after the webhook has looked at the secret, it labels the secret some   *)
(* time after that, and the gardenlet's flow takes a copy of the secret   *)
(* and of the CloudProfile, writes the cloudprovider secret from it, and   *)
(* then asks for the infrastructure.                                       *)
(*                                                                         *)
(* A definition whose name ends in Bug is a plausible mistake in the       *)
(* definition that follows it; nothing uses it but the mutation checks.    *)
(***************************************************************************)
CONSTANTS
  Datas,           \* what a secret may hold: its fields, Missing if absent
  Missing,         \* no field, no secret, no flow, no run
  NamespaceNames,  \* what ValidateNamespaceName accepts
  Projects,        \* namespaces there are in ironcore
  Servers          \* addresses of the shoot's region; Missing: not offered

ASSUME DatasAssumption ==
  /\ \A d \in Datas :
       DOMAIN d = {"token", "namespace", "username", "kubeconfig"}
  /\ Missing \notin Datas
  /\ Missing \notin NamespaceNames \cup Projects
  /\ Missing \notin Servers

VARIABLES
  secret,    \* the owner's secret
  labelled,  \* it has the label the webhook for secrets selects by
  binding,   \* to it: "none", "reviewed" by the webhook, "stored"
  regionServer, \* the server of the region in the CloudProfile
  demand,    \* the shoot: "none", "wanted", "deleting"
  flow,      \* what the gardenlet's flow has taken a copy of
  cloudprovider, \* the cloudprovider secret in the seed
  order,     \* the Infrastructure: "none", "wanted", "deleting", "gone"
  task,      \* a run of its actuator: the project, and whether it deletes
  created,   \* projects with objects of the shoot
  unseen,    \* history: no webhook saw its data, written since the review
  left       \* history: projects the cloudprovider secret pointed to before

gardenVars      == <<secret, labelled, binding, regionServer, demand>>
seedVars        == <<flow, cloudprovider, order, task, created>>
credentialsVars == <<gardenVars, seedVars, unseen, left>>

CredentialsInit ==
  /\ secret = Missing /\ labelled = FALSE /\ binding = "none"
  /\ regionServer = Missing /\ demand = "none"
  /\ flow = Missing /\ cloudprovider = Missing
  /\ order = "none" /\ task = Missing /\ created = {}
  /\ unseen = FALSE /\ left = {}

-----------------------------------------------------------------------------
(* What the admission asks of a secret. *)
ValidateCloudProviderSecret(data) ==
  /\ data.token # Missing
  /\ data.namespace # Missing
  /\ data.username # Missing
  /\ data.namespace \in NamespaceNames

validateSecret_Bug(new, old) == old # Missing \/ ValidateCloudProviderSecret(new)

(* The webhook for secrets lets pass whatever leaves the data alone. *)
validateSecret(new, old) == new = old \/ ValidateCloudProviderSecret(new)

(***************************************************************************)
(* The owner writes the secret and may set or remove the label with it.    *)
(* The API server calls the webhook if the secret has the label before or  *)
(* after that, and so never for a secret no binding was made for.          *)
(***************************************************************************)
WriteSecret(data, label) ==
  /\ <<data, label>> # <<secret, labelled>>
  /\ labelled \/ label => validateSecret(data, secret)
  /\ secret' = data /\ labelled' = label
  /\ unseen' = IF data = secret THEN unseen
               ELSE binding # "none" /\ ~labelled /\ ~label
  /\ UNCHANGED <<binding, regionServer, demand, seedVars, left>>

(* A binding is validated with its secret when it is made, never later.    *)
(* The webhook reads the secret itself, past all caches.                   *)
validateBinding(data) == data # Missing /\ ValidateCloudProviderSecret(data)

ReviewBinding ==
  /\ binding = "none"
  /\ validateBinding(secret)
  /\ binding' = "reviewed"
  /\ unseen'  = FALSE
  /\ UNCHANGED <<secret, labelled, regionServer, demand, seedVars, left>>

(* The API server stores the binding after the webhook's answer. *)
StoreBinding ==
  /\ binding = "reviewed"
  /\ binding' = "stored"
  /\ UNCHANGED <<secret, labelled, regionServer, demand, seedVars, unseen, left>>

(* Or it does not: another admission denies it, or the request times out. *)
RefuseBinding ==
  /\ binding = "reviewed"
  /\ binding' = "none"
  /\ UNCHANGED <<secret, labelled, regionServer, demand, seedVars, unseen, left>>

(* Gardener labels the secret of a binding; the data is what it was. *)
LabelSecret ==
  /\ binding = "stored" /\ ~labelled
  /\ validateSecret(secret, secret)
  /\ labelled' = TRUE
  /\ UNCHANGED <<secret, binding, regionServer, demand, seedVars, unseen, left>>

UpdateRegion(server) ==
  /\ server # regionServer
  /\ regionServer' = server
  /\ UNCHANGED <<secret, labelled, binding, demand, seedVars, unseen, left>>

Demand(what) ==
  /\ \/ demand = "none" /\ what = "wanted" /\ binding = "stored"
     \/ demand = "wanted" /\ what = "deleting"
  /\ demand' = what
  /\ UNCHANGED <<secret, labelled, binding, regionServer, seedVars, unseen, left>>

-----------------------------------------------------------------------------
(* The flow writes the Cluster resource and reads the owner's secret. *)
BeginFlow ==
  /\ flow = Missing /\ demand # "none" /\ order # "gone"
  /\ flow' = [data |-> secret, server |-> regionServer, last |-> demand = "deleting"]
  /\ UNCHANGED <<gardenVars, cloudprovider, order, task, created, unseen, left>>

EnsureCloudProviderSecret_Bug(data, server) ==
  IF data.kubeconfig # Missing THEN data
  ELSE [data EXCEPT !.kubeconfig = [server    |-> server,
                                    token     |-> data.token,
                                    username  |-> data.username,
                                    namespace |-> data.namespace]]

(* The mutating webhook makes the kubeconfig, whether there is one or not. *)
EnsureCloudProviderSecret(data, server) ==
  [data EXCEPT !.kubeconfig = [server    |-> server,
                               token     |-> data.token,
                               username  |-> data.username,
                               namespace |-> data.namespace]]

ASSUME WrittenAssumption ==
  \A data \in Datas, server \in Servers : EnsureCloudProviderSecret(data, server) # Missing

(* It fails for want of a field or of the region; it checks nothing else.  *)
Ensurable(data, server) ==
  /\ data # Missing
  /\ data.token # Missing /\ data.namespace # Missing /\ data.username # Missing
  /\ server # Missing

DeployCloudProviderSecret ==
  /\ flow # Missing
  /\ Ensurable(flow.data, flow.server)
  /\ cloudprovider' = EnsureCloudProviderSecret(flow.data, flow.server)
  /\ left'  = IF cloudprovider = Missing THEN left
              ELSE left \cup ({cloudprovider.namespace} \ {flow.data.namespace})
  /\ order' = IF flow.last THEN "deleting" ELSE "wanted"
  /\ flow'  = Missing
  /\ UNCHANGED <<gardenVars, task, created, unseen>>

(* The webhook denies it, or the gardenlet fails or restarts. *)
DropFlow ==
  /\ flow # Missing
  /\ flow' = Missing
  /\ UNCHANGED <<gardenVars, cloudprovider, order, task, created, unseen, left>>

-----------------------------------------------------------------------------
(* GetIroncoreClientAndNamespaceFromCloudProviderSecret *)
GetNamespaceFromCloudProviderSecret == cloudprovider.namespace

(* Each run of the infrastructure actuator looks up where it works. *)
BeginTask ==
  /\ task = Missing /\ order \in {"wanted", "deleting"}
  /\ task' = [project |-> GetNamespaceFromCloudProviderSecret,
              last    |-> order = "deleting"]
  /\ UNCHANGED <<gardenVars, flow, cloudprovider, order, created, unseen, left>>

(* Nothing can be made in a namespace that does not exist. *)
ReconcileTask ==
  /\ task # Missing /\ ~task.last
  /\ task.project \in Projects
  /\ created' = created \cup {task.project}
  /\ task'    = Missing
  /\ UNCHANGED <<gardenVars, flow, cloudprovider, order, unseen, left>>

DeleteTask_Bug ==
  /\ task # Missing /\ task.last
  /\ created' \in {created, created \ {task.project}}
  /\ order'   = "gone"
  /\ task'    = Missing
  /\ UNCHANGED <<gardenVars, flow, cloudprovider, unseen, left>>

(* What is not found there, or whose namespace is not, counts as deleted. *)
DeleteTask ==
  /\ task # Missing /\ task.last
  /\ created' = created \ {task.project}
  /\ order'   = "gone"
  /\ task'    = Missing
  /\ UNCHANGED <<gardenVars, flow, cloudprovider, unseen, left>>

(* A call fails or the controller restarts; objects may be left behind. *)
FailTask ==
  /\ task # Missing
  /\ created' \in {created} \cup
       (IF task.last THEN {} ELSE {created \cup (Projects \cap {task.project})})
  /\ task' = Missing
  /\ UNCHANGED <<gardenVars, flow, cloudprovider, order, unseen, left>>

-----------------------------------------------------------------------------
CredentialsNext ==
  \/ \E data \in Datas, label \in BOOLEAN : WriteSecret(data, label)
  \/ ReviewBinding \/ StoreBinding \/ RefuseBinding \/ LabelSecret
  \/ \E server \in Servers \cup {Missing} : UpdateRegion(server)
  \/ \E what \in {"wanted", "deleting"} : Demand(what)
  \/ BeginFlow \/ DeployCloudProviderSecret \/ DropFlow
  \/ BeginTask \/ ReconcileTask \/ DeleteTask \/ FailTask

CredentialsSpec == CredentialsInit /\ [][CredentialsNext]_credentialsVars

(***************************************************************************)
(* Fairness: the gardenlet reconciles a shoot periodically, a flow ends,   *)
(* and it does not fail for ever for other reasons than the webhook's.     *)
(***************************************************************************)
FlowFails ==
  /\ flow # Missing /\ flow' = Missing
  /\ Ensurable(flow.data, flow.server)
  /\ cloudprovider' # EnsureCloudProviderSecret(flow.data, flow.server)

CredentialsFairness ==
  /\ WF_credentialsVars(BeginFlow)
  /\ WF_credentialsVars(DeployCloudProviderSecret \/ DropFlow)
  /\ <>[][~FlowFails]_credentialsVars

-----------------------------------------------------------------------------
(***************************************************************************)
(* A secret with a binding is valid, although the binding is stored some   *)
(* time after its secret was read, and no webhook sees the writes of an    *)
(* unlabelled secret: it takes such a write, made since the webhook read   *)
(* the secret and not overwritten by one that was validated, to break it.  *)
(***************************************************************************)
AcceptedStaysValid == binding = "stored" /\ ~unseen => validateBinding(secret)

(***************************************************************************)
(* The kubeconfig the controllers connect with is for the project and the  *)
(* account the secret itself names, none of which is missing, and for a    *)
(* server of the region, whatever the owner has put into the secret and    *)
(* whether or not an admission has seen it.                                *)
(***************************************************************************)
CredentialsAreWhole ==
  cloudprovider # Missing =>
    LET kubeconfig == cloudprovider.kubeconfig IN
      /\ kubeconfig.server    \in Servers
      /\ kubeconfig.token     = cloudprovider.token
      /\ kubeconfig.username  = cloudprovider.username
      /\ kubeconfig.namespace = cloudprovider.namespace
      /\ Missing \notin {kubeconfig.token, kubeconfig.username, kubeconfig.namespace}

(***************************************************************************)
(* When the infrastructure of a shoot is gone, objects of it can only be   *)
(* left in projects its credentials were moved away from: every run works  *)
(* in the project of that moment and in no other.                          *)
(***************************************************************************)
LeftOnlyInFormerProjects ==
  order = "gone" => created \subseteq left

Offered ==
  /\ demand = "wanted" /\ regionServer # Missing
  /\ secret # Missing /\ ValidateCloudProviderSecret(secret)

(***************************************************************************)
(* Valid credentials for a region on offer reach the seed in the end, and  *)
(* stay there, however often either of them has changed before.            *)
(***************************************************************************)
CredentialsReachTheSeed ==
  <>[]Offered
    => \/ []<><<secret' # secret \/ regionServer' # regionServer>>_credentialsVars
       \/ <>[](/\ Offered
               /\ cloudprovider = [secret EXCEPT !.kubeconfig =
                                     [server    |-> regionServer,
                                      token     |-> secret.token,
                                      username  |-> secret.username,
                                      namespace |-> secret.namespace]])
=============================================================================
