-------------------------- MODULE ControlPlaneEnsurer --------------------------
(***************************************************************************)
(* The control plane webhook: what is stored of the components Gardener    *)
(* writes for a shoot (pkg/webhook/controlplane).  Gardener writes them    *)
(* over and over, at times starting from what it reads, and every write    *)
(* passes through the ensurer.                                             *)
(*                                                                         *)
(* The helpers of Gardener's webhook library are external.  All of them    *)
(* look for the first item of a list by its name, so every item is a       *)
(* record with a name: a flag and its value, a container, a mount, a       *)
(* volume, a unit option, a container policy.                              *)
(*                                                                         *)
(* A definition whose name ends in Bug is a plausible mistake in the       *)
(* definition that follows it; nothing uses it but the mutation checks.    *)
(***************************************************************************)
EXTENDS SequencesExt

CONSTANT Written  \* kind of component -> the objects Gardener may write

Kinds == {"kube-apiserver", "kube-controller-manager",
          "machine-controller-manager", "vpa", "kubelet"}

(* A list with at most one item of each of the names. *)
Unique(items, names) ==
  /\ items \in Seq(ToSet(items))
  /\ \A i, j \in DOMAIN items :
       items[i].name = items[j].name /\ items[i].name \in names => i = j

CloudFlags == {"--cloud-provider", "--cloud-config"}

(* At most one item has the name, and its flags for the cloud are given     *)
(* once.                                                                   *)
Commanded(items, name) ==
  /\ Unique(items, {name})
  /\ \A i \in DOMAIN items : items[i].name = name =>
       "command" \in DOMAIN items[i] /\ Unique(items[i].command, CloudFlags)

Sidecar == "machine-controller-manager-provider-ironcore"

(* Gardener gives a container, a flag, a volume, a policy and ExecStart     *)
(* once; only the other unit options may come several times.               *)
ASSUME WrittenOnceAssumption ==
  /\ DOMAIN Written = Kinds
  /\ \A kind \in {"kube-apiserver", "kube-controller-manager"} : \A d \in Written[kind] :
       "containers" \in DOMAIN d /\ Commanded(d.containers, kind)
  /\ \A d \in Written["machine-controller-manager"] :
       Unique(d.containers, {Sidecar}) /\ Unique(d.volumes, {"cloudprovider"})
  /\ \A policies \in Written["vpa"] : Unique(policies, {Sidecar})
  /\ \A options \in Written["kubelet"] : Commanded(options, "ExecStart")

VARIABLE component  \* its kind, and it as Gardener wrote it and as it is stored

EnsurerInit == component = [kind |-> "none", written |-> <<>>, stored |-> <<>>]

-----------------------------------------------------------------------------
(* The first item of that name, or 0. *)
Index(items, name) == SelectInSeq(items, LAMBDA item : item.name = name)

EnsureItem_Bug(items, item) == Append(items, item)

(* EnsureStringWithPrefix, EnsureContainerWithName, and so on. *)
EnsureItem(items, item) ==
  IF Index(items, item.name) = 0 THEN Append(items, item)
  ELSE ReplaceAt(items, Index(items, item.name), item)

(* EnsureNoStringWithPrefix *)
EnsureNoItem(items, name) ==
  IF Index(items, name) = 0 THEN items ELSE RemoveAt(items, Index(items, name))

(* EnsureUnitOption adds the option unless there is the very same. *)
EnsureUnitOption(options, option) ==
  IF Contains(options, option) THEN options ELSE Append(options, option)

Flag(name, value) == [name |-> name, value |-> value]

-----------------------------------------------------------------------------
Command(items, name) ==
  IF Index(items, name) = 0 THEN <<>> ELSE items[Index(items, name)].command

(* Only the container or option of that name is changed, if there is one.  *)
WithCommand(items, name, command) ==
  IF Index(items, name) = 0 THEN items
  ELSE [items EXCEPT ![Index(items, name)].command = command]

ensureKubeAPIServerCommandLineArgs(command) ==
  EnsureNoItem(EnsureNoItem(command, "--cloud-provider"), "--cloud-config")

ensureKubeControllerManagerCommandLineArgs_Bug(command) ==
  EnsureItem(command, Flag("--cloud-provider", "external"))

ensureKubeControllerManagerCommandLineArgs(command) ==
  EnsureNoItem(EnsureItem(command, Flag("--cloud-provider", "external")), "--cloud-config")

ensureKubeletCommandLineArgs(command) ==
  EnsureItem(command, Flag("--cloud-provider", "external"))

CloudProviderMount == [name |-> "cloudprovider", at |-> "/etc/ironcore"]

(* The side-car is made anew from Gardener's template, which is external.  *)
SidecarContainer ==
  [name    |-> Sidecar,
   command |-> EnsureItem(<<>>, Flag("--ironcore-kubeconfig", "/etc/ironcore/kubeconfig")),
   mounts  |-> EnsureItem(<<>>, CloudProviderMount)]

EnsureKubeAPIServerDeployment(d) ==
  [d EXCEPT !.containers =
     WithCommand(@, "kube-apiserver",
                 ensureKubeAPIServerCommandLineArgs(Command(@, "kube-apiserver")))]

EnsureKubeControllerManagerDeployment(d) ==
  [d EXCEPT !.containers =
     WithCommand(@, "kube-controller-manager",
                 ensureKubeControllerManagerCommandLineArgs(Command(@, "kube-controller-manager")))]

EnsureMachineControllerManagerDeployment(d) ==
  [containers |-> EnsureItem(d.containers, SidecarContainer),
   volumes    |-> EnsureItem(d.volumes, [name |-> "cloudprovider", secret |-> "cloudprovider"])]

EnsureMachineControllerManagerVPA(policies) == EnsureItem(policies, [name |-> Sidecar])

SetHostname == [name |-> "ExecStartPre", command |-> "hostnamectl set-hostname"]

EnsureKubeletServiceUnitOptions(options) ==
  EnsureUnitOption(WithCommand(options, "ExecStart",
                               ensureKubeletCommandLineArgs(Command(options, "ExecStart"))),
                   SetHostname)

Ensure(kind, object) ==
  CASE kind = "kube-apiserver"             -> EnsureKubeAPIServerDeployment(object)
    [] kind = "kube-controller-manager"    -> EnsureKubeControllerManagerDeployment(object)
    [] kind = "machine-controller-manager" -> EnsureMachineControllerManagerDeployment(object)
    [] kind = "vpa"                        -> EnsureMachineControllerManagerVPA(object)
    [] kind = "kubelet"                    -> EnsureKubeletServiceUnitOptions(object)

-----------------------------------------------------------------------------
WriteComponent(kind, object) ==
  component' = [kind |-> kind, written |-> object, stored |-> Ensure(kind, object)]

EnsurerNext ==
  \E kind \in Kinds : \E object \in Written[kind] : WriteComponent(kind, object)

EnsurerSpec == EnsurerInit /\ [][EnsurerNext]_component

-----------------------------------------------------------------------------
(***************************************************************************)
(* Gardener may write what it has read: the webhook changes nothing then,  *)
(* or every write would roll the component anew.                           *)
(***************************************************************************)
MutationIsStable ==
  component.kind \in Kinds => Ensure(component.kind, component.stored) = component.stored

Lacks(command, name) == \A i \in DOMAIN command : command[i].name # name

(* The last one of several flags of a name counts. *)
Gives(command, flag) ==
  \E i \in DOMAIN command :
    command[i] = flag /\ \A j \in DOMAIN command : j > i => command[j].name # flag.name

CommandsOf(items, name) ==
  {items[i].command : i \in {j \in DOMAIN items : items[j].name = name}}

(* The items at some places of a list are those at some places of another, *)
(* in the same order.                                                      *)
SameItems(before, places, after, kept) ==
  \E from \in [kept -> places] :
    /\ \A p \in places : \E k \in kept : from[k] = p
    /\ \A k \in kept : after[k] = before[from[k]]
    /\ \A k, l \in kept : k < l => from[k] < from[l]

OfOtherNames(items, names) == {i \in DOMAIN items : items[i].name \notin names}

Kept(before, after, names) ==
  SameItems(before, OfOtherNames(before, names), after, OfOtherNames(after, names))

CommandsKept(before, after, name) ==
  \A command \in CommandsOf(after, name) :
    \E written \in CommandsOf(before, name) : Kept(written, command, CloudFlags)

OtherOptions(options) ==
  {i \in DOMAIN options : options[i].name # "ExecStart" /\ options[i] # SetHostname}

IsExternal(kind, before, after) ==
  CASE kind = "kube-apiserver" ->
         /\ \A command \in CommandsOf(after.containers, kind) :
              Lacks(command, "--cloud-provider") /\ Lacks(command, "--cloud-config")
         /\ CommandsKept(before.containers, after.containers, kind)
         /\ Kept(before.containers, after.containers, {kind})
    [] kind = "kube-controller-manager" ->
         /\ \A command \in CommandsOf(after.containers, kind) :
              /\ Gives(command, Flag("--cloud-provider", "external"))
              /\ Lacks(command, "--cloud-config")
         /\ CommandsKept(before.containers, after.containers, kind)
         /\ Kept(before.containers, after.containers, {kind})
    [] kind = "machine-controller-manager" ->
         /\ Kept(before.containers, after.containers, {Sidecar})
         /\ Kept(before.volumes, after.volumes, {"cloudprovider"})
         /\ \E i \in DOMAIN after.containers :
              /\ after.containers[i].name = Sidecar
              /\ \A mount \in ToSet(after.containers[i].mounts) :
                   \E volume \in ToSet(after.volumes) : volume.name = mount.name
    [] kind = "vpa" -> Kept(before, after, {Sidecar}) /\ ~Lacks(after, Sidecar)
    [] kind = "kubelet" ->
         /\ \A command \in CommandsOf(after, "ExecStart") :
              Gives(command, Flag("--cloud-provider", "external"))
         /\ CommandsKept(before, after, "ExecStart")
         /\ SameItems(before, OtherOptions(before), after, OtherOptions(after))
         /\ Contains(after, SetHostname)

(***************************************************************************)
(* What is stored works with an external cloud provider, whatever Gardener *)
(* wrote, and everything else Gardener wrote is as it was: its other       *)
(* containers, flags, volumes, policies and options.                       *)
(***************************************************************************)
CloudProviderIsExternal ==
  component.kind \in Kinds => IsExternal(component.kind, component.written, component.stored)
=============================================================================
