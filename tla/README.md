# TLA+ models of gardener-extension-provider-ironcore

The extension lets Gardener run shoot clusters on ironcore. Gardener writes
*extension resources* (Infrastructure, Worker, Bastion, BackupBucket, ...) into a
seed cluster; the extension's controllers turn each into objects of an ironcore
project, another API server that nobody shares a transaction with. The difficult
part is hardly ever in one call. It is in what a sequence of calls leaves behind
when it stops in the middle, in names that are used again while the former owner
is still terminating, and in objects that are only created, never corrected:
almost every write is `controllerutil.CreateOrPatch(ctx, c, obj, nil)`, and with a
nil mutate function that is "create it if it is missing, else read it".

Contents: [parts](#the-parts), [modules](#modules-and-the-code),
[runs](#runs), [fairness](#fairness), [proofs](#proofs),
[disagreements](#disagreements-with-the-code), [left out](#not-modelled),
[plan](#plan). `PROJECT.json` has the line of the source for every definition, and the
full list of hazards.

## The parts

Paths are under `src/pkg`. "Generic" is Gardener's library, which is not in this
repository: it keeps a finalizer on the extension resource, runs an actuator at most
once at a time per resource, runs it again after an error, and removes the finalizer
when `Delete` returns nil.

| part | state it keeps | operations | talks to |
|---|---|---|---|
| infrastructure (`controller/infrastructure`) | network, NAT gateway, prefix, network policy in the project; `status.providerStatus` | Validate, Reconcile, Restore, Delete, ForceDelete, Migrate | reads the cloudprovider secret; its status goes into the Worker, and from there to machine classes and bastions |
| bastion (`controller/bastion`) | a machine, its ignition secret, its network policy; `status.ingress` | Validate, Reconcile, Delete | reads the Worker; leaves secret and policy to the garbage collector |
| worker (`controller/worker`) | machine classes and their secrets in the seed, one per pool and zone; the images in the Worker status | DeployMachineClasses, GenerateMachineDeployments, UpdateMachineImagesStatus | reads the CloudProfile; machine-controller-manager makes the machines |
| backup bucket (`controller/backupbucket`) | an ironcore bucket, a generated secret; `status.generatedSecretRef` | Reconcile (with a wait), Delete | ironcore's bucket controllers |
| backup entry (`controller/backupentry`) | none of its own | Delete: all objects of an S3 bucket under a prefix | a bucket that several shoots share |
| admission (`admission`, `apis/ironcore/validation`) | none | validate shoots, profiles, secrets, bindings, backup buckets, seeds; merge machine images into a NamespacedCloudProfile | decides which inputs the controllers can ever see |
| control plane (`controller/controlplane`) | the server secrets, two deployments and a config map in the seed; storage classes in the shoot | values for Gardener's charts: secrets, config, control plane, shoot, storage classes; delete them | reads shoot, CloudProfile, CA and ironcore's volume classes |
| control plane webhook (`webhook/controlplane`) | none | mutate the components Gardener writes | every write of them passes through it |
| credentials (`admission/validator`, `webhook/cloudprovider`, `ironcore/clientutils.go`) | a secret of the owner in the garden, a copy of it with a `kubeconfig` in the seed | validate the secret, complete its copy, connect with it | every controller works in the project it names |
| health checks, commands, charts | none | registration, start-up, templates | |

What makes each correct, and what is hard about it:

- **infrastructure.** Nothing of a shoot is left in the project when its resource is
  gone; nothing of anybody else is touched; the status names the objects that are
  really there, all on one network. Hard: a run is up to six calls, any of which may fail
  after it took effect; a network may belong to a user; a name may be taken over while
  the objects of the predecessor are terminating; a migration must give up nothing.
- **bastion.** An address is published only for a machine that has its ignition and its
  policy; deleting the machine takes all the rest with it. Hard: a bastion takes many
  runs, the machine is read at the beginning of a run and its addresses at the end, and
  somebody may have deleted the machine in between.
- **worker.** The settled machine classes are those of the spec, each in its zone; a
  machine deployment always has its class; and the Worker can always be reconciled again.
  Hard: the spec and the CloudProfile change during a run, a class once made is never
  changed, and an image that has gone from the CloudProfile is only remembered in the status.
- **backup bucket.** The published secret opens the bucket that is there; nothing is left.
  Hard: the bucket gets ready in two parts, the wait may time out, a secret and a bucket
  outlive their owner for a while.
- **backup entry.** All backups of a deleted entry go, and no others. Hard: several
  pages, failures half-way, names of which one begins another.
- **admission.** What it lets through, the controllers can work with: a request for NAT
  ports is honoured, an image that is offered is found, and no project redirects an image
  of its operator. Hard: arithmetic at the boundaries; two profiles that change
  independently and are merged by a third party.
- **control plane.** What a deployment mounts exists; a controller is not taken from an API
  server that is up; the shoot has its storage classes or keeps what it had. Hard: secrets get
  new names when the CA is rotated, and the old ones are removed at the end of a run that may stop
  before; hibernation is compared with a deployment somebody else scales; one volume class
  that is missing fails the end of every run.
- **control plane webhook.** What is stored works with an external cloud provider, and
  nothing else of it has changed; writing it again changes nothing. Hard: the helpers work on
  the first item of a name, in lists of any order.
- **credentials.** The kubeconfig in the seed belongs to the secret beside it and to a server
  of the region; nothing is left in a project the shoot still has. Hard: a secret is
  read when a binding to it is reviewed, the binding is stored later, and the secret is labelled
  later still; in between nobody looks at it; the gardenlet works with copies; the owner may
  change the project at any time.

## Modules and the code

Every step of a model is one call of the code to an API server, because between two of
them the controller may crash, another controller may move, and the answer may be
lost. A call that takes effect therefore either *returns* or ends the run (`Returns`,
`ReturnsRef`), and `Abort` ends a run before its next call took effect. The local
variables of a Go function that live across calls are variables of the model (`seen`,
`refs`, `host`, `address`, `creds`, `page`) and are reset when the run ends. `pc` names
the next call. An object in the cloud is absent, live or terminating (its finalizers are
still there, so Get finds it and CreateOrPatch leaves it alone), and has a number that
stands for its UID.

A definition that ends in `Bug` is a plausible mistake in the definition below it. No
specification uses it; putting it in the place of that definition must violate the
property it is listed with in `PROJECT.json`.

**`Infrastructure`.** `phase`, `config`, `status` are the extension resource, `objs` the
project. `Validate, applyNetwork, applyNATGateway, applyPrefix, applyNetworkPolicy,
updateProviderStatus` are the calls of `reconcile`, `deletePrefix ... deleteNetwork` those
of `Delete`, in the code's order; `Release` is the generic reconciler removing the
finalizer. Gardener's steps create, update, delete, migrate and restore the resource;
users make and delete networks and policies; `Vanish` is ironcore finishing a deletion. A name
may be used again (`MaxLives`). **`CloudLease`** is what this controller and the one for backup
buckets promise: an owner acquires objects while its resource exists, gives them up only while
the resource is being deleted, and the resource goes only when nothing is held. In
`ImplementsLease` the owners are the shoots, and `held` is the set of their live objects.

**`Bastion`.** `applyMachine, applyIgnitionSecret, ensureNetworkPolicy,
getMachineEndpoints, publishIngress` are the steps of `Reconcile`; `host` is the machine
as the run got it at first, `address` the machine whose network interface was read later.
`CollectSecret` and `CollectPolicy` are the garbage collector, by owner UID.
`OperatorDeletes` is somebody who deletes the machine of a bastion that stays. `infra` is
the Worker carrying an infrastructure status, without which runs fail. **`BastionAccess`** is
what a client of the bastion is promised: nobody is told to connect to the first machine before
it is guarded, it stays guarded as long as it lives, and the resource goes only
when its machine is down. `HostOf` and `AccessOf` map a bastion to it; `AccessOf` goes from
"closed" to "guarded" when the last of secret and policy appears, and to "open" when the
address is published.

**`Worker`.** A class is named by its pool, the index of its zone and the version of its
image, as the hash in the code makes it; what it holds is image and zone. `CreateClass` and
`CreateSecret` are DeployMachineClasses, `UpdateMachineImagesStatus` writes `status`,
`DeployMachineDeployment` is Gardener deploying what GenerateMachineDeployments gave it, and
`Cleanup` removes what nothing uses. `seen` is the spec and the profile as the run found
them. `ValidateWorkersUpdate` is the admission: zones are only ever added others. `readded` records the pools that were removed and made anew before a run had
removed the classes of the former pool. **`MachineRollout`** is what
machine-controller-manager is promised: a machine deployment follows a complete class, whose
recipe does not change, and no class goes that a deployment follows. `ImplementsRollout` takes
a class for complete when it has its secret.

**`BackupBucket`.** `ensureBackupBucket`, the wait, the access secret, the generated
secret and the status are one step each; the bucket shows its state and its access
separately (`BucketShows`). The generic reconciler sets its `finalizer` before the first call;
a resource deleted before that goes at once, and `Delete` is never called for it
(`RemoveUnreconciled`). A name is used again up to `MaxLives` times. The controller
implements `CloudLease` too, with the one bucket as all that can be held.

**`BackupEntry`.** `NextPage` is the paginator, `DeleteObjects` and its two error variants
are the batch call. `StoreAnswers` says whether the store may report errors of single keys
and `NoSuchKey`; `hidden` records the entries for which such an error was taken for
success.

**`NatPorts`.** The validation of the requested port number, and `previousPowOf2` and the
choice of `portsPerNetworkInterface` as operators on integers. The code works on the
bits of an unsigned number (`|`, `>>`, `bits.OnesCount`); here such a number is the set of the bits that
are one, so that `n | n>>1` is a union.

**`MachineImages`.** The operator's profile, the project's profile and the merged status;
`validateMachineImages` and `mergeMachineImages` are the code, the order of reading and
writing is Gardener's controller.

**`Credentials`.** From the owner's `secret` with its `binding` and label (`labelled`), where
the webhook that reviews a binding reads the secret (`ReviewBinding`) and the API server stores
the binding later (`StoreBinding`) or not at all (`RefuseBinding`), through the gardenlet's flow, which takes copies (`BeginFlow`) and writes the
cloudprovider secret later (`DeployCloudProviderSecret`, through the webhook), to the
runs of the infrastructure controller, each of which works in the project the
cloudprovider secret names when it begins (`BeginTask`). A namespace is a project or not, so
that a run may fail for want of it. `left` records the projects the credentials
pointed to before, `unseen` that the data was written after the review of the binding, but
without a label that would have called the webhook.

**`ControlPlane`.** A run of Gardener's generic actuator, with this extension's values: `step`
names the next call, `found` is the shoot and the rotation as the run found them.
`GenerateAllSecrets`, `ApplyConfigChart`, `CheckHibernation`, `ApplyCCM`, `ApplyCSI`,
`ApplyShootChart`, `ApplyStorageClasses` and `CleanupSecrets` are a reconciliation in
the actuator's order, `DeleteShootCharts` to `DeleteSecrets` a deletion. The charts of the
control plane are applied object by object, in any order. `wasDown` records that the
kube-apiserver was scaled down at some time in the run so far.

**`ControlPlaneEnsurer`.** Gardener writes a component, the webhook stores what `Ensure`
makes of it. Components are lists of named items: containers, flags, volumes, policies,
unit options. `EnsureItem`, `EnsureNoItem` and `EnsureUnitOption` are the helpers of Gardener's
library the code calls. `IsExternal` says, of each kind of component, what the webhook must have
brought about, and that everything else is kept, in its order.

**`MCParts`** puts these five into one instance, `NatPorts` and `MachineImages` by way of
`MCAdmission`. They share no state, so only one of them moves in a behaviour and the state
spaces add up instead of multiplying. The others stay as they are in the beginning, where no
action is enabled that they owe anybody.

Modules named `MC...` only give values to constants. Modules named `...Proofs` only hold
proofs.

## Runs

| run | question | bounds |
|---|---|---|
| `Infrastructure` | Are all objects of a shoot gone with it, is a settled status current, is the lease kept, do deletions end, does the status become usable? | 1 shoot in 2 lives, 1 user network made once |
| `Infrastructure_references` | Do gateway and policy stay on the published network, and do runs touch only their own objects, while configs change and refer to objects of users? | 1 shoot, 2 port numbers, a policy reference or none, user networks and policies |
| `Bastion` | Is a published host guarded, is `BastionAccess` kept, does everything go with the machine, is a bastion published in the end? | 1 bastion, 2 values of ingress, users delete the machine once |
| `Worker` | Are the settled classes those of the spec, each in its zone, does every machine deployment follow a complete class that does not change under it, are images in use remembered, can the Worker always be reconciled again? | 1 pool in one of two zones or both, 2 versions of an image the operator drops and takes up |
| `BackupBucket` | Is the lease of the bucket kept, does the first access that is published work, is access always published? | a name used twice |
| `BackupEntry` | Are all backups of a deleted entry gone, no others, and does it end? | 2 entries, one name beginning the other, 3 objects each in pages of 2 |
| `Parts` | Does what is let through get its ports and its images? Is the secret of a stored binding valid, do the credentials in the seed come of one secret, do they get there, and where can a deletion leave objects? Does what is mounted exist, are controllers scaled down only with their API server, is a settled control plane in all parts the one asked for, does it follow the shoot? Is what the webhook stores right and stable? | ports: all powers of two with their neighbours x 25 CIDR sizes; images: 2 versions x 2 architectures, a second image name, 2 writes; credentials: 4 secrets, 2 projects, 1 server; control plane: 2 storage classes, 1 rotation, all 4 kinds of networking; webhook: up to 3 flags in any order, each container there or not |

Five more runs end in a violation; see [below](#disagreements-with-the-code).

Why the bounds are enough:

- *One shoot, one bastion.* Objects are named after the shoot or the bastion, so two of
  them interact only if a run touches an object of another name. That it does not is
  what `RunsTouchOwnObjectsOnly` and the theorems `OwnObjectsOnly` and `OthersAreKept`
  say, and all invariants are proved for any number.
- *Two lives.* The danger of a name used again is the terminating object of the life
  before; a third life meets nothing a second does not.
- *Failures are not bounded.* Every step may fail in every run, any number of times.
- *Pages of two, three objects.* One entry has a truncated page and one after it, which may be
  half empty or, after somebody else deleted, completely.
- *One pool, two zones.* Pools meet only in the images of the status, and there only if they
  use the same version; the hash in a class name keeps the classes apart. A second zone can be
  added, or be the first of a pool made anew; a third adds nothing to that.
- *Powers of two and their neighbours.* `previousPowOf2` depends on the highest bit
  only, the validation on the number of bits set; the neighbours are the only inputs where
  either changes.
- *Images.* The merge treats every name by itself, so one shared name and one that only a
  project has are the cases there are. The two writes are the operator's and the
  project's, in either order; a third would make `Consistent` false or repeat one of
  them.
- *Four secrets.* Two that are valid, in different projects and with different tokens, one of
  them with a kubeconfig its owner made; one that lacks a field; one whose namespace is
  malformed. Every other secret is one of these as far as the code can tell. The region
  has a server or not, at different times, but not first one server and then another: a
  second one makes the instance four times as large. That a kubeconfig is for one of
  any number of servers is proved (`KubeconfigIsWhole`); that a changed one arrives is not
  checked.
- *One rotation, two storage classes.* A secret is that of the run or that of a run before. One
  class may come and go, the other is always there; a run looks at them one by one and at nothing that
  relates them.
- *Four kinds of networking.* The cases `isOverlayEnabled` tells apart: no configuration, one
  that does not mention the overlay, one that disables it, one that enables it.
- *Three flags.* Each of those the code touches, set otherwise than it wants, and one it
  does not know, in every order and number.

Deadlock is not checked: all these systems may come to rest when their users do.

## Fairness

Weak fairness, in each module's `Fairness`, for what the surroundings do by design:
controller-runtime's queue hands out every resource that is due; an API call does not hang
for ever, so a run that has begun takes its next step; ironcore brings up machines and
buckets, and finishes deletions; Kubernetes collects garbage; the gardenlet reconciles
shoots periodically (`Infrastructure`, `Worker`, `Credentials`). Failures of calls and crashes may be as
many as they like but end some day (`<>[][~Fails]_vars`): no retry loop ends otherwise.
The errors a run makes *itself*, for want of a network, a bucket, an image, an address, a
volume class or, in the webhook, a field of the secret or a server of the region,
are excluded from that and may go on for ever; whether they do is what the
liveness properties are about. Nothing is assumed of users, and nothing of the spec of a
resource, except where a property says what must stay as it is (`InputsStable`, and the
`<>[]` in `CredentialsReachTheSeed` and `ControlPlaneFollows`, which also ask that the
gardenlet has scaled the kube-apiserver).

## Proofs

Every invariant and every safety property a passing run checks is a theorem here, and so are the
four refinements. TLAPS checks them for every value of the constants, any users, and any sequence
of failures: any number of shoots, bastions, lives, pools, zones, profiles, secrets, projects,
storage classes, rotations, pages, port numbers, and items of a component. Infrastructure and bastions rest on their
`NamesAssumption`: generated names differ, and nobody gives his own object such a name;
for bastions that is the common case only, see below. The bounds (`MaxLives`,
`MaxUserGen`, `MaxMachines`, `MaxRotations`, `MaxObjects`) are assumed to be naturals and
nothing else. The remaining assumptions say that a value that stands for "none" is no
other value (`DatasAssumption`, `WrittenAssumption`, `NotDeployedAssumption`,
`UnsetAssumption`), that a pool has a zone (`ZoneListsAssumption`, which the admission sees to),
that names of backup entries have no slash, as Kubernetes sees to (`EntriesAssumption`), that a
request for ports is an integer and an address has at most 128 bits (`InputsAssumption`), and
that Gardener writes each container, flag, volume and policy the webhook looks for at
most once (`WrittenOnceAssumption`): Kubernetes refuses two containers of a name, and the
helpers look at the first only.

**`InfrastructureProofs`.** The invariants are not inductive: that a gone shoot holds
nothing needs that its last run deleted everything in order and that no run was
reconciling meanwhile. `IInv` says that for each shoot: a run belongs to a phase
(`RunMatchesPhase`: only a shoot being deleted has a deleting run, and the resource
outlives every run); what the deletion has passed is no longer live (`DeletedSoFar`); run,
objects and status agree on the network (`OneNetwork`, which needs that the admission does
not let `networkRef` change); every reference a run has got is to the last incarnation
(`RunIsCurrent`), hence the status after it too (`StatusIsCurrent`). The proof takes
one shoot's step at a time: `Frame` shows that another shoot's invariant is
undisturbed, because a step changes only objects of its own name. From `IInv` follow
`NothingIsOrphaned`, `GatewayServesNetwork`, `StatusIsCurrentWhenSettled`,
`OwnObjectsOnly` and `LeaseImplemented`; the last maps every step to a step of CloudLease
or to a stutter, and `Release` to `Gone`, whose guard is `DeletedSoFar`.

**`BackupBucketProofs`.** `NothingIsLeft`, by `LeftInv`: the same argument with one object. On it
rests `LeaseImplemented`: `StepOfLease` sorts the steps into those that change nothing the lease
speaks of, that move the resource, that gain and that lose the bucket. `AccessWorksAtFirst`, by
`LifeInv`: in the first life of a name no bucket can be terminating and no secret can be left
over, and each step of the run adds one part of what "settled" promises.

**`BastionProofs`.** `TypeCorrect`, which includes that a run that is beyond a call holds what that
call gave it (`RunHasWhatItNeeds`) and that a machine says of itself what it can
(`MachineReportsItself`); `OthersAreKept`; `NothingIsLeft`, by `LeftInv`; `GuardsBelong` and from it
`PublishedIsGuarded`, by `GuardInv`: before the first machine there is nothing (`Fresh`), and while it
lives, secret and policy are its own, in this run or another, from the moment the run has
passed them (`RunGuards`). `Elsewhere` is the frame: a step of one bastion does not change what
another sees. `AccessImplemented` needs both invariants, in the part that concerns one bastion
(`Sound`). A step is one of the run's (`QuietStep`, `MachineStep`, `GuardStep`, `DeleteStep`) or one of
the cloud's (`CloudAccess`). That publishing an address opens the access only when it was "guarded"
before is `RunGuards`; that it never closes while the first machine lives is that
nobody takes a secret or a policy from a live owner.

**`BackupEntryProofs`.** `DeletedMeansGone` and `BackupsAreKept`. The second is about names:
`PrefixesDiffer` shows that a prefix ending in a slash begins no other directory, hence
an entry lists its own backups only (`ListedAreOwn`). The first is about pages: `Passed` says
that whatever lies before the continuation token is gone or on the page, and that
behind the last page there is nothing; it holds after a listing because a page has no gaps
(`PagesHaveNoGaps`) and the token is its largest number (`PageListed`).

**`WorkerProofs`.** `SettledClassesAreWanted`, by what each place in a run has established
(`Progress`) for the spec it has seen, and that an idle Worker with nothing due has had
its spec seen. `ClassesOutliveDeployments`, by `DeployInv`: a run goes over to
deployments only when all classes and secrets are made, and the clean-up comes after the
deployments of old classes are gone. `RolloutImplemented` maps each step to one of
MachineRollout: a class or a secret that makes a class complete (`Completed`), a deployment that
follows it (`Followed`), and the clean-up (`Discarded`), which is where `DeployInv` is needed.
`ReconciledFindsImages` is the safety half of `StaysReconcilable`, by `RememberInv`: a run beyond the
classes has found its images, one beyond the status has written them there, and once a run
ended well with the pools there are, no run with former pools is still going on to
overwrite the status. `ClassesAreInTheirZones`, by `ZoneInv`: every list of zones that
somebody still remembers, the run or a class, is extended by that of the spec.

**`ControlPlaneProofs`.** `MountsExist`, by `MountsInv`: a deployment's secret is an old one
until the run has passed the charts, and old ones go only at the end of a run that has.
`NotScaledDownUnderAPIServer`, by `WatchInv`: a run that found the API server
down remembers it in `wasDown` until it has applied the charts. `SettlesAsAsked`, by `AskedInv`: as
long as nothing is due, the run has found the shoot as it is (`FoundIsCurrent`), each place in it
has put its part in place for what was found (`InPlace`), and in a deletion taken it away
(`TakenAway`). That a hibernated shoot ends scaled down needs that a check that found the API server up
makes another run due (`Hibernation`).

The second half of it is about the webhook. `StoredAsEnsured` is all a behaviour adds: what is
stored is `Ensure` of what was written. The rest is about lists of any length. `EnsureItemEnsures`
and `EnsureNoItemEnsures` say what the helpers do: the item is there, and all others are the ones
there were, in their order (`Kept`, which gives each place of the new list the place it came from).
`KeptBeside` composes two of them, `CommandGiven` puts a new command line back into its
container. With that, `WrittenIsEnsured` goes through the kinds of component. `MutationIsStable` rests on
the fixed points of the helpers (`EnsureItemTwice`, `EnsureNoItemStable`, `OnceGiven`): a list that
has the item and lacks the others comes back as it is. No induction is needed, because the
helpers find an item by its place.

**`CredentialsProofs`.** `SecretsStayValid`, by `ReviewedStaysValid`: what is claimed of a stored binding
holds from its review on; `CredentialsAreWhole`, by `FlowType`, the
types of what a flow carries; and `LeftOnlyInFormerProjects`, by `Located`: objects are where
the cloudprovider secret points, where a run that has begun works, or where it
pointed once.

**`AdmissionProofs`.** `PortsFit` (for `PortsAreRight`) and `RequestsAreGranted` are arithmetic.
The provers know nothing of `2^i` with a variable `i`, so `PowerTable` and `PowersDouble` state its values, and
`PowersInOrder` and `HighestBit` what follows from them. `Smear`: after the five unions of
`previousPowOf2`, exactly the bits up to the highest one are set. `AllOnes`: such a set is the number
2^(k+1) - 1, hence `PreviousPowOf2`: the result is the largest power of two that is not
above its argument. `PowersPass` says the same of the test for a power of two.
`OwnImagesNeverShadow` and `OfferedImagesAreFound` rest on three
invariants: what the admission compared, what Gardener's controller has read, and what the
status was made of. `Merging` is what both need of the merge: it invents no entry, and it
keeps one of every version.

Only model-checked: everything about liveness, as fairness and ENABLED are beyond the
prover. These are `DeletionCompletes` and `StatusBecomesUsable` of infrastructure,
`AccessIsPublished`, `DeletionCompletes` of backup entries, `DeletionCollectsAll`, `BecomesUsable`,
`StaysReconcilable`, `CredentialsReachTheSeed` and `ControlPlaneFollows`. Of the last three the safety
half is proved: `ImagesAreRemembered`, that a reconciled Worker never lacks an image,
`CredentialsAreWhole`, that what reaches the seed is never made of two secrets, and
`SettledAsAsked`, that a control plane with nothing due is the one asked for.

## Disagreements with the code

Each of these is a run whose one property states what the repository says; TLC finds a
behaviour of the code that contradicts it.

- `Infrastructure_policyref`: `applyNetworkPolicy` looks the policy up under the name of the
  *network* reference (and panics when there is none).
- `BackupBucket_deletion`: `Delete` treats "not found" as an error, so a deletion
  repeated after it took effect never ends. In the run the bucket is there and ready, a
  `Delete` removes it but its answer is lost, and all that come after it fail.
- `BackupEntry_keyerrors`: errors of single keys in the answer of DeleteObjects are not
  looked at; the entry goes and backups stay.
- `Bastion_ingress`: an existing policy is never changed, so a new `spec.ingress` never
  takes effect.
- `Admission_architectures`: the merge of machine images keeps one entry per version, and the
  architectures of a version get lost.

Met on the way, without a run of their own:

- A changed `natPortsPerNetworkInterface` never reaches an existing gateway, and a changed
  image path never an existing machine class, though the Worker status shows the new
  one: `CreateOrPatch` with nil again.
- From the second life of a bucket's name on, `FirstAccessWorks` without its condition
  `uid <= 1` is false: the new resource adopts the terminating bucket or the old secret.
- Names of bastion hosts are cut at 63 characters. Where two become equal
  both bastions share a machine, and deleting one deletes the other's. The comment in
  `bastion/utils.go` accepts that; the model assumes it away.
- `NewShootValidator` (`admission/validator/shoot.go:33`) sets neither the client nor the
  decoder that `newValidationContext` uses. The models take the admission of shoots as
  `validateCreate` and `validateUpdate` read.
- `NewSecretBindingValidator` is registered nowhere (`admission/validator/webhook.go`).
- The project is read from the credentials in every run, and the credentials may be
  changed to another project; what was made in the old one is then never deleted.
  `LeftOnlyInFormerProjects` says that this is the only way to leave something.
- The binding is stored some time after the webhook has read the secret, Gardener labels the secret
  only after that, and the owner may remove the label: what is written in between, no
  webhook ever sees (`unseen`), so that a stored binding may have an invalid secret. The flow fails
  for it if a field is missing, and goes through with a malformed namespace.
- A pool that is removed and made anew with other zones before a run has removed its classes
  keeps classes with the former zones (`readded`): the comparison of zones needs the old pool,
  and `CreateOrPatch` leaves the class as it is.
- The pods of the control plane carry the checksum of the config map
  (`controlplane/valuesprovider.go:388`), not of the credentials: new credentials restart nothing.
- The resize policy of a volume class is looked at in the next reconciliation only, and
  nothing compares the names of the storage classes it makes.

## Not modelled

- **Control plane**: values that are the same in every run (names, images, the prefix and the
  network in the cloud config, TLS settings), and the feature gates, which are passed on as they
  are. A control plane or network configuration that cannot be decoded fails every run for as
  long as it is there; here it is one of the failures of `FailReconcile`, which the liveness
  properties assume to end. A volume class is read at the moment the storage
  classes are applied. A shoot with hibernation enabled is not deleted before it is awake, as
  Gardener does it.
- **Control plane webhook**: the command line of the kubelet's unit is one text, which Gardener's library
  takes apart and puts together again; here it is a list of flags all along.
- **Credentials**: connecting with them; a client that cannot be made is a failed run.
- **Admission of backup buckets and seeds**, of secret bindings (the validator is registered
  nowhere), and of the volumes of workers: presence of single fields, without state.
- **Worker**: an image whose path changes in the CloudProfile (see above); replica numbers over zones, node templates but for the zone,
  machine-controller-manager's chart; rolling of machines happens outside this repository.
- **Bastion**: contents of machine, ignition and user data.
- **Health checks, commands, generated code, charts**: registration and templates.

Kubernetes, Gardener's generic reconcilers, ironcore's controllers and S3 are modelled
only as far as the code depends on them, and marked external in `PROJECT.json`.

## Plan

Done: all components that keep a state, and the admission that decides what they may see;
proofs of all safety properties; abstract specifications of what infrastructure and backup buckets
hold, of the access to a bastion, and of what machines are made of. Next, in this order:

1. `Credentials` against an abstract specification of the projects in which objects can be.
2. Shoot, Infrastructure, Worker and Bastion composed: the status that one writes and
   the others read, in the order of a shoot's creation and deletion; and that each still
   implements its abstract specification there.
3. `Worker` with replicas, minimum and maximum distributed over zones, and the sums that must
   come out; several pools that share a version.
