----------------------------- MODULE MachineImages -----------------------------
(***************************************************************************)
(* Machine images of a NamespacedCloudProfile.  A profile offers images    *)
(* (spec.machineImages, Gardener's part) and maps them to ironcore images  *)
(* (spec.providerConfig, this extension's part).  The admission validates  *)
(* the mapping of a CloudProfile (validator/cloudprofile.go) and of a      *)
(* NamespacedCloudProfile against its parent; Gardener merges both into    *)
(* the status, and the mutator merges the mappings there (mutator/         *)
(* namespacedcloudprofile.go).  The worker controller looks images up in   *)
(* the result.                                                             *)
(*                                                                         *)
(* A definition whose name ends in Bug is a plausible mistake in the       *)
(* definition that follows it; nothing uses it but the mutation checks.    *)
(***************************************************************************)
EXTENDS Naturals

CONSTANTS
  CloudProfiles,       \* what operators write into the CloudProfile
  NamespacedProfiles,  \* what users write into the NamespacedCloudProfile
  MaxEdits             \* bound: how often they write

(***************************************************************************)
(* A profile: what it offers is a set of [name, version, architecture],    *)
(* and its mapping a set of such records with the image.  As a set it has  *)
(* no two equal entries, and no order.                                     *)
(***************************************************************************)
EmptyProfile == [offers |-> {}, maps |-> {}]

VARIABLES
  parent,    \* the CloudProfile
  own,       \* the spec of the NamespacedCloudProfile
  admitted,  \* the parent is still the one that spec was validated against
  read,      \* what Gardener's controller has read, to write the status
  status,    \* status.cloudProfileSpec; "current": made from all the present
  edits      \* how often the profiles were written

imagesVars == <<parent, own, admitted, read, status, edits>>

NothingRead == [parent |-> EmptyProfile, offers |-> {}, sameOwn |-> FALSE,
                sameParent |-> FALSE]

ImagesInit ==
  /\ parent   = EmptyProfile
  /\ own      = EmptyProfile
  /\ admitted = TRUE
  /\ read     = NothingRead
  /\ status   = [offers |-> {}, maps |-> {}, current |-> FALSE]
  /\ edits    = 0

-----------------------------------------------------------------------------
SameVersion(a, b) == a.name = b.name /\ a.version = b.version

(* VersionArchitectureKey: the version and the architecture, of one name. *)
SameKey(a, b) == SameVersion(a, b) /\ a.architecture = b.architecture

FindImageFromCloudProfile(maps, offer) == {m.image : m \in {e \in maps : SameKey(e, offer)}}

(* No error: every image that is offered is mapped. *)
ValidateCloudProfileConfig(p) ==
  \A o \in p.offers : \E m \in p.maps : SameKey(m, o)

validateMachineImages_Bug(p, above) ==
  /\ \A o \in p.offers :
       \/ \E a \in above.offers : SameVersion(a, o)
       \/ \E m \in p.maps : SameKey(m, o)
  /\ \A m \in p.maps : \E o \in p.offers : SameKey(m, o)

validateMachineImages_MapBug(p, above) ==
  /\ \A o \in p.offers :
       \/ \E a \in above.offers : SameVersion(a, o)
       \/ \E m \in p.maps : m.name = o.name
  /\ \A m \in p.maps :
       /\ ~ \E a \in above.offers : SameVersion(a, m)
       /\ \E o \in p.offers : SameKey(m, o)

(***************************************************************************)
(* No error: what the profile adds to the CloudProfile above it is mapped, *)
(* and only that.                                                          *)
(***************************************************************************)
validateMachineImages(p, above) ==
  /\ \A o \in p.offers :
       \/ \E a \in above.offers : SameVersion(a, o)
       \/ \E m \in p.maps : SameKey(m, o)
  /\ \A m \in p.maps :
       /\ ~ \E a \in above.offers : SameVersion(a, m)
       /\ \E o \in p.offers : SameKey(m, o)

(***************************************************************************)
(* mergeMachineImages: the images both have are made anew, with one entry  *)
(* per version, of the profile's own if it has one.  Which of several      *)
(* entries of a version stays depends on their order in the lists.         *)
(***************************************************************************)
OneEntryPerVersion(maps) ==
  LET ambiguous == {m \in maps : \E n \in maps : n # m /\ SameVersion(n, m)}
  IN  {(maps \ ambiguous) \cup kept :
         kept \in {k \in SUBSET ambiguous : \A m \in ambiguous :
                    \E n \in k : SameVersion(n, m) /\ \A j \in k : SameVersion(j, m) => j = n}}

mergeMachineImages(ownMaps, maps) ==
  LET inBoth(m)   == (\E o \in ownMaps : o.name = m.name) /\ (\E s \in maps : s.name = m.name)
      replaced(s) == \E o \in ownMaps : SameVersion(o, s)
      anew        == {m \in ownMaps \cup {s \in maps : ~replaced(s)} : inBoth(m)}
      untouched   == {m \in ownMaps \cup maps : ~inBoth(m)}
  IN  {untouched \cup kept : kept \in OneEntryPerVersion(anew)}

-----------------------------------------------------------------------------
UpdateCloudProfile(p) ==
  /\ edits < MaxEdits
  /\ p # parent
  /\ ValidateCloudProfileConfig(p)
  /\ parent'   = p
  /\ admitted' = FALSE
  /\ read'     = [read EXCEPT !.sameParent = FALSE]
  /\ status'   = [status EXCEPT !.current = FALSE]
  /\ edits'    = edits + 1
  /\ UNCHANGED own

(* Gardener lets a profile override the expiration date of a version its   *)
(* parent offers, but not add architectures to it.                         *)
UpdateNamespacedCloudProfile(p) ==
  /\ edits < MaxEdits
  /\ p # own
  /\ \A o \in p.offers :
       (\E a \in parent.offers : SameVersion(a, o)) => o \in parent.offers
  /\ validateMachineImages(p, parent)
  /\ own'      = p
  /\ admitted' = TRUE
  /\ read'     = [read EXCEPT !.sameOwn = FALSE]
  /\ status'   = [status EXCEPT !.current = FALSE]
  /\ edits'    = edits + 1
  /\ UNCHANGED parent

(* Gardener's controller reads both profiles, some time before it writes. *)
ReadProfiles ==
  /\ read' = [parent |-> parent, offers |-> own.offers, sameOwn |-> TRUE, sameParent |-> TRUE]
  /\ read' # read
  /\ UNCHANGED <<parent, own, admitted, status, edits>>

(***************************************************************************)
(* The mutator sees the status the controller writes, and the spec of now. *)
(* It leaves the status alone when the generation is not the observed one, *)
(* or when the spec has no providerConfig.  One that is there and maps     *)
(* nothing changes nothing either, so that no mapping stands for both; the *)
(* status has one, as the validator asks every CloudProfile for it.        *)
(***************************************************************************)
Mutate(maps) ==
  IF read.sameOwn /\ own.maps # {} THEN mergeMachineImages(own.maps, maps) ELSE {maps}

WriteStatus ==
  /\ read # NothingRead
  /\ \E maps \in Mutate(read.parent.maps) :
       status' = [offers  |-> read.parent.offers \cup read.offers,
                  maps    |-> maps,
                  current |-> read.sameOwn /\ read.sameParent]
  /\ read' = NothingRead
  /\ UNCHANGED <<parent, own, admitted, edits>>

ImagesNext ==
  \/ \E p \in CloudProfiles : UpdateCloudProfile(p)
  \/ \E p \in NamespacedProfiles : UpdateNamespacedCloudProfile(p)
  \/ ReadProfiles
  \/ WriteStatus

ImagesSpec == ImagesInit /\ [][ImagesNext]_imagesVars

-----------------------------------------------------------------------------
(* The status shows the present profiles, and the admission compared them. *)
Consistent == status.current /\ admitted

OneArchitecture ==
  \A m, n \in parent.maps \cup own.maps : SameVersion(m, n) => SameKey(m, n)

(***************************************************************************)
(* A profile of a project never redirects an image its CloudProfile        *)
(* offers: what is found for it in the merged profile is the image the     *)
(* operator has mapped, although the merge prefers the profile's own       *)
(* entries.                                                                *)
(***************************************************************************)
OwnImagesNeverShadow ==
  Consistent =>
    \A o \in parent.offers :
      FindImageFromCloudProfile(status.maps, o) \subseteq FindImageFromCloudProfile(parent.maps, o)

(***************************************************************************)
(* Every image the merged profile offers is found in its mapping, so that  *)
(* the worker controller can use it, as long as no version comes in        *)
(* several architectures.                                                  *)
(***************************************************************************)
OfferedImagesAreFound ==
  Consistent /\ OneArchitecture =>
    \A o \in status.offers : FindImageFromCloudProfile(status.maps, o) # {}

(***************************************************************************)
(* "for each version and architecture of an image in the cloud profile a   *)
(* corresponding provider specific image in the cloud profile config       *)
(* exists" (validation/cloudprofile.go).                                   *)
(***************************************************************************)
EveryArchitectureIsMapped ==
  Consistent =>
    \A o \in status.offers : FindImageFromCloudProfile(status.maps, o) # {}
=============================================================================
