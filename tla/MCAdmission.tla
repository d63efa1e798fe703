----------------------------- MODULE MCAdmission -----------------------------
(***************************************************************************)
(* The two pure parts of the admission and what is computed from what they *)
(* let through, NatPorts and MachineImages, in one instance for TLC.  They *)
(* share no state, so only one of them moves in a behaviour.               *)
(***************************************************************************)
EXTENDS NatPorts, MachineImages

CONSTANTS image, other, old, new, amd64, arm64

(* Every power of two with both its neighbours, the largest number of      *)
(* ports, zero and negative numbers.                                       *)
MCRequested ==
  UNION {{2^i - 1, 2^i, 2^i + 1} : i \in 0..17} \cup {-2, -1, 0, 1024 + 512, 64512, 64513}

MCHostBits == 0..20 \cup {24, 32, 64, 128}

(* Two versions of an image in two architectures, and an image of which    *)
(* one profile knows nothing; mapped or not, or with one entry too many.   *)
Offers == {[name |-> image, version |-> v, architecture |-> a] : v \in {old, new}, a \in {amd64, arm64}}
Other  == [name |-> other, version |-> old, architecture |-> amd64]

MapTo(offers, path) ==
  {[name |-> o.name, version |-> o.version, architecture |-> o.architecture, image |-> path] :
     o \in offers}

ProfilesOf(offerable, path) ==
  {[offers |-> offers, maps |-> MapTo(mapped, path)] :
     <<offers, mapped>> \in
       {<<o, m>> \in (SUBSET offerable) \X (SUBSET offerable) :
          \A x, y \in (o \ m) \cup (m \ o) : x = y}}

MCCloudProfiles      == ProfilesOf(Offers, "operator")
MCNamespacedProfiles == ProfilesOf(Offers \cup {Other}, "user")

Init == PortsInit /\ ImagesInit

Next ==
  \/ ImagesInit /\ PortsNext /\ UNCHANGED imagesVars
  \/ PortsInit /\ ImagesNext /\ UNCHANGED portsVars

Spec == Init /\ [][Next]_<<portsVars, imagesVars>>
=============================================================================
