------------------------------- MODULE NatPorts -------------------------------
(***************************************************************************)
(* The number of ports the NAT gateway of a shoot reserves for a network   *)
(* interface: computed in applyNATGateway from the size of the nodes CIDR  *)
(* and natPortsPerNetworkInterface, both of a shoot the admission has let  *)
(* through (pkg/admission/validator/shoot.go).                             *)
(*                                                                         *)
(* A definition whose name ends in Bug is a plausible mistake in the       *)
(* definition that follows it; nothing uses it but the mutation checks.    *)
(***************************************************************************)
EXTENDS Integers

CONSTANTS
  Requested,   \* values of natPortsPerNetworkInterface: 32-bit integers
  HostBits,    \* address bits of the nodes CIDR behind its prefix
  Unset,       \* a field that is not set
  NoObject     \* there is no shoot, or no NAT gateway

(* An address has 32 bits, or 128. *)
ASSUME InputsAssumption == Requested \subseteq Int /\ HostBits \subseteq 0..128

ASSUME UnsetAssumption == Unset \notin Int

Shoots == [requested : Requested \cup {Unset}, nodes : HostBits \cup {Unset}]

MaxAvailableNATPortsPerNetworkInterface == 64512

(* An integer without a sign is the set of its bits that are one: | is     *)
(* their union, & their intersection.                                      *)
Bits == 0..30

Ones(n) == {i \in Bits : (n \div 2^i) % 2 = 1}

ShiftRight(ones, k) == {i \in Bits : i + k \in ones}

Byte(ones, k) ==
  LET Bit(i) == IF k + i \in ones THEN 2^i ELSE 0
  IN  Bit(0) + Bit(1) + Bit(2) + Bit(3) + Bit(4) + Bit(5) + Bit(6) + Bit(7)

Number(ones) ==
  Byte(ones, 0) + 2^8 * Byte(ones, 8) + 2^16 * Byte(ones, 16) + 2^24 * Byte(ones, 24)

ValidatePowerOfTwo(value) == value <= 0 \/ Ones(value) \cap Ones(value - 1) # {}

(* No error is reported for the requested number. *)
ValidateInfrastructureConfig(s) ==
  s.requested # Unset =>
    /\ ~ValidatePowerOfTwo(s.requested)
    /\ s.requested <= MaxAvailableNATPortsPerNetworkInterface

ValidateNetworking_Bug(s) == TRUE

ValidateNetworking(s) == s.nodes # Unset

previousPowOf2_Bug(n) ==
  LET n1 == Ones(n) \cup ShiftRight(Ones(n), 1)
      n2 == n1 \cup ShiftRight(n1, 2)
      n4 == n2 \cup ShiftRight(n2, 4)
  IN  Number(n4) - Number(ShiftRight(n4, 1))

previousPowOf2(n) ==
  LET n1  == Ones(n) \cup ShiftRight(Ones(n), 1)
      n2  == n1 \cup ShiftRight(n1, 2)
      n4  == n2 \cup ShiftRight(n2, 4)
      n8  == n4 \cup ShiftRight(n4, 8)
      n16 == n8 \cup ShiftRight(n8, 16)
  IN  Number(n16) - Number(ShiftRight(n16, 1))

(* How many ports of one public IP each address of the nodes CIDR can get: *)
(* none from 2^16 addresses on, which need more than the 32 bits of TLC.   *)
Share(hostBits) ==
  IF hostBits < 16 THEN MaxAvailableNATPortsPerNetworkInterface \div 2^hostBits ELSE 0

(* Without a nodes CIDR, or without a request, ironcore's default holds. *)
PortsPerNetworkInterface(s) ==
  IF s.requested = Unset \/ s.nodes = Unset THEN Unset
  ELSE IF Share(s.nodes) < s.requested THEN s.requested
                                       ELSE previousPowOf2(Share(s.nodes))

VARIABLES
  shoot,    \* the shoot, once it is admitted
  ports     \* spec.portsPerNetworkInterface of its NAT gateway

portsVars == <<shoot, ports>>

PortsInit == shoot = NoObject /\ ports = NoObject

(* validateContext *)
AdmitShoot(s) ==
  /\ shoot = NoObject
  /\ ValidateNetworking(s)
  /\ ValidateInfrastructureConfig(s)
  /\ shoot' = s
  /\ UNCHANGED ports

ApplyNATGateway ==
  /\ shoot # NoObject /\ ports = NoObject
  /\ ports' = PortsPerNetworkInterface(shoot)
  /\ UNCHANGED shoot

PortsNext == (\E s \in Shoots : AdmitShoot(s)) \/ ApplyNATGateway

PortsSpec == PortsInit /\ [][PortsNext]_portsVars

-----------------------------------------------------------------------------
PowersOfTwo == {2^i : i \in 0..15}

(***************************************************************************)
(* The gateway reserves a power of two, never less than was asked for; and *)
(* when one public IP can serve every address of the nodes CIDR with what  *)
(* was asked for, it gives each as much as such an IP has.                 *)
(***************************************************************************)
PortsAreRight ==
  ports \notin {NoObject, Unset} =>
    /\ ports \in PowersOfTwo
    /\ ports >= shoot.requested
    /\ Share(shoot.nodes) >= shoot.requested =>
         ports <= Share(shoot.nodes) /\ 2 * ports > Share(shoot.nodes)

(***************************************************************************)
(* The admission takes nothing that the actuator would pass over: who asks *)
(* for a number of ports gets a gateway with at least that number, and not *)
(* the default.                                                            *)
(***************************************************************************)
RequestsAreHonoured ==
  ports # NoObject /\ shoot.requested # Unset => ports # Unset /\ ports >= shoot.requested
=============================================================================
