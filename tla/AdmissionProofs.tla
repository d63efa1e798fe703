---------------------------- MODULE AdmissionProofs ----------------------------
(***************************************************************************)
(* Proofs about NatPorts: for any requests and any size of the nodes CIDR, *)
(* the gateway reserves the right number of ports.                         *)
(*                                                                         *)
(* And about MachineImages: for any profiles, written any number of times  *)
(* and in any order, no image of an operator is redirected by a project,   *)
(* and every image that is offered is found.                               *)
(***************************************************************************)
EXTENDS NatPorts, MachineImages, TLAPS

-----------------------------------------------------------------------------
(* The powers of two an integer of 32 bits reaches.                        *)
LEMMA PowerTable ==
  ASSUME NEW i \in Int
  PROVE  /\ i = 0 => 2^i = 1
         /\ i = 1 => 2^i = 2
         /\ i = 2 => 2^i = 4
         /\ i = 3 => 2^i = 8
         /\ i = 4 => 2^i = 16
         /\ i = 5 => 2^i = 32
         /\ i = 6 => 2^i = 64
         /\ i = 7 => 2^i = 128
         /\ i = 8 => 2^i = 256
         /\ i = 9 => 2^i = 512
         /\ i = 10 => 2^i = 1024
         /\ i = 11 => 2^i = 2048
         /\ i = 12 => 2^i = 4096
         /\ i = 13 => 2^i = 8192
         /\ i = 14 => 2^i = 16384
         /\ i = 15 => 2^i = 32768
         /\ i = 16 => 2^i = 65536
         /\ i = 17 => 2^i = 131072
         /\ i = 18 => 2^i = 262144
         /\ i = 19 => 2^i = 524288
         /\ i = 20 => 2^i = 1048576
         /\ i = 21 => 2^i = 2097152
         /\ i = 22 => 2^i = 4194304
         /\ i = 23 => 2^i = 8388608
         /\ i = 24 => 2^i = 16777216
         /\ i = 25 => 2^i = 33554432
         /\ i = 26 => 2^i = 67108864
         /\ i = 27 => 2^i = 134217728
         /\ i = 28 => 2^i = 268435456
         /\ i = 29 => 2^i = 536870912
         /\ i = 30 => 2^i = 1073741824
         /\ i = 31 => 2^i = 2147483648
<1>0. i = 0 => 2^i = 1  OBVIOUS
<1>1. i = 1 => 2^i = 2  OBVIOUS
<1>2. i = 2 => 2^i = 4  OBVIOUS
<1>3. i = 3 => 2^i = 8  OBVIOUS
<1>4. i = 4 => 2^i = 16  OBVIOUS
<1>5. i = 5 => 2^i = 32  OBVIOUS
<1>6. i = 6 => 2^i = 64  OBVIOUS
<1>7. i = 7 => 2^i = 128  OBVIOUS
<1>8. i = 8 => 2^i = 256  OBVIOUS
<1>9. i = 9 => 2^i = 512  OBVIOUS
<1>10. i = 10 => 2^i = 1024  OBVIOUS
<1>11. i = 11 => 2^i = 2048  OBVIOUS
<1>12. i = 12 => 2^i = 4096  OBVIOUS
<1>13. i = 13 => 2^i = 8192  OBVIOUS
<1>14. i = 14 => 2^i = 16384  OBVIOUS
<1>15. i = 15 => 2^i = 32768  OBVIOUS
<1>16. i = 16 => 2^i = 65536  OBVIOUS
<1>17. i = 17 => 2^i = 131072  OBVIOUS
<1>18. i = 18 => 2^i = 262144  OBVIOUS
<1>19. i = 19 => 2^i = 524288  OBVIOUS
<1>20. i = 20 => 2^i = 1048576  OBVIOUS
<1>21. i = 21 => 2^i = 2097152  OBVIOUS
<1>22. i = 22 => 2^i = 4194304  OBVIOUS
<1>23. i = 23 => 2^i = 8388608  OBVIOUS
<1>24. i = 24 => 2^i = 16777216  OBVIOUS
<1>25. i = 25 => 2^i = 33554432  OBVIOUS
<1>26. i = 26 => 2^i = 67108864  OBVIOUS
<1>27. i = 27 => 2^i = 134217728  OBVIOUS
<1>28. i = 28 => 2^i = 268435456  OBVIOUS
<1>29. i = 29 => 2^i = 536870912  OBVIOUS
<1>30. i = 30 => 2^i = 1073741824  OBVIOUS
<1>31. i = 31 => 2^i = 2147483648  OBVIOUS
<1>32. QED
  BY <1>0, <1>1, <1>2, <1>3, <1>4, <1>5, <1>6, <1>7, <1>8, <1>9, <1>10,
       <1>11, <1>12, <1>13, <1>14, <1>15, <1>16, <1>17, <1>18, <1>19, <1>20,
       <1>21, <1>22, <1>23, <1>24, <1>25, <1>26, <1>27, <1>28, <1>29, <1>30,
       <1>31

(* They are positive and double from one to the next.                      *)
LEMMA PowersDouble ==
  \A i \in Bits : 2^i \in Nat /\ 2^i > 0 /\ 2^(i + 1) = 2 * 2^i
<1>1. \A i \in 0..30 : 2^i \in Nat /\ 2^i > 0
  BY PowerTable
<1>2. \A i \in 0..30 : 2^(i + 1) = 2 * 2^i
  BY PowerTable
<1>3. QED
  BY <1>1, <1>2 DEF Bits

(* The shifts by bytes.                                                    *)
LEMMA PowersTimes ==
  /\ \A i \in 0..8 : 2^8 * 2^i = 2^(i + 8)
  /\ \A i \in 0..8 : 2^16 * 2^i = 2^(i + 16)
  /\ \A i \in 0..7 : 2^24 * 2^i = 2^(i + 24)
<1>1. \A i \in 0..8 : 2^8 * 2^i = 2^(i + 8)
  BY PowerTable
<1>2. \A i \in 0..8 : 2^16 * 2^i = 2^(i + 16)
  BY PowerTable
<1>3. \A i \in 0..7 : 2^24 * 2^i = 2^(i + 24)
  BY PowerTable
<1>4. QED
  BY <1>1, <1>2, <1>3

(* They grow.                                                              *)
LEMMA PowersGrow ==
  ASSUME NEW i \in Nat, NEW j \in Nat, i <= j, j <= 31
  PROVE  2^i <= 2^j
BY PowerTable

(* A power that 16 bits hold has an exponent below 16.                     *)
LEMMA SmallPowers ==
  ASSUME NEW m \in Bits, 2^m <= 64512
  PROVE  m <= 15 /\ 2^m \in PowersOfTwo
<1>1. m <= 15
  <2>1. m >= 16 => 2^m >= 65536
    BY PowerTable DEF Bits
  <2>2. QED
    BY <2>1, PowersDouble DEF Bits
<1>2. QED
  BY <1>1, PowerTable DEF PowersOfTwo, Bits

(* Of two powers in order, the exponents are.                              *)
LEMMA PowersInOrder ==
  ASSUME NEW k \in Bits, NEW m \in Bits, 2^k < 2^(m + 1)
  PROVE  2^k <= 2^m
<1>1. k \in Nat /\ k <= 31 /\ m \in Nat /\ m <= 31 /\ m + 1 \in Nat
  BY DEF Bits
<1>2. 2^k \in Nat /\ 2^(m + 1) \in Nat
  BY PowersDouble
<1>3. k <= m \/ m + 1 <= k
  BY <1>1
<1>4. QED
  BY <1>1, <1>2, <1>3, PowersGrow

(* The highest of the bits of a number that are one. *)
LEMMA HighestBit ==
  ASSUME NEW n \in Nat, 0 < n, n < 2^31
  PROVE  \E m \in 0..30 : 2^m <= n /\ n < 2^(m + 1)
OBVIOUS

(* A bit whose power is the highest that fits is one, and those above are  *)
(* zero.                                                                   *)
LEMMA HighestIsOne ==
  ASSUME NEW n \in Nat, NEW m \in Bits, 2^m <= n, n < 2^(m + 1)
  PROVE  m \in Ones(n) /\ \A i \in Ones(n) : i <= m
<1>1. 2^m \in Nat /\ 2^m > 0 /\ 2^(m + 1) = 2 * 2^m
  BY PowersDouble
<1>2. n \div 2^m = 1
  BY <1>1
<1>3. m \in Ones(n)
  BY <1>2 DEF Ones
<1>4. ASSUME NEW i \in Ones(n), i > m
      PROVE  FALSE
  <2>1. i \in Bits /\ m + 1 \in Nat /\ i \in Nat /\ m + 1 <= i /\ i <= 31
    BY <1>4 DEF Ones, Bits
  <2>2. 2^i \in Nat /\ 2^i > 0 /\ 2^(m + 1) <= 2^i
    BY <2>1, PowersDouble, PowersGrow
  <2>3. n < 2^i
    BY <1>1, <2>2
  <2>4. n \div 2^i = 0
    BY <2>2, <2>3
  <2>5. QED
    BY <2>4 DEF Ones
<1>5. QED
  BY <1>3, <1>4 DEF Ones, Bits

(* When the k bits from the highest down are one, a shift by k and | make  *)
(* it twice as many.                                                       *)
LEMMA Smear ==
  ASSUME NEW m \in Bits, NEW k \in Nat, NEW ones \in SUBSET (0..m),
         \A i \in 0..m : i > m - k => i \in ones
  PROVE  /\ ones \cup ShiftRight(ones, k) \in SUBSET (0..m)
         /\ \A i \in 0..m : i > m - 2 * k => i \in ones \cup ShiftRight(ones, k)
<1>1. ShiftRight(ones, k) \subseteq 0..m
  BY DEF ShiftRight, Bits
<1>2. ASSUME NEW i \in 0..m, i > m - 2 * k, i <= m - k
      PROVE  i \in ShiftRight(ones, k)
  <2>1. i \in Bits /\ i + k \in 0..m /\ i + k > m - k
    BY <1>2 DEF Bits
  <2>2. QED
    BY <2>1 DEF ShiftRight
<1>3. \A i \in 0..m : i > m - 2 * k => i \in ones \cup ShiftRight(ones, k)
  BY <1>2 DEF Bits
<1>4. QED
  BY <1>1, <1>3

(* A byte of the bits 0..m: empty, full, or one less than a power of two.  *)
LEMMA Bytes ==
  ASSUME NEW m \in Int, NEW k \in Nat
  PROVE  /\ m < k => Byte(0..m, k) = 0
         /\ m >= k + 7 => Byte(0..m, k) = 255
         /\ m >= k /\ m <= k + 7 => Byte(0..m, k) = 2^(m - k + 1) - 1
<1>1. m < k => Byte(0..m, k) = 0
  BY DEF Byte
<1>2. m >= k + 7 => Byte(0..m, k) = 255
  BY DEF Byte
<1>3. ASSUME m >= k, m <= k + 7
      PROVE  Byte(0..m, k) = 2^(m - k + 1) - 1
  <2>1. CASE m = k + 0
    <3>1. Byte(0..m, k) = 1
      BY <2>1 DEF Byte
    <3>2. 2^(m - k + 1) = 2
      BY <2>1, PowerTable
    <3>3. QED
      BY <3>1, <3>2
  <2>2. CASE m = k + 1
    <3>1. Byte(0..m, k) = 3
      BY <2>2 DEF Byte
    <3>2. 2^(m - k + 1) = 4
      BY <2>2, PowerTable
    <3>3. QED
      BY <3>1, <3>2
  <2>3. CASE m = k + 2
    <3>1. Byte(0..m, k) = 7
      BY <2>3 DEF Byte
    <3>2. 2^(m - k + 1) = 8
      BY <2>3, PowerTable
    <3>3. QED
      BY <3>1, <3>2
  <2>4. CASE m = k + 3
    <3>1. Byte(0..m, k) = 15
      BY <2>4 DEF Byte
    <3>2. 2^(m - k + 1) = 16
      BY <2>4, PowerTable
    <3>3. QED
      BY <3>1, <3>2
  <2>5. CASE m = k + 4
    <3>1. Byte(0..m, k) = 31
      BY <2>5 DEF Byte
    <3>2. 2^(m - k + 1) = 32
      BY <2>5, PowerTable
    <3>3. QED
      BY <3>1, <3>2
  <2>6. CASE m = k + 5
    <3>1. Byte(0..m, k) = 63
      BY <2>6 DEF Byte
    <3>2. 2^(m - k + 1) = 64
      BY <2>6, PowerTable
    <3>3. QED
      BY <3>1, <3>2
  <2>7. CASE m = k + 6
    <3>1. Byte(0..m, k) = 127
      BY <2>7 DEF Byte
    <3>2. 2^(m - k + 1) = 128
      BY <2>7, PowerTable
    <3>3. QED
      BY <3>1, <3>2
  <2>8. CASE m = k + 7
    <3>1. Byte(0..m, k) = 255
      BY <2>8 DEF Byte
    <3>2. 2^(m - k + 1) = 256
      BY <2>8, PowerTable
    <3>3. QED
      BY <3>1, <3>2
  <2>9. QED
    BY <1>3, <2>1, <2>2, <2>3, <2>4, <2>5, <2>6, <2>7, <2>8
<1>4. QED
  BY <1>1, <1>2, <1>3

(* The bits up to the highest make a number one less than a power of two. *)
LEMMA AllOnes ==
  ASSUME NEW m \in -1..30
  PROVE  Number(0..m) = 2^(m + 1) - 1
<1>1. CASE m = -1
  <2>1. Number(0..m) = 0
    <3>1. \A k \in Nat : Byte(0..m, k) = 0
      BY <1>1, Bytes
    <3>2. QED
      BY <3>1 DEF Number
  <2>2. 2^(m + 1) = 1
    BY <1>1, PowerTable
  <2>3. QED
    BY <2>1, <2>2
<1>2. CASE m \in 0..7
  <2>1. Byte(0..m, 0) = 2^(m + 1) - 1
    BY <1>2, Bytes
  <2>2. Byte(0..m, 8) = 0
    BY <1>2, Bytes
  <2>3. Byte(0..m, 16) = 0
    BY <1>2, Bytes
  <2>4. Byte(0..m, 24) = 0
    BY <1>2, Bytes
  <2>5. 2^(m + 1) \in Int
    BY <1>2, PowerTable
  <2>6. QED
    BY <2>1, <2>2, <2>3, <2>4, <2>5 DEF Number
<1>3. CASE m \in 8..15
  <2>1. Byte(0..m, 0) = 255
    BY <1>3, Bytes
  <2>2. Byte(0..m, 8) = 2^(m - 8 + 1) - 1
    BY <1>3, Bytes
  <2>3. Byte(0..m, 16) = 0
    BY <1>3, Bytes
  <2>4. Byte(0..m, 24) = 0
    BY <1>3, Bytes
  <2>5. 2^8 * 2^(m - 8 + 1) = 2^(m + 1)
    <3>1. PICK d \in 0..8 : d = m - 8 + 1 /\ d + 8 = m + 1
      BY <1>3
    <3>2. 2^8 * 2^d = 2^(d + 8)
      BY <1>3, <3>1, PowersTimes
    <3>3. QED
      BY <3>1, <3>2
  <2>6. 2^(m - 8 + 1) \in Int
    BY <1>3, PowerTable
  <2>7. QED
    BY <2>1, <2>2, <2>3, <2>4, <2>5, <2>6 DEF Number
<1>4. CASE m \in 16..23
  <2>1. Byte(0..m, 0) = 255
    BY <1>4, Bytes
  <2>2. Byte(0..m, 8) = 255
    BY <1>4, Bytes
  <2>3. Byte(0..m, 16) = 2^(m - 16 + 1) - 1
    BY <1>4, Bytes
  <2>4. Byte(0..m, 24) = 0
    BY <1>4, Bytes
  <2>5. 2^16 * 2^(m - 16 + 1) = 2^(m + 1)
    <3>1. PICK d \in 0..8 : d = m - 16 + 1 /\ d + 16 = m + 1
      BY <1>4
    <3>2. 2^16 * 2^d = 2^(d + 16)
      BY <1>4, <3>1, PowersTimes
    <3>3. QED
      BY <3>1, <3>2
  <2>6. 2^(m - 16 + 1) \in Int
    BY <1>4, PowerTable
  <2>7. QED
    BY <2>1, <2>2, <2>3, <2>4, <2>5, <2>6 DEF Number
<1>5. CASE m \in 24..30
  <2>1. Byte(0..m, 0) = 255
    BY <1>5, Bytes
  <2>2. Byte(0..m, 8) = 255
    BY <1>5, Bytes
  <2>3. Byte(0..m, 16) = 255
    BY <1>5, Bytes
  <2>4. Byte(0..m, 24) = 2^(m - 24 + 1) - 1
    BY <1>5, Bytes
  <2>5. 2^24 * 2^(m - 24 + 1) = 2^(m + 1)
    <3>1. PICK d \in 0..7 : d = m - 24 + 1 /\ d + 24 = m + 1
      BY <1>5
    <3>2. 2^24 * 2^d = 2^(d + 24)
      BY <1>5, <3>1, PowersTimes
    <3>3. QED
      BY <3>1, <3>2
  <2>6. 2^(m - 24 + 1) \in Int
    BY <1>5, PowerTable
  <2>7. QED
    BY <2>1, <2>2, <2>3, <2>4, <2>5, <2>6 DEF Number
<1>6. QED
  BY <1>1, <1>2, <1>3, <1>4, <1>5

(* The bit trick gives the highest power of two that is not above n. *)
LEMMA PreviousPowOf2 ==
  ASSUME NEW n \in Nat, 0 < n, n < 2^31
  PROVE  \E m \in Bits : /\ previousPowOf2(n) = 2^m
                         /\ 2^m <= n /\ n < 2^(m + 1)
<1>1. PICK m \in Bits : 2^m <= n /\ n < 2^(m + 1)
  BY HighestBit DEF Bits
<1> DEFINE n1  == Ones(n) \cup ShiftRight(Ones(n), 1)
           n2  == n1 \cup ShiftRight(n1, 2)
           n4  == n2 \cup ShiftRight(n2, 4)
           n8  == n4 \cup ShiftRight(n4, 8)
           n16 == n8 \cup ShiftRight(n8, 16)
           Filled(ones, k) ==
             ones \in SUBSET (0..m) /\ \A i \in 0..m : i > m - k => i \in ones
<1>2. Filled(Ones(n), 1)
  <2>1. m \in Ones(n) /\ \A i \in Ones(n) : i <= m
    BY <1>1, HighestIsOne
  <2>2. Ones(n) \in SUBSET (0..m)
    <3>1. \A i \in Ones(n) : i \in 0..30
      BY DEF Ones, Bits
    <3>2. \A i \in Ones(n) : i \in 0..m
      BY <2>1, <3>1 DEF Bits
    <3>3. QED
      BY <3>2
  <2>3. \A i \in 0..m : i > m - 1 => i = m
    BY DEF Bits
  <2>4. QED
    BY <2>1, <2>2, <2>3
<1>3. ASSUME NEW ones, NEW k \in Nat, Filled(ones, k)
      PROVE  Filled(ones \cup ShiftRight(ones, k), 2 * k)
  BY <1>3, Smear
<1> HIDE DEF Filled
<1>4. Filled(n1, 2)
  BY <1>2, <1>3
<1> HIDE DEF n1
<1>5. Filled(n2, 4)
  BY <1>3, <1>4
<1> HIDE DEF n2
<1>6. Filled(n4, 8)
  BY <1>3, <1>5
<1> HIDE DEF n4
<1>7. Filled(n8, 16)
  BY <1>3, <1>6
<1> HIDE DEF n8
<1>8. Filled(n16, 32)
  BY <1>3, <1>7
<1> HIDE DEF n16
<1>9. n16 = 0..m
  <2>1. \A i \in 0..m : i > m - 32
    BY DEF Bits
  <2>2. QED
    BY <1>8, <2>1 DEF Filled
<1>10. ShiftRight(n16, 1) = 0..(m - 1)
  <2>1. \A i : i \in ShiftRight(n16, 1) <=> i \in 0..(m - 1)
    <3>1. ASSUME NEW i \in ShiftRight(n16, 1)
          PROVE  i \in 0..(m - 1)
      BY <1>9, <3>1 DEF ShiftRight, Bits
    <3>2. ASSUME NEW i \in 0..(m - 1)
          PROVE  i \in ShiftRight(n16, 1)
      <4>1. i \in Bits /\ i + 1 \in 0..m
        BY DEF Bits
      <4>2. QED
        BY <1>9, <4>1 DEF ShiftRight
    <3>3. QED
      BY <3>1, <3>2
  <2>2. QED
    BY <2>1
<1>11. Number(0..m) - Number(0..(m - 1)) = 2^m
  <2>1. Number(0..m) = 2^(m + 1) - 1 /\ Number(0..(m - 1)) = 2^m - 1
    <3>1. m \in -1..30 /\ m - 1 \in -1..30 /\ m - 1 + 1 = m
      BY DEF Bits
    <3>2. QED
      BY <3>1, AllOnes
  <2>2. 2^m \in Nat /\ 2^(m + 1) = 2 * 2^m
    BY PowersDouble
  <2>3. QED
    BY <2>1, <2>2
<1>12. previousPowOf2(n) = Number(n16) - Number(ShiftRight(n16, 1))
  BY DEF previousPowOf2, n1, n2, n4, n8, n16
<1>13. QED
  BY <1>1, <1>9, <1>10, <1>11, <1>12

(* What the validation lets through is a power of two. *)
LEMMA PowersPass ==
  ASSUME NEW v \in Nat, v < 2^31, ~ValidatePowerOfTwo(v)
  PROVE  \E m \in Bits : v = 2^m
<1>1. 0 < v
  BY DEF ValidatePowerOfTwo
<1>2. PICK m \in Bits : 2^m <= v /\ v < 2^(m + 1)
  BY <1>1, HighestBit DEF Bits
<1>3. 2^m \in Nat
  BY PowersDouble
<1>4. CASE 2^m < v
  <2>1. v - 1 \in Nat /\ 2^m <= v - 1 /\ v - 1 < 2^(m + 1)
    BY <1>2, <1>3, <1>4, PowersDouble DEF Bits
  <2>2. m \in Ones(v) /\ m \in Ones(v - 1)
    BY <1>2, <2>1, HighestIsOne
  <2>3. QED
    BY <2>2 DEF ValidatePowerOfTwo
<1>5. QED
  BY <1>2, <1>3, <1>4

-----------------------------------------------------------------------------
(* The sets of inputs, without their bounds.                               *)
LEMMA RequestsAreInt == Requested \subseteq Int
BY InputsAssumption

(* Likewise for the bits of hosts.                                         *)
LEMMA NaturalHostBits == HostBits \subseteq Nat
BY InputsAssumption

(* A shoot that was admitted passes the validation, and the gateway is     *)
(* made for it.                                                            *)
PortsInv ==
  /\ shoot # NoObject =>
       shoot \in Shoots /\ ValidateNetworking(shoot) /\ ValidateInfrastructureConfig(shoot)
  /\ ports # NoObject =>
       shoot # NoObject /\ ports = PortsPerNetworkInterface(shoot)

(* It holds in the beginning, and every step keeps it.                     *)
LEMMA PortsInvariant == PortsSpec => []PortsInv
<1>1. PortsInit => PortsInv
  BY DEF PortsInit, PortsInv
<1>2. ASSUME PortsInv, [PortsNext]_portsVars
      PROVE  PortsInv'
  <2>1. ASSUME NEW s \in Shoots, AdmitShoot(s)
        PROVE  PortsInv'
    BY <1>2, <2>1 DEF PortsInv, AdmitShoot
  <2>2. CASE ApplyNATGateway
    BY <1>2, <2>2 DEF PortsInv, ApplyNATGateway
  <2>3. CASE UNCHANGED portsVars
    BY <1>2, <2>3 DEF PortsInv, portsVars
  <2>4. QED
    BY <1>2, <2>1, <2>2, <2>3 DEF PortsNext
<1>3. QED
  BY <1>1, <1>2, PTL DEF PortsSpec

(* The share of an address is a number of 16 bits.                         *)
LEMMA Shares ==
  ASSUME NEW h \in Nat
  PROVE  Share(h) \in Nat /\ Share(h) <= 64512
<1>1. CASE h < 16
  <2>1. h \in Bits
    BY <1>1 DEF Bits
  <2>2. 2^h \in Nat /\ 2^h > 0
    BY <2>1, PowersDouble
  <2>3. Share(h) = 64512 \div 2^h
    BY <1>1 DEF Share, MaxAvailableNATPortsPerNetworkInterface
  <2>4. QED
    BY <2>2, <2>3
<1>2. CASE ~(h < 16)
  BY <1>2 DEF Share
<1>3. QED
  BY <1>1, <1>2

(* A number that was asked for, and that can be had, is a power of two.    *)
LEMMA Requests ==
  ASSUME NEW s \in Shoots, s.requested # Unset, ValidateInfrastructureConfig(s)
  PROVE  \E k \in Bits : s.requested = 2^k /\ 2^k \in PowersOfTwo
<1>1. s.requested \in Int
  BY RequestsAreInt DEF Shoots
<1>2. s.requested <= 64512 /\ ~ValidatePowerOfTwo(s.requested)
  BY DEF ValidateInfrastructureConfig, MaxAvailableNATPortsPerNetworkInterface
<1>3. s.requested \in Nat /\ s.requested < 2^31
  BY <1>1, <1>2 DEF ValidatePowerOfTwo
<1>4. PICK k \in Bits : s.requested = 2^k
  BY <1>2, <1>3, PowersPass
<1>5. 2^k \in PowersOfTwo
  BY <1>2, <1>4, SmallPowers
<1>6. QED
  BY <1>4, <1>5

(* Where there is a number of ports, it is the one asked for or the part   *)
(* of the share that is a power of two.                                    *)
LEMMA PortsOfShoot ==
  ASSUME PortsInv, ports \notin {NoObject, Unset}
  PROVE  /\ shoot \in Shoots /\ ValidateInfrastructureConfig(shoot) /\ shoot.requested # Unset
         /\ Share(shoot.nodes) \in Nat /\ Share(shoot.nodes) <= 64512
         /\ IF Share(shoot.nodes) < shoot.requested
            THEN ports = shoot.requested ELSE ports = previousPowOf2(Share(shoot.nodes))
<1>1. shoot \in Shoots /\ ValidateInfrastructureConfig(shoot)
  BY DEF PortsInv
<1>2. ports = PortsPerNetworkInterface(shoot) /\ shoot.requested # Unset /\ shoot.nodes # Unset
  BY DEF PortsInv, PortsPerNetworkInterface
<1>3. shoot.nodes \in Nat
  BY <1>1, <1>2, NaturalHostBits DEF Shoots
<1>4. QED
  BY <1>1, <1>2, <1>3, Shares DEF PortsPerNetworkInterface

(* PortsAreRight: for any requests and any size of the nodes CIDR, the     *)
(* gateway reserves a power of two, at least what was asked for, and the   *)
(* most an address can have where one public IP is enough.                 *)
THEOREM PortsFit == PortsSpec => []PortsAreRight
<1>1. ASSUME PortsInv
      PROVE  PortsAreRight
  <2> SUFFICES ASSUME ports \notin {NoObject, Unset}
               PROVE  /\ ports \in PowersOfTwo
                      /\ ports >= shoot.requested
                      /\ Share(shoot.nodes) >= shoot.requested =>
                           ports <= Share(shoot.nodes) /\ 2 * ports > Share(shoot.nodes)
    BY DEF PortsAreRight
  <2> DEFINE share == Share(shoot.nodes)
  <2>1. PICK k \in Bits : shoot.requested = 2^k /\ 2^k \in PowersOfTwo
    BY <1>1, PortsOfShoot, Requests
  <2>2. 2^k \in Nat /\ 2^k > 0
    BY PowersDouble
  <2>3. share \in Nat /\ share <= 64512
    BY <1>1, PortsOfShoot
  <2>4. CASE share < 2^k
    <3>1. ports = 2^k
      BY <1>1, <2>1, <2>4, PortsOfShoot
    <3>2. QED
      BY <2>1, <2>2, <2>3, <2>4, <3>1
  <2>5. CASE share >= 2^k
    <3>1. ports = previousPowOf2(share)
      BY <1>1, <2>1, <2>2, <2>3, <2>5, PortsOfShoot
    <3>2. share \in Nat /\ 0 < share /\ share < 2^31
      BY <2>2, <2>3, <2>5
    <3> HIDE DEF share
    <3>3. PICK m \in Bits : ports = 2^m /\ 2^m <= share /\ share < 2^(m + 1)
      BY <3>1, <3>2, PreviousPowOf2
    <3>4. 2^m \in Nat /\ 2^(m + 1) = 2 * 2^m
      BY PowersDouble
    <3>5. 2^k <= 2^m
      <4>1. 2^k < 2^(m + 1)
        BY <2>2, <2>5, <3>2, <3>3, <3>4 DEF share
      <4>2. QED
        BY <4>1, PowersInOrder
    <3>6. 2^m <= 64512
      BY <2>3, <3>3, <3>4
    <3>7. ports \in PowersOfTwo
      BY <3>3, <3>6, SmallPowers
    <3>8. QED
      BY <2>1, <3>2, <3>3, <3>4, <3>5, <3>7 DEF share
  <2>6. QED
    BY <2>2, <2>3, <2>4, <2>5
<1>2. QED
  BY <1>1, PortsInvariant, PTL

(* RequestsAreHonoured: whoever asks for ports, for any number and any     *)
(* size of the nodes CIDR, gets at least that many.                        *)
THEOREM RequestsAreGranted == PortsSpec => []RequestsAreHonoured
<1>1. ASSUME PortsInv, PortsAreRight
      PROVE  RequestsAreHonoured
  <2> SUFFICES ASSUME ports # NoObject, shoot.requested # Unset
               PROVE  ports # Unset /\ ports >= shoot.requested
    BY DEF RequestsAreHonoured
  <2>1. /\ shoot \in Shoots /\ ValidateNetworking(shoot)
        /\ ports = PortsPerNetworkInterface(shoot)
    BY <1>1 DEF PortsInv
  <2>2. shoot.nodes \in Nat /\ shoot.requested \in Int
    BY <2>1, NaturalHostBits, RequestsAreInt DEF Shoots, ValidateNetworking
  <2>3. ports \in Int
    <3>1. Share(shoot.nodes) \in Nat /\ Share(shoot.nodes) <= 64512
      BY <2>2, Shares
    <3>2. CASE Share(shoot.nodes) < shoot.requested
      BY <2>1, <2>2, <3>2 DEF PortsPerNetworkInterface, ValidateNetworking
    <3>3. CASE ~(Share(shoot.nodes) < shoot.requested)
      <4>1. PICK k \in Bits : shoot.requested = 2^k /\ 2^k \in PowersOfTwo
        BY <1>1, <2>1, Requests DEF PortsInv
      <4>2. 2^k \in Nat /\ 2^k > 0
        BY PowersDouble
      <4>3. Share(shoot.nodes) \in Nat /\ 0 < Share(shoot.nodes) /\ Share(shoot.nodes) < 2^31
        BY <3>1, <3>3, <4>1, <4>2
      <4>4. PICK m \in Bits : previousPowOf2(Share(shoot.nodes)) = 2^m
        BY <4>3, PreviousPowOf2
      <4>5. 2^m \in Nat
        BY PowersDouble
      <4>6. QED
        BY <2>1, <3>3, <4>4, <4>5 DEF PortsPerNetworkInterface, ValidateNetworking
    <3>4. QED
      BY <3>2, <3>3
  <2>4. QED
    BY <1>1, <2>3, UnsetAssumption DEF PortsAreRight
<1>2. QED
  BY <1>1, PortsInvariant, PortsFit, PTL

-----------------------------------------------------------------------------
(* What the admission has let through, as long as the parent is the same. *)
AdmittedInv ==
  /\ ValidateCloudProfileConfig(parent)
  /\ admitted =>
       /\ validateMachineImages(own, parent)
       /\ \A o \in own.offers :
            (\E a \in parent.offers : SameVersion(a, o)) => o \in parent.offers

ReadInv ==
  /\ read = [parent |-> read.parent, offers |-> read.offers,
             sameOwn |-> read.sameOwn, sameParent |-> read.sameParent]
  /\ read.sameOwn    => read.offers = own.offers
  /\ read.sameParent => read.parent = parent

Merged(ownMaps, maps) ==
  IF ownMaps # {} THEN mergeMachineImages(ownMaps, maps) ELSE {maps}

(* A status that is current is made of the two profiles there are. *)
StatusInv ==
  /\ status = [offers |-> status.offers, maps |-> status.maps, current |-> status.current]
  /\ status.current =>
       /\ status.offers = parent.offers \cup own.offers
       /\ status.maps \in Merged(own.maps, parent.maps)

ImagesInv == AdmittedInv /\ ReadInv /\ StatusInv

LEMMA InitImages == ImagesInit => ImagesInv
<1> SUFFICES ASSUME ImagesInit PROVE ImagesInv
  OBVIOUS
<1>1. AdmittedInv
  BY DEF ImagesInit, AdmittedInv, EmptyProfile, ValidateCloudProfileConfig, validateMachineImages
<1>2. ReadInv
  BY DEF ImagesInit, ReadInv, NothingRead
<1>3. StatusInv
  BY DEF ImagesInit, StatusInv
<1>4. QED
  BY <1>1, <1>2, <1>3 DEF ImagesInv

LEMMA NextImages ==
  ASSUME ImagesInv, [ImagesNext]_imagesVars
  PROVE  ImagesInv'
<1> USE DEF ImagesInv
<1>1. ASSUME NEW p \in CloudProfiles, UpdateCloudProfile(p)
      PROVE  ImagesInv'
  <2>1. AdmittedInv'
    BY <1>1 DEF UpdateCloudProfile, AdmittedInv, ValidateCloudProfileConfig
  <2>2. ReadInv'
    BY <1>1 DEF UpdateCloudProfile, ReadInv
  <2>3. StatusInv'
    BY <1>1 DEF UpdateCloudProfile, StatusInv
  <2>4. QED
    BY <2>1, <2>2, <2>3
<1>2. ASSUME NEW p \in NamespacedProfiles, UpdateNamespacedCloudProfile(p)
      PROVE  ImagesInv'
  <2>1. AdmittedInv'
    BY <1>2 DEF UpdateNamespacedCloudProfile, AdmittedInv, ValidateCloudProfileConfig,
       validateMachineImages
  <2>2. ReadInv'
    BY <1>2 DEF UpdateNamespacedCloudProfile, ReadInv
  <2>3. StatusInv'
    BY <1>2 DEF UpdateNamespacedCloudProfile, StatusInv
  <2>4. QED
    BY <2>1, <2>2, <2>3
<1>3. CASE ReadProfiles
  <2>1. AdmittedInv'
    BY <1>3 DEF ReadProfiles, AdmittedInv, ValidateCloudProfileConfig, validateMachineImages
  <2>2. ReadInv'
    BY <1>3 DEF ReadProfiles, ReadInv
  <2>3. StatusInv'
    BY <1>3 DEF ReadProfiles, StatusInv
  <2>4. QED
    BY <2>1, <2>2, <2>3
<1>4. CASE WriteStatus
  <2>1. AdmittedInv'
    BY <1>4 DEF WriteStatus, AdmittedInv, ValidateCloudProfileConfig, validateMachineImages
  <2>2. ReadInv'
    BY <1>4 DEF WriteStatus, ReadInv, NothingRead
  <2>3. PICK maps \in Mutate(read.parent.maps) :
          status' = [offers  |-> read.parent.offers \cup read.offers,
                     maps    |-> maps,
                     current |-> read.sameOwn /\ read.sameParent]
    BY <1>4 DEF WriteStatus
  <2>4. own' = own /\ parent' = parent
    BY <1>4 DEF WriteStatus
  <2>5. read.sameOwn /\ read.sameParent => maps \in Merged(own.maps, parent.maps)
    BY <2>3 DEF ReadInv, Mutate, Merged
  <2>6. StatusInv'
    BY <2>3, <2>4, <2>5 DEF ReadInv, StatusInv, Merged
  <2>7. QED
    BY <2>1, <2>2, <2>6
<1>5. CASE UNCHANGED imagesVars
  <2>1. /\ parent' = parent /\ own' = own /\ admitted' = admitted
        /\ read' = read /\ status' = status
    BY <1>5 DEF imagesVars
  <2>2. AdmittedInv' /\ ReadInv' /\ StatusInv'
    BY <2>1 DEF AdmittedInv, ReadInv, StatusInv
  <2>3. QED
    BY <2>2
<1>6. QED
  BY <1>1, <1>2, <1>3, <1>4, <1>5 DEF ImagesNext

-----------------------------------------------------------------------------
(* Every version keeps an entry, and there are no new ones. *)
LEMMA OneEntryStays ==
  ASSUME NEW maps, NEW R \in OneEntryPerVersion(maps)
  PROVE  R \subseteq maps /\ \A m \in maps : \E n \in R : SameVersion(n, m)
<1> DEFINE ambiguous == {m \in maps : \E n \in maps : n # m /\ SameVersion(n, m)}
<1>1. PICK kept \in {k \in SUBSET ambiguous : \A m \in ambiguous :
                    \E n \in k : SameVersion(n, m) /\ \A j \in k : SameVersion(j, m) => j = n} :
        R = (maps \ ambiguous) \cup kept
  BY Zenon DEF OneEntryPerVersion
<1>2. R \subseteq maps
  BY <1>1
<1>3. ASSUME NEW m \in maps
      PROVE  \E n \in R : SameVersion(n, m)
  <2>1. CASE m \in ambiguous
    <3>1. PICK n \in kept : SameVersion(n, m)
      BY <1>1, <2>1
    <3>2. QED
      BY <1>1, <3>1
  <2>2. CASE m \notin ambiguous
    <3>1. m \in R
      BY <1>1, <2>2
    <3>2. QED
      BY <3>1 DEF SameVersion
  <2>3. QED
    BY <2>1, <2>2
<1>4. QED
  BY <1>2, <1>3

(***************************************************************************)
(* The merge invents no entries, and of every entry it keeps that one or   *)
(* another of the same version, unless it is the parent's and the profile  *)
(* has an entry of that version.                                           *)
(***************************************************************************)
LEMMA Merging ==
  ASSUME NEW O, NEW M, NEW R \in Merged(O, M)
  PROVE  /\ R \subseteq O \cup M
         /\ \A m \in O \cup M : m \in O \/ ~(\E o \in O : SameVersion(o, m)) =>
              \E n \in R : SameVersion(n, m)
<1> DEFINE inBoth(e) == (\E o \in O : o.name = e.name) /\ (\E s \in M : s.name = e.name)
           replaced(s) == \E o \in O : SameVersion(o, s)
           anew == {e \in O \cup {s \in M : ~replaced(s)} : inBoth(e)}
           untouched == {e \in O \cup M : ~inBoth(e)}
<1>1. \A m : SameVersion(m, m)
  BY DEF SameVersion
<1>2. CASE O = {}
  BY <1>1, <1>2 DEF Merged
<1>3. CASE O # {}
  <2>1. PICK kept \in OneEntryPerVersion(anew) : R = untouched \cup kept
    BY <1>3, Zenon DEF Merged, mergeMachineImages
  <2>2. kept \subseteq anew /\ \A m \in anew : \E n \in kept : SameVersion(n, m)
    BY OneEntryStays
  <2>3. \A m \in O \cup M : m \in O \/ ~replaced(m) => m \in untouched \/ m \in anew
    BY Zenon
  <2>4. R \subseteq O \cup M
    BY <2>1, <2>2
  <2>5. ASSUME NEW m \in O \cup M, m \in O \/ ~replaced(m)
        PROVE  \E n \in R : SameVersion(n, m)
    <3>1. CASE m \in untouched
      BY <1>1, <2>1, <3>1
    <3>2. CASE m \in anew
      <4>1. PICK n \in kept : SameVersion(n, m)
        BY <2>2, <3>2
      <4>2. QED
        BY <2>1, <4>1
    <3>3. QED
      BY <2>3, <2>5, <3>1, <3>2
  <2>6. QED
    BY <2>4, <2>5
<1>4. QED
  BY <1>2, <1>3

(***************************************************************************)
(* A profile of a project never redirects an image its CloudProfile        *)
(* offers: it maps no version the parent has.                              *)
(***************************************************************************)
THEOREM ParentsImagesStand == ImagesSpec => []OwnImagesNeverShadow
<1>1. ImagesInv => OwnImagesNeverShadow
  <2> SUFFICES ASSUME ImagesInv, Consistent, NEW o \in parent.offers,
                      NEW m \in status.maps, SameKey(m, o)
               PROVE  m \in parent.maps
    BY DEF OwnImagesNeverShadow, FindImageFromCloudProfile
  <2>1. m \in own.maps \cup parent.maps
    BY Merging DEF ImagesInv, StatusInv, Consistent
  <2>2. ~(m \in own.maps)
    BY DEF ImagesInv, AdmittedInv, Consistent, validateMachineImages, SameKey, SameVersion
  <2>3. QED
    BY <2>1, <2>2
<1>2. QED
  BY <1>1, InitImages, NextImages, PTL DEF ImagesSpec

(***************************************************************************)
(* Every image the merged profile offers is found in its mapping, as long  *)
(* as no version comes in several architectures.                           *)
(***************************************************************************)
THEOREM OffersAreMapped == ImagesSpec => []OfferedImagesAreFound
<1>1. ImagesInv => OfferedImagesAreFound
  <2> SUFFICES ASSUME ImagesInv, Consistent, OneArchitecture, NEW o \in status.offers
               PROVE  FindImageFromCloudProfile(status.maps, o) # {}
    BY DEF OfferedImagesAreFound
  <2>1. o \in parent.offers \cup own.offers /\ status.maps \in Merged(own.maps, parent.maps)
    BY DEF ImagesInv, StatusInv, Consistent
  <2>2. /\ validateMachineImages(own, parent) /\ ValidateCloudProfileConfig(parent)
        /\ \A p \in own.offers :
             (\E a \in parent.offers : SameVersion(a, p)) => p \in parent.offers
    BY DEF ImagesInv, AdmittedInv, Consistent
  <2>3. PICK m \in own.maps \cup parent.maps :
          SameKey(m, o) /\ (m \in own.maps \/ ~ \E p \in own.maps : SameVersion(p, m))
    <3>1. CASE o \in parent.offers
      <4>1. PICK m \in parent.maps : SameKey(m, o)
        BY <2>2, <3>1 DEF ValidateCloudProfileConfig
      <4>2. ~ \E p \in own.maps : SameVersion(p, m)
        BY <2>2, <3>1, <4>1 DEF validateMachineImages, SameKey, SameVersion
      <4>3. QED
        BY <4>1, <4>2
    <3>2. CASE o \notin parent.offers
      <4>1. o \in own.offers /\ ~ \E a \in parent.offers : SameVersion(a, o)
        BY <2>1, <2>2, <3>2
      <4>2. QED
        BY <2>2, <4>1 DEF validateMachineImages
    <3>3. QED
      BY <3>1, <3>2
  <2>4. PICK n \in status.maps : SameVersion(n, m)
    BY <2>1, <2>3, Merging
  <2>5. n \in own.maps \cup parent.maps
    BY <2>1, Merging
  <2>6. SameKey(n, m)
    BY <2>3, <2>4, <2>5 DEF OneArchitecture
  <2>7. SameKey(n, o)
    BY <2>3, <2>6 DEF SameKey, SameVersion
  <2>8. QED
    BY <2>4, <2>7 DEF FindImageFromCloudProfile
<1>2. QED
  BY <1>1, InitImages, NextImages, PTL DEF ImagesSpec
=============================================================================
