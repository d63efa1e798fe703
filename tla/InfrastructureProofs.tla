------------------------- MODULE InfrastructureProofs -------------------------
(***************************************************************************)
(* Proofs about Infrastructure, for any number of shoots, any users and    *)
(* any sequence of failures.                                               *)
(***************************************************************************)
EXTENDS Infrastructure, TLAPS

LEMMA AnyConfigType == AnyConfig \in Configs
<1>1. PICK p \in PolicyRefs, q \in Ports : TRUE
  BY NamesAssumption
<1>2. [networkRef |-> None, networkPolicyRef |-> p, natPorts |-> q] \in Configs
  BY <1>1 DEF Configs
<1>3. QED
  BY <1>2 DEF AnyConfig

(* The generated name is a name, and nobody else has it. *)
LEMMA GeneratedName ==
  ASSUME NEW s \in Shoots
  PROVE  /\ generateResourceNameFromCluster(s) \in Names
         /\ generateResourceNameFromCluster(s) # None
         /\ generateResourceNameFromCluster(s) \notin UserNames
         /\ \A t \in Shoots : t # s =>
              generateResourceNameFromCluster(t) # generateResourceNameFromCluster(s)
BY NamesAssumption DEF generateResourceNameFromCluster, Names, GeneratedNames

LEMMA NoRefType == NoRef \in Ref /\ RefsUnset \in [Kinds -> Ref]
BY DEF NoRef, Ref, RefsUnset

-----------------------------------------------------------------------------
(***************************************************************************)
(* Type correctness.                                                       *)
(***************************************************************************)

LEMMA InitType == Init => TypeOK
<1> SUFFICES ASSUME Init PROVE TypeOK
  OBVIOUS
<1>1. objs \in [Kinds -> [Names -> Objects]]
  BY DEF Init, Objects
<1>2. QED
  BY <1>1, AnyConfigType, NoRefType DEF Init, TypeOK, Phases, PCs

LEMMA EndRunType ==
  ASSUME TypeOK, NEW s \in Shoots, EndRun(s)
  PROVE  /\ pc' \in [Shoots -> PCs]
         /\ seen' \in [Shoots -> Configs]
         /\ refs' \in [Shoots -> [Kinds -> Ref]]
BY AnyConfigType, NoRefType DEF TypeOK, EndRun, PCs

LEMMA ReturnsType ==
  ASSUME TypeOK, NEW s \in Shoots, NEW next \in PCs, Returns(s, next)
  PROVE  /\ pc' \in [Shoots -> PCs]
         /\ seen' \in [Shoots -> Configs]
         /\ refs' \in [Shoots -> [Kinds -> Ref]]
         /\ pending' \in [Shoots -> BOOLEAN]
BY EndRunType DEF TypeOK, Returns, FailRun

LEMMA ReturnsRefType ==
  ASSUME TypeOK, NEW s \in Shoots, NEW next \in PCs, NEW k \in Kinds,
         NEW ref \in Ref, ReturnsRef(s, next, k, ref)
  PROVE  /\ pc' \in [Shoots -> PCs]
         /\ seen' \in [Shoots -> Configs]
         /\ refs' \in [Shoots -> [Kinds -> Ref]]
         /\ pending' \in [Shoots -> BOOLEAN]
<1>1. CASE FailRun(s)
  BY <1>1, EndRunType DEF TypeOK, FailRun
<1>2. CASE /\ pc'   = [pc EXCEPT ![s] = next]
           /\ refs' = [refs EXCEPT ![s][k] = ref]
           /\ UNCHANGED <<pending, seen>>
  BY <1>2 DEF TypeOK
<1>3. QED
  BY <1>1, <1>2 DEF ReturnsRef

LEMMA CreateOrPatchType ==
  ASSUME TypeOK, NEW s \in Shoots, NEW next \in PCs, NEW k \in Kinds,
         NEW n \in Names, NEW net \in Names \cup {None},
         NEW ports \in Ports \cup {None},
         CreateOrPatch(s, next, k, n, net, ports)
  PROVE  /\ objs' \in [Kinds -> [Names -> Objects]]
         /\ pc' \in [Shoots -> PCs]
         /\ seen' \in [Shoots -> Configs]
         /\ refs' \in [Shoots -> [Kinds -> Ref]]
         /\ pending' \in [Shoots -> BOOLEAN]
<1>1. objs[k][n].uid + 1 \in Nat
  BY DEF TypeOK, Objects
<1>2. objs' \in [Kinds -> [Names -> Objects]]
  <2>1. CASE objs[k][n].state # "absent"
    BY <2>1 DEF CreateOrPatch, TypeOK
  <2>2. CASE objs[k][n].state = "absent"
    <3> DEFINE o == [state |-> "live", uid |-> objs[k][n].uid + 1,
                     net |-> net, ports |-> ports]
    <3>1. o \in Objects
      BY <1>1 DEF Objects
    <3>2. objs' = [objs EXCEPT ![k][n] = o]
      BY <2>2 DEF CreateOrPatch
    <3>3. QED
      BY <3>1, <3>2 DEF TypeOK
  <2>3. QED
    BY <2>1, <2>2
<1>3. [name |-> n, uid |-> objs'[k][n].uid] \in Ref
  BY <1>2 DEF Ref, Objects
<1>4. QED
  BY <1>2, <1>3, ReturnsRefType DEF CreateOrPatch

LEMMA GetType ==
  ASSUME TypeOK, NEW s \in Shoots, NEW next \in PCs, NEW k \in Kinds,
         NEW n \in Names, Get(s, next, k, n)
  PROVE  /\ objs' \in [Kinds -> [Names -> Objects]]
         /\ pc' \in [Shoots -> PCs]
         /\ seen' \in [Shoots -> Configs]
         /\ refs' \in [Shoots -> [Kinds -> Ref]]
         /\ pending' \in [Shoots -> BOOLEAN]
<1>1. RefTo(k, n) \in Ref
  BY DEF RefTo, Ref, TypeOK, Objects
<1>2. QED
  BY <1>1, ReturnsRefType DEF Get, TypeOK

LEMMA NetworkNameType ==
  ASSUME NEW s \in Shoots, NEW c \in Configs
  PROVE  NetworkName(s, c) \in Names /\ NetworkName(s, c) # None
BY GeneratedName, NamesAssumption DEF NetworkName, Configs, Names, UserNames

(* Replacing one object leaves a well-typed cloud. *)
LEMMA PutType ==
  ASSUME TypeOK, NEW k \in Kinds, NEW n \in Names, NEW o \in Objects,
         objs' = [objs EXCEPT ![k][n] = o]
  PROVE  objs' \in [Kinds -> [Names -> Objects]]
BY DEF TypeOK

LEMMA InStateType ==
  ASSUME NEW o \in Objects, NEW st \in {"absent", "live", "terminating"}
  PROVE  InState(o, st) \in Objects
BY DEF InState, Objects

LEMMA DeleteObjectType ==
  ASSUME TypeOK, NEW s \in Shoots, NEW k \in Kinds, DeleteObject(s, k)
  PROVE  objs' \in [Kinds -> [Names -> Objects]]
<1> DEFINE n == generateResourceNameFromCluster(s)
<1>1. n \in Names
  BY GeneratedName
<1> HIDE DEF n
<1>2. CASE objs' = [objs EXCEPT ![k][n] = InState(@, "terminating")]
  <2>1. objs[k][n] \in Objects
    BY <1>1 DEF TypeOK
  <2>2. QED
    BY <1>1, <1>2, <2>1, InStateType, PutType
<1>3. CASE UNCHANGED objs
  BY <1>3 DEF TypeOK
<1>4. QED
  BY <1>2, <1>3 DEF DeleteObject, n

LEMMA ReconcileType ==
  ASSUME TypeOK, NEW s \in Shoots, ReconcileStep(s)
  PROVE  TypeOK'
<1> USE GeneratedName
<1>1. CASE Validate(s)
  BY <1>1 DEF Validate, TypeOK, PCs, infraVars
<1>2. CASE applyNetwork(s)
  <2>1. CASE seen[s].networkRef # None
    <3>1. seen[s].networkRef \in Names
      BY <2>1 DEF TypeOK, Configs, Names, UserNames
    <3>2. Get(s, "natgateway", "network", seen[s].networkRef)
      BY <1>2, <2>1 DEF applyNetwork
    <3>3. QED
      BY <1>2, <3>1, <3>2, GetType DEF applyNetwork, TypeOK, PCs, Kinds
  <2>2. CASE seen[s].networkRef = None
    <3>1. CreateOrPatch(s, "natgateway", "network",
                        generateResourceNameFromCluster(s), None, None)
      BY <1>2, <2>2 DEF applyNetwork
    <3>2. QED
      BY <1>2, <3>1, CreateOrPatchType DEF applyNetwork, TypeOK, PCs, Kinds
  <2>3. QED
    BY <2>1, <2>2
<1>3. CASE applyNATGateway(s)
  <2>1. refs[s]["network"].name \in Names \cup {None} /\ seen[s].natPorts \in Ports
    BY DEF TypeOK, Ref, Configs, Kinds
  <2>2. CreateOrPatch(s, "prefix", "natgateway",
                      generateResourceNameFromCluster(s),
                      refs[s]["network"].name, seen[s].natPorts)
    BY <1>3 DEF applyNATGateway
  <2>3. /\ objs' \in [Kinds -> [Names -> Objects]]
        /\ pc' \in [Shoots -> PCs] /\ seen' \in [Shoots -> Configs]
        /\ refs' \in [Shoots -> [Kinds -> Ref]] /\ pending' \in [Shoots -> BOOLEAN]
    BY <2>1, <2>2, CreateOrPatchType DEF PCs, Kinds
  <2>4. QED
    BY <1>3, <2>3 DEF applyNATGateway, TypeOK
<1>4. CASE applyPrefix(s)
  BY <1>4, CreateOrPatchType DEF applyPrefix, TypeOK, PCs, Kinds
<1>5. CASE applyNetworkPolicy(s)
  <2>1. CASE seen[s].networkPolicyRef # None
    <3>1. seen[s].networkRef \in Names /\ Get(s, "status", "policy", seen[s].networkRef)
      BY <1>5, <2>1 DEF applyNetworkPolicy, TypeOK, Configs, Names, UserNames
    <3>2. QED
      BY <1>5, <3>1, GetType DEF applyNetworkPolicy, TypeOK, PCs, Kinds
  <2>2. CASE seen[s].networkPolicyRef = None
    <3>1. refs[s]["network"].name \in Names \cup {None}
      BY DEF TypeOK, Ref, Kinds
    <3>2. CreateOrPatch(s, "status", "policy", generateResourceNameFromCluster(s),
                        refs[s]["network"].name, None)
      BY <1>5, <2>2 DEF applyNetworkPolicy
    <3>3. /\ objs' \in [Kinds -> [Names -> Objects]]
          /\ pc' \in [Shoots -> PCs] /\ seen' \in [Shoots -> Configs]
          /\ refs' \in [Shoots -> [Kinds -> Ref]] /\ pending' \in [Shoots -> BOOLEAN]
      BY <3>1, <3>2, CreateOrPatchType DEF PCs, Kinds
    <3>4. QED
      BY <1>5, <3>3 DEF applyNetworkPolicy, TypeOK
  <2>3. QED
    BY <2>1, <2>2
<1>6. CASE updateProviderStatus(s)
  BY <1>6, EndRunType DEF updateProviderStatus, FailRun, TypeOK
<1>7. QED
  BY <1>1, <1>2, <1>3, <1>4, <1>5, <1>6 DEF ReconcileStep

LEMMA DeleteType ==
  ASSUME TypeOK, NEW s \in Shoots, DeleteStep(s)
  PROVE  TypeOK'
<1>1. CASE deletePrefix(s)
  BY <1>1, DeleteObjectType, ReturnsType DEF deletePrefix, TypeOK, PCs, Kinds
<1>2. CASE deleteNATGateway(s)
  BY <1>2, DeleteObjectType, ReturnsType DEF deleteNATGateway, TypeOK, PCs, Kinds
<1>3. CASE deleteNetworkPolicy(s)
  BY <1>3, DeleteObjectType, ReturnsType DEF deleteNetworkPolicy, TypeOK, PCs, Kinds
<1>4. CASE deleteNetwork(s)
  BY <1>4, DeleteObjectType, ReturnsType DEF deleteNetwork, TypeOK, PCs, Kinds
<1>5. CASE Release(s)
  BY <1>5, EndRunType, NoRefType DEF Release, TypeOK, Phases
<1>6. QED
  BY <1>1, <1>2, <1>3, <1>4, <1>5 DEF DeleteStep

LEMMA GardenerType ==
  ASSUME TypeOK, NEW s \in Shoots, GardenerStep(s)
  PROVE  TypeOK'
<1> USE DEF workerVars, TypeOK, Phases
<1>1. ASSUME NEW cfg \in Configs, CreateInfrastructure(s, cfg)
      PROVE  TypeOK'
  BY <1>1 DEF CreateInfrastructure
<1>2. ASSUME NEW cfg \in Configs, UpdateConfig(s, cfg)
      PROVE  TypeOK'
  BY <1>2 DEF UpdateConfig
<1>3. CASE RequestReconcile(s)
  BY <1>3 DEF RequestReconcile
<1>4. CASE RequestDeletion(s)
  BY <1>4 DEF RequestDeletion
<1>5. CASE RequestMigration(s)
  BY <1>5 DEF RequestMigration
<1>6. CASE RequestRestore(s)
  BY <1>6 DEF RequestRestore
<1>7. QED
  BY <1>1, <1>2, <1>3, <1>4, <1>5, <1>6 DEF GardenerStep

LEMMA CloudType ==
  ASSUME TypeOK, CloudStep
  PROVE  TypeOK'
<1> SUFFICES objs' \in [Kinds -> [Names -> Objects]] /\ UNCHANGED <<infraVars, workerVars>>
  BY DEF TypeOK, infraVars, workerVars
<1>1. PICK k \in Kinds, n \in Names :
        UserCreates(k, n) \/ UserDeletes(k, n) \/ Vanish(k, n)
  BY DEF CloudStep, Kinds, Names, UserNames
<1>2. objs[k][n] \in Objects
  BY DEF TypeOK
<1>3. CASE UserCreates(k, n)
  <2>1. [state |-> "live", uid |-> objs[k][n].uid + 1,
         net |-> None, ports |-> None] \in Objects
    BY <1>2 DEF Objects
  <2>2. QED
    BY <1>3, <2>1, PutType DEF UserCreates
<1>4. CASE UserDeletes(k, n)
  BY <1>2, <1>4, InStateType, PutType DEF UserDeletes
<1>5. CASE Vanish(k, n)
  BY <1>2, <1>5, InStateType, PutType DEF Vanish
<1>6. QED
  BY <1>1, <1>3, <1>4, <1>5

LEMMA NextType == TypeOK /\ [Next]_vars => TypeOK'
<1> SUFFICES ASSUME TypeOK, [Next]_vars PROVE TypeOK'
  OBVIOUS
<1>1. ASSUME NEW s \in Shoots, Begin(s)
      PROVE  TypeOK'
  BY <1>1 DEF Begin, FirstStep, TypeOK, PCs
<1>2. ASSUME NEW s \in Shoots, LookupFails(s) \/ Abort(s)
      PROVE  TypeOK'
  BY <1>2, EndRunType DEF LookupFails, Abort, FailRun, TypeOK
<1>3. ASSUME NEW s \in Shoots, Migrate(s)
      PROVE  TypeOK'
  BY <1>3, EndRunType DEF Migrate, TypeOK, Phases
<1>4. CASE UNCHANGED vars
  BY <1>4 DEF vars, infraVars, workerVars, TypeOK
<1>5. QED
  BY <1>1, <1>2, <1>3, <1>4, ReconcileType, DeleteType, GardenerType, CloudType
  DEF Next, RunStep

(* Every variable keeps its type, whatever fails. *)
THEOREM TypeCorrect == Spec => []TypeOK
BY InitType, NextType, PTL DEF Spec

-----------------------------------------------------------------------------
(***************************************************************************)
(* The inductive invariant, stated for one shoot.                          *)
(***************************************************************************)

ReconcilePCs == {"validate", "network", "natgateway", "prefix", "policy", "status"}
DeletePCs    == {"delPrefix", "delNATGateway", "delNetworkPolicy", "delNetwork",
                 "release"}

(* The resource outlives the run, and a run deletes only on request. *)
RunMatchesPhase(s) ==
  /\ pc[s] \in ReconcilePCs => phase[s] \in {"present", "deleting", "migrating"}
  /\ pc[s] \in DeletePCs    => phase[s] = "deleting"
  /\ pc[s] = "migrate"      => phase[s] = "migrating"

(* What the deletion has got to so far stays deleted. *)
DeletedSoFar(s) ==
  /\ pc[s] \in DeletePCs \ {"delPrefix"} => Own(s, "prefix").state # "live"
  /\ pc[s] \in {"delNetworkPolicy", "delNetwork", "release"}
       => Own(s, "natgateway").state # "live"
  /\ pc[s] \in {"delNetwork", "release"} => Own(s, "policy").state # "live"
  /\ pc[s] = "release" => Own(s, "network").state # "live"

NothingLeft(s) == phase[s] = "absent" => Holds(s) = {} /\ pc[s] = "idle"

(* networkRef cannot change, so run, objects and status agree about it. *)
OneNetwork(s) ==
  /\ pc[s] \in ReconcilePCs => seen[s].networkRef = config[s].networkRef
  /\ pc[s] \in {"natgateway", "prefix", "policy", "status"}
       => refs[s]["network"].name = NetworkName(s, config[s])
  /\ \A k \in {"natgateway", "policy"} :
       Own(s, k).state = "live" => Own(s, k).net = NetworkName(s, config[s])
  /\ Published(s) => /\ phase[s] # "absent"
                     /\ status[s]["network"].name = NetworkName(s, config[s])

(* A reference got under the generated name is to the last incarnation. *)
Current(s, rs, k) ==
  /\ rs[k] # NoRef
  /\ rs[k].name = generateResourceNameFromCluster(s) => rs[k].uid = Own(s, k).uid

RunIsCurrent(s) ==
  /\ pc[s] \in {"natgateway", "prefix", "policy", "status"}
       => Current(s, refs[s], "network")
  /\ pc[s] \in {"prefix", "policy", "status"} => Current(s, refs[s], "natgateway")
  /\ pc[s] \in {"policy", "status"} => Current(s, refs[s], "prefix")
  /\ pc[s] = "status" => Current(s, refs[s], "policy")

StatusIsCurrent(s) == Settled(s) => \A k \in Kinds : Current(s, status[s], k)

ShootInv(s) ==
  /\ RunMatchesPhase(s)
  /\ DeletedSoFar(s)
  /\ NothingLeft(s)
  /\ OneNetwork(s)
  /\ RunIsCurrent(s)
  /\ StatusIsCurrent(s)

IInv == TypeOK /\ \A s \in Shoots : ShootInv(s)

-----------------------------------------------------------------------------
(***************************************************************************)
(* A step of one shoot leaves the other shoots and their objects alone.    *)
(***************************************************************************)

OnlyOwn(s) ==
  \A k \in Kinds : \A n \in Names \ {generateResourceNameFromCluster(s)} :
    objs'[k][n] = objs[k][n]

OnlyShoot(s) ==
  \A t \in Shoots \ {s} :
    /\ phase'[t] = phase[t] /\ config'[t] = config[t] /\ status'[t] = status[t]
    /\ pending'[t] = pending[t]
    /\ pc'[t] = pc[t] /\ seen'[t] = seen[t] /\ refs'[t] = refs[t]

ShootStep(s) == Begin(s) \/ RunStep(s) \/ Abort(s) \/ GardenerStep(s)

LEMMA PutOwn ==
  ASSUME TypeOK, NEW s \in Shoots, NEW k \in Kinds, NEW o,
         objs' = [objs EXCEPT ![k][generateResourceNameFromCluster(s)] = o]
  PROVE  /\ OnlyOwn(s)
         /\ Own(s, k)' = o
         /\ \A j \in Kinds \ {k} : Own(s, j)' = Own(s, j)
BY GeneratedName DEF OnlyOwn, Own, TypeOK

LEMMA SameObjs ==
  ASSUME TypeOK, NEW s \in Shoots, UNCHANGED objs
  PROVE  OnlyOwn(s) /\ \A j \in Kinds : Own(s, j)' = Own(s, j)
BY DEF OnlyOwn, Own

(* EndRun, FailRun, Returns and ReturnsRef, for the shoot and the others. *)
LEMMA EndRunEffect ==
  ASSUME TypeOK, NEW s \in Shoots, EndRun(s)
  PROVE  /\ pc'[s] = "idle"
         /\ \A t \in Shoots \ {s} :
              pc'[t] = pc[t] /\ seen'[t] = seen[t] /\ refs'[t] = refs[t]
BY DEF EndRun, TypeOK

LEMMA FailRunEffect ==
  ASSUME TypeOK, NEW s \in Shoots, FailRun(s)
  PROVE  /\ pc'[s] = "idle" /\ pending'[s]
         /\ \A t \in Shoots \ {s} :
              /\ pc'[t] = pc[t] /\ seen'[t] = seen[t] /\ refs'[t] = refs[t]
              /\ pending'[t] = pending[t]
BY EndRunEffect DEF FailRun, TypeOK

Goes(s, next) ==
  /\ pc'[s] = next /\ seen'[s] = seen[s] /\ pending'[s] = pending[s]
  /\ \A t \in Shoots \ {s} :
       /\ pc'[t] = pc[t] /\ seen'[t] = seen[t] /\ refs'[t] = refs[t]
       /\ pending'[t] = pending[t]

LEMMA ReturnsEffect ==
  ASSUME TypeOK, NEW s \in Shoots, NEW next \in PCs, Returns(s, next)
  PROVE  FailRun(s) \/ (Goes(s, next) /\ refs'[s] = refs[s])
BY DEF Returns, Goes, TypeOK

LEMMA ReturnsRefEffect ==
  ASSUME TypeOK, NEW s \in Shoots, NEW next \in PCs, NEW k \in Kinds, NEW r,
         ReturnsRef(s, next, k, r)
  PROVE  FailRun(s) \/ /\ Goes(s, next) /\ refs'[s][k] = r
                       /\ \A j \in Kinds \ {k} : refs'[s][j] = refs[s][j]
BY DEF ReturnsRef, Goes, TypeOK

LEMMA CreateOrPatchEffect ==
  ASSUME TypeOK, NEW s \in Shoots, NEW next \in PCs, NEW k \in Kinds,
         NEW net, NEW ports,
         CreateOrPatch(s, next, k, generateResourceNameFromCluster(s), net, ports)
  PROVE  /\ OnlyOwn(s)
         /\ \A j \in Kinds \ {k} : Own(s, j)' = Own(s, j)
         /\ \/ Own(s, k)' = Own(s, k)
            \/ Own(s, k)'.state = "live" /\ Own(s, k)'.net = net
         /\ FailRun(s) \/ /\ Goes(s, next)
                          /\ refs'[s][k] = [name |-> generateResourceNameFromCluster(s),
                                            uid  |-> Own(s, k)'.uid]
                          /\ \A j \in Kinds \ {k} : refs'[s][j] = refs[s][j]
<1> DEFINE n == generateResourceNameFromCluster(s)
<1>1. /\ OnlyOwn(s)
      /\ \A j \in Kinds \ {k} : Own(s, j)' = Own(s, j)
      /\ \/ Own(s, k)' = Own(s, k)
         \/ Own(s, k)'.state = "live" /\ Own(s, k)'.net = net
  <2>1. CASE objs[k][n].state # "absent"
    BY <2>1, SameObjs DEF CreateOrPatch
  <2>2. CASE objs[k][n].state = "absent"
    <3> DEFINE o == [state |-> "live", uid |-> objs[k][n].uid + 1,
                     net |-> net, ports |-> ports]
    <3>1. objs' = [objs EXCEPT ![k][n] = o]
      BY <2>2 DEF CreateOrPatch
    <3>2. o.state = "live" /\ o.net = net
      OBVIOUS
    <3>3. QED
      BY <3>1, <3>2, PutOwn
  <2>3. QED
    BY <2>1, <2>2
<1>2. ReturnsRef(s, next, k, [name |-> n, uid |-> Own(s, k)'.uid])
  BY DEF CreateOrPatch, Own
<1>3. QED
  BY <1>1, <1>2, ReturnsRefEffect

LEMMA DeleteObjectEffect ==
  ASSUME TypeOK, NEW s \in Shoots, NEW k \in Kinds, DeleteObject(s, k)
  PROVE  /\ OnlyOwn(s)
         /\ \A j \in Kinds \ {k} : Own(s, j)' = Own(s, j)
         /\ Own(s, k)'.state # "live"
<1> DEFINE n == generateResourceNameFromCluster(s)
<1>1. CASE objs[k][n].state = "live"
  <2>1. InState(objs[k][n], "terminating").state = "terminating"
    BY GeneratedName DEF InState, TypeOK, Objects
  <2>2. QED
    BY <1>1, <2>1, PutOwn DEF DeleteObject
<1>2. CASE objs[k][n].state # "live"
  BY <1>2, SameObjs DEF DeleteObject, Own
<1>3. QED
  BY <1>1, <1>2

-----------------------------------------------------------------------------
(***************************************************************************)
(* Steps that preserve the invariant of one shoot.                         *)
(***************************************************************************)

(* The shoot is not touched; its objects may at most vanish. *)
LEMMA Frame ==
  ASSUME NEW s \in Shoots, ShootInv(s),
         phase'[s] = phase[s], config'[s] = config[s], status'[s] = status[s],
         pending'[s] = pending[s],
         pc'[s] = pc[s], seen'[s] = seen[s], refs'[s] = refs[s],
         \A k \in Kinds : /\ Own(s, k)'.uid = Own(s, k).uid
                          /\ Own(s, k)'.net = Own(s, k).net
                          /\ Own(s, k)'.state = "live" => Own(s, k).state = "live"
  PROVE  ShootInv(s)'
<1>1. RunMatchesPhase(s)'
  BY DEF ShootInv, RunMatchesPhase
<1>2. DeletedSoFar(s)'
  BY DEF ShootInv, DeletedSoFar, Kinds
<1>3. NothingLeft(s)'
  BY DEF ShootInv, NothingLeft, Holds
<1>4. OneNetwork(s)'
  BY DEF ShootInv, OneNetwork, Kinds, Published, NetworkName,
         generateResourceNameFromCluster
<1>5. RunIsCurrent(s)'
  BY DEF ShootInv, RunIsCurrent, Current, Kinds, generateResourceNameFromCluster
<1>6. StatusIsCurrent(s)'
  BY DEF ShootInv, StatusIsCurrent, Settled, Current, generateResourceNameFromCluster
<1>7. QED
  BY <1>1, <1>2, <1>3, <1>4, <1>5, <1>6 DEF ShootInv

(* Objects of the shoot that live are attached to its network. *)
Attached(s) ==
  \A k \in {"natgateway", "policy"} :
    Own(s, k).state = "live" => Own(s, k).net = NetworkName(s, config[s])

(* However far a run got, it may fail: it is due again and starts afresh. *)
LEMMA FailInv ==
  ASSUME TypeOK, NEW s \in Shoots, ShootInv(s), pc[s] # "idle", FailRun(s),
         UNCHANGED <<phase, config, status>>, Attached(s)'
  PROVE  ShootInv(s)'
<1>1. pc'[s] = "idle" /\ pending'[s]
  BY FailRunEffect
<1>2. phase[s] # "absent"
  BY DEF ShootInv, NothingLeft
<1>3. RunMatchesPhase(s)' /\ DeletedSoFar(s)'
  BY <1>1 DEF RunMatchesPhase, DeletedSoFar, ReconcilePCs, DeletePCs
<1>4. NothingLeft(s)'
  BY <1>2 DEF NothingLeft
<1>5. OneNetwork(s)'
  BY <1>1 DEF ShootInv, OneNetwork, Attached, ReconcilePCs, Published, NetworkName,
              generateResourceNameFromCluster
<1>6. RunIsCurrent(s)' /\ StatusIsCurrent(s)'
  BY <1>1 DEF RunIsCurrent, StatusIsCurrent, Settled
<1>7. QED
  BY <1>3, <1>4, <1>5, <1>6 DEF ShootInv

(* A step of shoot s: what it promises to the others, and to itself. *)
StepOK(s) == OnlyOwn(s) /\ OnlyShoot(s) /\ ShootInv(s)'

LEMMA BeginOK ==
  ASSUME TypeOK, NEW s \in Shoots, ShootInv(s), Begin(s)
  PROVE  StepOK(s)
<1>1. /\ OnlyOwn(s) /\ OnlyShoot(s) /\ \A k \in Kinds : Own(s, k)' = Own(s, k)
      /\ pc[s] = "idle" /\ phase[s] \in {"present", "deleting", "migrating"}
      /\ pc'[s] = FirstStep(phase[s]) /\ seen'[s] = config[s]
      /\ UNCHANGED <<phase, config, status>>
  BY SameObjs DEF Begin, TypeOK, OnlyShoot
<1>2. /\ pc'[s] \in {"validate", "delPrefix", "migrate"}
      /\ pc'[s] = "validate"  => phase[s] = "present"
      /\ pc'[s] = "delPrefix" => phase[s] = "deleting"
      /\ pc'[s] = "migrate"   => phase[s] = "migrating"
  BY <1>1 DEF FirstStep
<1>3. RunMatchesPhase(s)' /\ DeletedSoFar(s)' /\ NothingLeft(s)'
  BY <1>1, <1>2 DEF RunMatchesPhase, ReconcilePCs, DeletePCs, DeletedSoFar, NothingLeft
<1>4. OneNetwork(s)'
  BY <1>1, <1>2 DEF ShootInv, OneNetwork, Kinds, Published, NetworkName,
                    generateResourceNameFromCluster
<1>5. RunIsCurrent(s)' /\ StatusIsCurrent(s)'
  BY <1>1, <1>2 DEF RunIsCurrent, StatusIsCurrent, Settled
<1>6. QED
  BY <1>1, <1>3, <1>4, <1>5 DEF StepOK, ShootInv

LEMMA AbortOK ==
  ASSUME TypeOK, NEW s \in Shoots, ShootInv(s), Abort(s) \/ LookupFails(s)
  PROVE  StepOK(s)
<1>1. /\ pc[s] # "idle" /\ FailRun(s)
      /\ UNCHANGED <<phase, config, status, objs>>
  BY DEF Abort, LookupFails
<1>2. OnlyOwn(s) /\ OnlyShoot(s)
  BY <1>1, FailRunEffect, SameObjs DEF OnlyShoot
<1>3. Attached(s)'
  BY <1>1 DEF Attached, ShootInv, OneNetwork, Own, NetworkName,
              generateResourceNameFromCluster
<1>4. QED
  BY <1>1, <1>2, <1>3, FailInv DEF StepOK

LEMMA GardenerOK ==
  ASSUME TypeOK, NEW s \in Shoots, ShootInv(s), GardenerStep(s)
  PROVE  StepOK(s)
<1>1. /\ UNCHANGED <<objs, pc, seen, refs>>
      /\ OnlyOwn(s) /\ OnlyShoot(s) /\ \A k \in Kinds : Own(s, k)' = Own(s, k)
  BY SameObjs DEF GardenerStep, CreateInfrastructure, UpdateConfig, RequestReconcile,
       RequestDeletion, RequestMigration, RequestRestore, workerVars, OnlyShoot, TypeOK
<1>2. ASSUME NEW cfg \in Configs, CreateInfrastructure(s, cfg)
      PROVE  ShootInv(s)'
  <2>1. /\ phase[s] = "absent" /\ phase'[s] = "present" /\ pending'[s]
        /\ status'[s] = status[s]
    BY <1>2 DEF CreateInfrastructure, TypeOK
  <2>2. pc[s] = "idle" /\ Holds(s) = {} /\ ~Published(s)
    BY <2>1 DEF ShootInv, NothingLeft, OneNetwork
  <2>3. RunMatchesPhase(s)' /\ DeletedSoFar(s)' /\ NothingLeft(s)' /\ RunIsCurrent(s)'
        /\ StatusIsCurrent(s)'
    BY <1>1, <2>1, <2>2 DEF RunMatchesPhase, ReconcilePCs, DeletePCs, DeletedSoFar,
         NothingLeft, RunIsCurrent, StatusIsCurrent, Settled
  <2>4. OneNetwork(s)'
    BY <1>1, <2>1, <2>2 DEF OneNetwork, ReconcilePCs, Holds, Published, Kinds
  <2>5. QED
    BY <2>3, <2>4 DEF ShootInv
<1>3. ASSUME NEW cfg \in Configs, UpdateConfig(s, cfg)
      PROVE  ShootInv(s)'
  <2>1. /\ config'[s].networkRef = config[s].networkRef
        /\ NetworkName(s, config'[s]) = NetworkName(s, config[s])
        /\ UNCHANGED <<phase, status>> /\ pending'[s]
    BY <1>3 DEF UpdateConfig, MayUpdate, NetworkName, TypeOK
  <2>2. RunMatchesPhase(s)' /\ DeletedSoFar(s)' /\ NothingLeft(s)' /\ RunIsCurrent(s)'
        /\ StatusIsCurrent(s)'
    BY <1>1, <2>1 DEF ShootInv, RunMatchesPhase, DeletedSoFar, NothingLeft, Holds,
         RunIsCurrent, Current, StatusIsCurrent, Settled, Kinds,
         generateResourceNameFromCluster
  <2>3. OneNetwork(s)'
    BY <1>1, <2>1 DEF ShootInv, OneNetwork, Kinds, Published, NetworkName,
         generateResourceNameFromCluster
  <2>4. QED
    BY <2>2, <2>3 DEF ShootInv
<1>4. ASSUME RequestReconcile(s) \/ RequestDeletion(s) \/ RequestMigration(s)
               \/ RequestRestore(s)
      PROVE  ShootInv(s)'
  <2>1. /\ UNCHANGED <<config, status>> /\ pending'[s]
        /\ phase'[s] # "absent"
        /\ \/ phase'[s] = phase[s]
           \/ phase[s] = "present" /\ phase'[s] \in {"deleting", "migrating"}
           \/ phase[s] = "migrated"
    BY <1>4 DEF RequestReconcile, RequestDeletion, RequestMigration, RequestRestore,
         TypeOK
  <2>2. RunMatchesPhase(s)'
    BY <1>1, <2>1 DEF ShootInv, RunMatchesPhase, ReconcilePCs, DeletePCs
  <2>3. DeletedSoFar(s)' /\ NothingLeft(s)' /\ RunIsCurrent(s)' /\ StatusIsCurrent(s)'
    BY <1>1, <2>1 DEF ShootInv, DeletedSoFar, NothingLeft, Kinds,
         RunIsCurrent, Current, StatusIsCurrent, Settled, generateResourceNameFromCluster
  <2>4. OneNetwork(s)'
    BY <1>1, <2>1 DEF ShootInv, OneNetwork, Kinds, Published, NetworkName,
         generateResourceNameFromCluster
  <2>5. QED
    BY <2>2, <2>3, <2>4 DEF ShootInv
<1>5. QED
  BY <1>1, <1>2, <1>3, <1>4 DEF GardenerStep, StepOK

LEMMA ValidateOK ==
  ASSUME TypeOK, NEW s \in Shoots, ShootInv(s), Validate(s)
  PROVE  StepOK(s)
<1>1. /\ pc[s] = "validate" /\ pc'[s] = "network"
      /\ UNCHANGED <<phase, config, status, pending, seen, refs, objs>>
      /\ OnlyOwn(s) /\ OnlyShoot(s) /\ \A k \in Kinds : Own(s, k)' = Own(s, k)
  BY SameObjs DEF Validate, infraVars, OnlyShoot, TypeOK
<1>2. RunMatchesPhase(s)' /\ DeletedSoFar(s)' /\ NothingLeft(s)'
  BY <1>1 DEF ShootInv, RunMatchesPhase, ReconcilePCs, DeletePCs, DeletedSoFar, NothingLeft
<1>3. OneNetwork(s)' /\ RunIsCurrent(s)' /\ StatusIsCurrent(s)'
  BY <1>1 DEF ShootInv, OneNetwork, ReconcilePCs, Kinds, Published, NetworkName,
              RunIsCurrent, StatusIsCurrent, Settled, generateResourceNameFromCluster
<1>4. QED
  BY <1>1, <1>2, <1>3 DEF ShootInv, StepOK

(***************************************************************************)
(* A reconcile run got the object of kind k and goes on from "from" to     *)
(* "next", or fails.  The object of the generated name is as it was, or    *)
(* newly created on the shoot's network.                                   *)
(***************************************************************************)
Got(s, k, from, next) ==
  /\ pc[s] = from
  /\ \/ FailRun(s)
     \/ /\ Goes(s, next)
        /\ Current(s, refs[s], k)'
        /\ k = "network" => refs'[s]["network"].name = NetworkName(s, config[s])
        /\ \A j \in Kinds \ {k} : refs'[s][j] = refs[s][j]
  /\ OnlyOwn(s)
  /\ \A j \in Kinds \ {k} : Own(s, j)' = Own(s, j)
  /\ \/ Own(s, k)' = Own(s, k)
     \/ k \notin {"natgateway", "policy"}
     \/ Own(s, k)'.net = NetworkName(s, config[s])
  /\ UNCHANGED <<phase, config, status>>

LEMMA GotOK ==
  ASSUME TypeOK, NEW s \in Shoots, ShootInv(s), NEW k \in Kinds, NEW from, NEW next,
         \/ k = "network" /\ from = "network" /\ next = "natgateway"
         \/ k = "natgateway" /\ from = "natgateway" /\ next = "prefix"
         \/ k = "prefix" /\ from = "prefix" /\ next = "policy"
         \/ k = "policy" /\ from = "policy" /\ next = "status",
         Got(s, k, from, next)
  PROVE  StepOK(s)
<1>1. OnlyOwn(s) /\ OnlyShoot(s)
  BY FailRunEffect DEF Got, Goes, OnlyShoot
<1>2. Attached(s)'
  <2>1. \A j \in {"natgateway", "policy"} :
          \/ Own(s, j)' = Own(s, j)
          \/ Own(s, j)'.net = NetworkName(s, config[s])
    BY DEF Got, Kinds
  <2>2. NetworkName(s, config[s])' = NetworkName(s, config[s])
    BY DEF Got, NetworkName, generateResourceNameFromCluster
  <2>3. QED
    BY <2>1, <2>2 DEF Attached, ShootInv, OneNetwork
<1>3. CASE FailRun(s)
  <2>1. pc[s] # "idle"
    BY DEF Got
  <2>2. QED
    BY <1>1, <1>2, <1>3, <2>1, FailInv DEF Got, StepOK
<1>4. CASE ~FailRun(s)
  <2>1. /\ Goes(s, next) /\ Current(s, refs[s], k)'
        /\ k = "network" => refs'[s]["network"].name = NetworkName(s, config[s])
        /\ \A j \in Kinds \ {k} : refs'[s][j] = refs[s][j] /\ Own(s, j)' = Own(s, j)
        /\ UNCHANGED <<phase, config, status>> /\ pc[s] = from
    BY <1>4 DEF Got
  <2>2. RunMatchesPhase(s)' /\ DeletedSoFar(s)' /\ NothingLeft(s)' /\ StatusIsCurrent(s)'
    BY <2>1 DEF ShootInv, RunMatchesPhase, ReconcilePCs, DeletePCs, DeletedSoFar,
         NothingLeft, Goes, StatusIsCurrent, Settled
  <2>3. OneNetwork(s)'
    <3>1. NetworkName(s, config[s])' = NetworkName(s, config[s])
      BY <2>1 DEF NetworkName, generateResourceNameFromCluster
    <3>2. /\ (pc[s] \in ReconcilePCs => seen[s].networkRef = config[s].networkRef)'
          /\ (Published(s) => /\ phase[s] # "absent"
                              /\ status[s]["network"].name = NetworkName(s, config[s]))'
      BY <2>1, <3>1 DEF ShootInv, OneNetwork, Goes, ReconcilePCs, Published
    <3>3. refs'[s]["network"].name = NetworkName(s, config[s])
      BY <2>1, <3>1 DEF ShootInv, OneNetwork, Kinds
    <3>4. QED
      BY <1>2, <3>1, <3>2, <3>3 DEF OneNetwork, Attached
  <2>4. RunIsCurrent(s)'
    <3>1. \A j \in Kinds \ {k} : Current(s, refs[s], j) => Current(s, refs[s], j)'
      BY <2>1 DEF Current, generateResourceNameFromCluster
    <3>2. QED
      BY <2>1, <3>1 DEF ShootInv, RunIsCurrent, Goes, Kinds
  <2>5. QED
    BY <1>1, <2>2, <2>3, <2>4 DEF StepOK, ShootInv
<1>5. QED
  BY <1>3, <1>4

(* Looking up an object: of another name, or else as it now is. *)
LEMMA GetGot ==
  ASSUME TypeOK, NEW s \in Shoots, NEW k \in Kinds, NEW n \in Names,
         NEW from, NEW next \in PCs, pc[s] = from, Get(s, next, k, n),
         k = "network" => n = NetworkName(s, config[s]),
         UNCHANGED <<phase, config, status>>
  PROVE  Got(s, k, from, next)
<1>1. OnlyOwn(s) /\ \A j \in Kinds : Own(s, j)' = Own(s, j)
  BY SameObjs DEF Get
<1>2. ReturnsRef(s, next, k, RefTo(k, n))
  BY DEF Get
<1>3. ASSUME refs'[s][k] = RefTo(k, n)
      PROVE  /\ Current(s, refs[s], k)'
             /\ k = "network" => refs'[s]["network"].name = NetworkName(s, config[s])
  <2>1. refs'[s][k].name = n /\ refs'[s][k].uid = objs[k][n].uid
    BY <1>3 DEF RefTo
  <2>2. n # None
    BY NamesAssumption
  <2>3. UNCHANGED objs
    BY DEF Get
  <2>4. QED
    BY <2>1, <2>2, <2>3 DEF Current, NoRef, Own, generateResourceNameFromCluster
<1>4. QED
  BY <1>1, <1>2, <1>3, ReturnsRefEffect DEF Got

LEMMA CreateOrPatchGot ==
  ASSUME TypeOK, NEW s \in Shoots, NEW k \in Kinds, NEW net, NEW ports,
         NEW from, NEW next \in PCs, pc[s] = from,
         CreateOrPatch(s, next, k, generateResourceNameFromCluster(s), net, ports),
         k = "network" => generateResourceNameFromCluster(s) = NetworkName(s, config[s]),
         k \in {"natgateway", "policy"} => net = NetworkName(s, config[s]),
         UNCHANGED <<phase, config, status>>
  PROVE  Got(s, k, from, next)
<1> DEFINE n == generateResourceNameFromCluster(s)
<1>1. /\ OnlyOwn(s)
      /\ \A j \in Kinds \ {k} : Own(s, j)' = Own(s, j)
      /\ \/ Own(s, k)' = Own(s, k)
         \/ Own(s, k)'.state = "live" /\ Own(s, k)'.net = net
      /\ FailRun(s) \/ /\ Goes(s, next)
                       /\ refs'[s][k] = [name |-> n, uid |-> Own(s, k)'.uid]
                       /\ \A j \in Kinds \ {k} : refs'[s][j] = refs[s][j]
  BY CreateOrPatchEffect
<1>2. ASSUME refs'[s][k] = [name |-> n, uid |-> Own(s, k)'.uid]
      PROVE  /\ Current(s, refs[s], k)'
             /\ k = "network" => refs'[s]["network"].name = NetworkName(s, config[s])
  <2>1. refs'[s][k].name = n /\ refs'[s][k].uid = Own(s, k)'.uid /\ n # None
    BY <1>2, GeneratedName
  <2>2. QED
    BY <2>1 DEF Current, NoRef, generateResourceNameFromCluster
<1>3. QED
  BY <1>1, <1>2 DEF Got

LEMMA ReconcileOK ==
  ASSUME TypeOK, NEW s \in Shoots, ShootInv(s), ReconcileStep(s)
  PROVE  StepOK(s)
<1>1. CASE Validate(s)
  BY <1>1, ValidateOK
<1>2. CASE applyNetwork(s)
  <2>1. /\ pc[s] = "network" /\ seen[s].networkRef = config[s].networkRef
        /\ UNCHANGED <<phase, config, status>>
    BY <1>2 DEF applyNetwork, ShootInv, OneNetwork, ReconcilePCs
  <2>2. Got(s, "network", "network", "natgateway")
    <3>1. CASE seen[s].networkRef # None
      <4>1. /\ seen[s].networkRef \in Names
            /\ Get(s, "natgateway", "network", seen[s].networkRef)
            /\ seen[s].networkRef = NetworkName(s, config[s])
        BY <1>2, <2>1, <3>1 DEF applyNetwork, TypeOK, Configs, Names, UserNames, NetworkName
      <4>2. QED
        BY <2>1, <4>1, GetGot DEF Kinds, PCs
    <3>2. CASE seen[s].networkRef = None
      <4>1. /\ CreateOrPatch(s, "natgateway", "network",
                             generateResourceNameFromCluster(s), None, None)
            /\ generateResourceNameFromCluster(s) = NetworkName(s, config[s])
        BY <1>2, <2>1, <3>2 DEF applyNetwork, NetworkName
      <4>2. QED
        BY <2>1, <4>1, CreateOrPatchGot DEF Kinds, PCs
    <3>3. QED
      BY <3>1, <3>2
  <2>3. QED
    BY <2>2, GotOK DEF Kinds
<1>3. CASE applyNATGateway(s)
  <2>1. /\ pc[s] = "natgateway" /\ refs[s]["network"].name = NetworkName(s, config[s])
        /\ UNCHANGED <<phase, config, status>>
    BY <1>3 DEF applyNATGateway, ShootInv, OneNetwork
  <2>2. CreateOrPatch(s, "prefix", "natgateway", generateResourceNameFromCluster(s),
                      NetworkName(s, config[s]), seen[s].natPorts)
    BY <1>3, <2>1 DEF applyNATGateway
  <2>3. Got(s, "natgateway", "natgateway", "prefix")
    BY <2>1, <2>2, CreateOrPatchGot DEF Kinds, PCs
  <2>4. QED
    BY <2>3, GotOK DEF Kinds
<1>4. CASE applyPrefix(s)
  <2>1. /\ pc[s] = "prefix" /\ UNCHANGED <<phase, config, status>>
        /\ CreateOrPatch(s, "policy", "prefix", generateResourceNameFromCluster(s),
                         None, None)
    BY <1>4 DEF applyPrefix
  <2>2. Got(s, "prefix", "prefix", "policy")
    BY <2>1, CreateOrPatchGot DEF Kinds, PCs
  <2>3. QED
    BY <2>2, GotOK DEF Kinds
<1>5. CASE applyNetworkPolicy(s)
  <2>1. /\ pc[s] = "policy" /\ refs[s]["network"].name = NetworkName(s, config[s])
        /\ UNCHANGED <<phase, config, status>>
    BY <1>5 DEF applyNetworkPolicy, ShootInv, OneNetwork
  <2>2. Got(s, "policy", "policy", "status")
    <3>1. CASE seen[s].networkPolicyRef # None
      <4>1. /\ seen[s].networkRef \in Names
            /\ Get(s, "status", "policy", seen[s].networkRef)
        BY <1>5, <3>1 DEF applyNetworkPolicy, TypeOK, Configs, Names, UserNames
      <4>2. QED
        BY <2>1, <4>1, GetGot DEF Kinds, PCs
    <3>2. CASE seen[s].networkPolicyRef = None
      <4>1. CreateOrPatch(s, "status", "policy", generateResourceNameFromCluster(s),
                          NetworkName(s, config[s]), None)
        BY <1>5, <2>1, <3>2 DEF applyNetworkPolicy
      <4>2. QED
        BY <2>1, <4>1, CreateOrPatchGot DEF Kinds, PCs
    <3>3. QED
      BY <3>1, <3>2
  <2>3. QED
    BY <2>2, GotOK DEF Kinds
<1>6. CASE updateProviderStatus(s)
  <2>1. /\ pc[s] = "status" /\ status'[s] = refs[s] /\ EndRun(s) /\ pc'[s] = "idle"
        /\ UNCHANGED <<phase, config, objs>>
        /\ OnlyOwn(s) /\ OnlyShoot(s) /\ \A k \in Kinds : Own(s, k)' = Own(s, k)
        /\ phase[s] # "absent"
    BY <1>6, EndRunEffect, FailRunEffect, SameObjs DEF updateProviderStatus, FailRun,
       OnlyShoot, TypeOK, ShootInv, NothingLeft
  <2>2. RunMatchesPhase(s)' /\ DeletedSoFar(s)' /\ NothingLeft(s)' /\ RunIsCurrent(s)'
    BY <2>1 DEF RunMatchesPhase, ReconcilePCs, DeletePCs, DeletedSoFar, NothingLeft,
                RunIsCurrent
  <2>3. OneNetwork(s)'
    BY <2>1 DEF ShootInv, OneNetwork, ReconcilePCs, Kinds, Published, NetworkName,
                generateResourceNameFromCluster
  <2>4. StatusIsCurrent(s)'
    BY <2>1 DEF ShootInv, RunIsCurrent, StatusIsCurrent, Current, Kinds,
                generateResourceNameFromCluster
  <2>5. QED
    BY <2>1, <2>2, <2>3, <2>4 DEF StepOK, ShootInv
<1>7. QED
  BY <1>1, <1>2, <1>3, <1>4, <1>5, <1>6 DEF ReconcileStep

(* One object deleted: its own step of the order in Delete. *)
LEMMA DeletedOK ==
  ASSUME TypeOK, NEW s \in Shoots, ShootInv(s), NEW k \in Kinds, NEW from, NEW next,
         \/ k = "prefix" /\ from = "delPrefix" /\ next = "delNATGateway"
         \/ k = "natgateway" /\ from = "delNATGateway" /\ next = "delNetworkPolicy"
         \/ k = "policy" /\ from = "delNetworkPolicy" /\ next = "delNetwork"
         \/ k = "network" /\ from = "delNetwork" /\ next = "release",
         pc[s] = from, DeleteObject(s, k), Returns(s, next),
         UNCHANGED <<phase, config, status>>
  PROVE  StepOK(s)
<1>1. /\ OnlyOwn(s)
      /\ \A j \in Kinds \ {k} : Own(s, j)' = Own(s, j)
      /\ Own(s, k)'.state # "live"
  BY DeleteObjectEffect
<1>2. FailRun(s) \/ (Goes(s, next) /\ refs'[s] = refs[s])
  BY ReturnsEffect DEF PCs
<1>3. OnlyShoot(s)
  BY <1>2, FailRunEffect DEF Goes, OnlyShoot
<1>4. NetworkName(s, config[s])' = NetworkName(s, config[s])
  BY DEF NetworkName, generateResourceNameFromCluster
<1>5. Attached(s)'
  BY <1>1, <1>4 DEF Attached, ShootInv, OneNetwork, Kinds
<1>6. CASE FailRun(s)
  BY <1>1, <1>3, <1>5, <1>6, FailInv DEF StepOK
<1>7. CASE Goes(s, next)
  <2>1. /\ pc'[s] = next /\ next \in DeletePCs \ {"delPrefix"}
        /\ phase[s] = "deleting"
    BY <1>7 DEF Goes, DeletePCs, ShootInv, RunMatchesPhase
  <2>2. RunMatchesPhase(s)' /\ NothingLeft(s)' /\ RunIsCurrent(s)' /\ StatusIsCurrent(s)'
    BY <2>1 DEF RunMatchesPhase, NothingLeft, RunIsCurrent, StatusIsCurrent, Settled,
                ReconcilePCs, DeletePCs
  <2>3. OneNetwork(s)'
    BY <1>4, <1>5, <2>1 DEF ShootInv, OneNetwork, Attached, ReconcilePCs, DeletePCs,
                            Published
  <2>4. DeletedSoFar(s)'
    BY <1>1, <2>1 DEF ShootInv, DeletedSoFar, DeletePCs, Kinds
  <2>5. QED
    BY <1>1, <1>3, <2>2, <2>3, <2>4 DEF StepOK, ShootInv
<1>8. QED
  BY <1>2, <1>6, <1>7

LEMMA DeleteOK ==
  ASSUME TypeOK, NEW s \in Shoots, ShootInv(s), DeleteStep(s)
  PROVE  StepOK(s)
<1>1. CASE deletePrefix(s)
  BY <1>1, DeletedOK DEF deletePrefix, Kinds
<1>2. CASE deleteNATGateway(s)
  BY <1>2, DeletedOK DEF deleteNATGateway, Kinds
<1>3. CASE deleteNetworkPolicy(s)
  BY <1>3, DeletedOK DEF deleteNetworkPolicy, Kinds
<1>4. CASE deleteNetwork(s)
  BY <1>4, DeletedOK DEF deleteNetwork, Kinds
<1>5. CASE Release(s)
  <2>1. /\ pc[s] = "release" /\ pc'[s] = "idle" /\ phase'[s] = "absent"
        /\ status'[s] = RefsUnset /\ UNCHANGED <<config, objs>>
        /\ OnlyOwn(s) /\ OnlyShoot(s) /\ \A k \in Kinds : Own(s, k)' = Own(s, k)
    BY <1>5, EndRunEffect, SameObjs DEF Release, OnlyShoot, TypeOK
  <2>2. \A k \in Kinds : Own(s, k).state # "live"
    BY <2>1 DEF ShootInv, DeletedSoFar, DeletePCs, Kinds
  <2>3. NothingLeft(s)'
    BY <2>1, <2>2 DEF NothingLeft, Holds
  <2>4. OneNetwork(s)'
    BY <2>1, <2>2 DEF OneNetwork, Published, ReconcilePCs, Kinds
  <2>5. RunMatchesPhase(s)' /\ DeletedSoFar(s)' /\ RunIsCurrent(s)' /\ StatusIsCurrent(s)'
    BY <2>1 DEF RunMatchesPhase, DeletedSoFar, RunIsCurrent, StatusIsCurrent, Settled,
                ReconcilePCs, DeletePCs
  <2>6. QED
    BY <2>1, <2>3, <2>4, <2>5 DEF StepOK, ShootInv
<1>6. QED
  BY <1>1, <1>2, <1>3, <1>4, <1>5 DEF DeleteStep

LEMMA MigrateOK ==
  ASSUME TypeOK, NEW s \in Shoots, ShootInv(s), Migrate(s)
  PROVE  StepOK(s)
<1>1. /\ pc'[s] = "idle" /\ phase'[s] = "migrated" /\ UNCHANGED <<config, status, objs>>
      /\ OnlyOwn(s) /\ OnlyShoot(s) /\ \A k \in Kinds : Own(s, k)' = Own(s, k)
  BY EndRunEffect, SameObjs DEF Migrate, OnlyShoot, TypeOK
<1>2. OneNetwork(s)'
  BY <1>1 DEF ShootInv, OneNetwork, ReconcilePCs, Kinds, Published, NetworkName,
              generateResourceNameFromCluster
<1>3. /\ RunMatchesPhase(s)' /\ DeletedSoFar(s)' /\ NothingLeft(s)'
      /\ RunIsCurrent(s)' /\ StatusIsCurrent(s)'
  BY <1>1 DEF RunMatchesPhase, DeletedSoFar, NothingLeft, RunIsCurrent,
              StatusIsCurrent, Settled, ReconcilePCs, DeletePCs
<1>4. QED
  BY <1>1, <1>2, <1>3 DEF StepOK, ShootInv

LEMMA ShootStepOK ==
  ASSUME TypeOK, NEW s \in Shoots, ShootInv(s), ShootStep(s)
  PROVE  StepOK(s)
BY BeginOK, AbortOK, GardenerOK, ReconcileOK, DeleteOK, MigrateOK DEF ShootStep, RunStep

(* What users and the cloud do takes nothing from a shoot but the dead. *)
LEMMA CloudOK ==
  ASSUME TypeOK, NEW s \in Shoots, ShootInv(s), CloudStep
  PROVE  ShootInv(s)'
<1>1. PICK k \in Kinds, n \in Names :
        \/ n \in UserNames /\ (UserCreates(k, n) \/ UserDeletes(k, n))
        \/ Vanish(k, n)
  BY DEF CloudStep, Kinds, Names, UserNames
<1>2. UNCHANGED <<infraVars, workerVars>>
  BY <1>1 DEF UserCreates, UserDeletes, Vanish
<1>3. \A j \in Kinds : /\ Own(s, j)'.uid = Own(s, j).uid
                       /\ Own(s, j)'.net = Own(s, j).net
                       /\ Own(s, j)'.state = "live" => Own(s, j).state = "live"
  <2>1. CASE n \in UserNames /\ (UserCreates(k, n) \/ UserDeletes(k, n))
    <3>1. \E o : objs' = [objs EXCEPT ![k][n] = o]
      BY <2>1 DEF UserCreates, UserDeletes
    <3>2. n # generateResourceNameFromCluster(s)
      BY <2>1, GeneratedName
    <3>3. \A j \in Kinds : Own(s, j)' = Own(s, j)
      BY <3>1, <3>2, GeneratedName DEF Own, TypeOK
    <3>4. QED
      BY <3>3
  <2>2. CASE Vanish(k, n)
    <3>1. objs' = [objs EXCEPT ![k][n] = InState(objs[k][n], "absent")]
      BY <2>2 DEF Vanish
    <3>2. objs[k][n] \in Objects
      BY DEF TypeOK
    <3>3. /\ InState(objs[k][n], "absent").uid = objs[k][n].uid
          /\ InState(objs[k][n], "absent").net = objs[k][n].net
          /\ InState(objs[k][n], "absent").state = "absent"
      BY <3>2 DEF InState, Objects
    <3>4. QED
      BY <3>1, <3>3, GeneratedName DEF Own, TypeOK
  <2>3. QED
    BY <1>1, <2>1, <2>2
<1>4. QED
  BY <1>2, <1>3, Frame DEF infraVars, workerVars

LEMMA InitInv == Init => IInv
<1> SUFFICES ASSUME Init, NEW s \in Shoots PROVE ShootInv(s)
  BY InitType DEF IInv
<1>1. /\ phase[s] = "absent" /\ pc[s] = "idle" /\ status[s] = RefsUnset
      /\ \A k \in Kinds : Own(s, k).state = "absent"
  BY GeneratedName DEF Init, Own
<1>2. RunMatchesPhase(s) /\ DeletedSoFar(s) /\ RunIsCurrent(s) /\ StatusIsCurrent(s)
  BY <1>1 DEF RunMatchesPhase, DeletedSoFar, RunIsCurrent, StatusIsCurrent, Settled,
              ReconcilePCs, DeletePCs
<1>3. NothingLeft(s) /\ OneNetwork(s)
  BY <1>1 DEF NothingLeft, Holds, OneNetwork, Published, ReconcilePCs, Kinds
<1>4. QED
  BY <1>2, <1>3 DEF ShootInv

LEMMA NextInv == IInv /\ [Next]_vars => IInv'
<1> SUFFICES ASSUME IInv, [Next]_vars PROVE IInv'
  OBVIOUS
<1>1. TypeOK /\ TypeOK' /\ \A s \in Shoots : ShootInv(s)
  BY NextType DEF IInv
<1>2. ASSUME NEW s \in Shoots, ShootStep(s), NEW t \in Shoots
      PROVE  ShootInv(t)'
  <2>1. StepOK(s)
    BY <1>1, <1>2, ShootStepOK
  <2>2. CASE t = s
    BY <2>1, <2>2 DEF StepOK
  <2>3. CASE t # s
    <3>1. \A k \in Kinds : Own(t, k)' = Own(t, k)
      BY <2>1, <2>3, GeneratedName DEF StepOK, OnlyOwn, Own
    <3>2. QED
      BY <1>1, <2>1, <2>3, <3>1, Frame DEF StepOK, OnlyShoot
  <2>4. QED
    BY <2>2, <2>3
<1>3. ASSUME UNCHANGED vars, NEW t \in Shoots
      PROVE  ShootInv(t)'
  BY <1>1, <1>3, Frame DEF vars, infraVars, workerVars, Own
<1>4. \A t \in Shoots : ShootInv(t)'
  BY <1>1, <1>2, <1>3, CloudOK DEF Next, ShootStep
<1>5. QED
  BY <1>1, <1>4 DEF IInv

(* The invariant holds in every state, for any number of shoots. *)
THEOREM Invariant == Spec => []IInv
BY InitInv, NextInv, PTL DEF Spec

-----------------------------------------------------------------------------
(***************************************************************************)
(* What follows from the invariant.                                        *)
(***************************************************************************)

(***************************************************************************)
(* When the Infrastructure resource is gone nothing is left behind: every  *)
(* object of the shoot's name is deleted, whichever calls of whichever     *)
(* runs failed, lost their answers or were cut short, and no run is left   *)
(* that could create one.                                                  *)
(***************************************************************************)
NoOrphan ==
  \A s \in Shoots : phase[s] = "absent" => Holds(s) = {} /\ pc[s] = "idle"

(* Once the Infrastructure resource is gone nothing of it is left.         *)
THEOREM NothingIsOrphaned == Spec => []NoOrphan
<1>1. IInv => NoOrphan
  BY DEF IInv, ShootInv, NothingLeft, NoOrphan
<1>2. QED
  BY <1>1, Invariant, PTL

(* The NAT gateway and the policy serve the network of the status.         *)
THEOREM GatewayServesNetwork == Spec => []GatewayOnPublishedNetwork
<1>1. IInv => GatewayOnPublishedNetwork
  BY DEF IInv, ShootInv, OneNetwork, GatewayOnPublishedNetwork, Holds
<1>2. QED
  BY <1>1, Invariant, PTL

(* A run that ended well published the last incarnation of every object.   *)
THEOREM StatusIsCurrentWhenSettled == Spec => []SettledStatusIsCurrent
<1>1. IInv => SettledStatusIsCurrent
  BY DEF IInv, ShootInv, StatusIsCurrent, Current, SettledStatusIsCurrent
<1>2. QED
  BY <1>1, Invariant, PTL

(* Runs for a shoot leave the objects of users and other shoots alone.     *)
THEOREM OwnObjectsOnly == Spec => RunsTouchOwnObjectsOnly
<1> DEFINE A == \A s \in Shoots : pc'[s] # pc[s] => OnlyOwn(s)
<1>1. IInv /\ [Next]_vars => [A]_vars
  <2> SUFFICES ASSUME IInv, Next, NEW s \in Shoots, pc'[s] # pc[s]
               PROVE  OnlyOwn(s)
    OBVIOUS
  <2>1. ~CloudStep
    BY DEF CloudStep, UserCreates, UserDeletes, Vanish, workerVars
  <2>2. PICK t \in Shoots : ShootStep(t)
    BY <2>1 DEF Next, ShootStep
  <2>3. StepOK(t)
    BY <2>2, ShootStepOK DEF IInv
  <2>4. t = s
    BY <2>3 DEF StepOK, OnlyShoot
  <2>5. QED
    BY <2>3, <2>4 DEF StepOK
<1>2. [A]_vars => [\A s \in Shoots :
         pc'[s] # pc[s] =>
           \A k \in Kinds :
             \A n \in Names \ {generateResourceNameFromCluster(s)} :
               objs'[k][n] = objs[k][n]]_vars
  BY DEF OnlyOwn
<1>3. QED
  BY <1>1, <1>2, Invariant, PTL DEF Spec, RunsTouchOwnObjectsOnly

-----------------------------------------------------------------------------
(***************************************************************************)
(* The controller implements CloudLease.                                   *)
(***************************************************************************)

Held == [s \in Shoots |-> Holds(s)]

(* What a step of a shoot does to its phase and to what it holds. *)
Keeps(s) == Holds(s)' = Holds(s)

PhaseMove(s) ==
  /\ Keeps(s)
  /\ \/ phase[s] = "absent" /\ phase' = [phase EXCEPT ![s] = "present"]
     \/ phase[s] = "present" /\ phase' = [phase EXCEPT ![s] = "deleting"]
     \/ phase[s] = "present" /\ phase' = [phase EXCEPT ![s] = "migrating"]
     \/ phase[s] = "migrating" /\ phase' = [phase EXCEPT ![s] = "migrated"]
     \/ phase[s] = "migrated" /\ phase' = [phase EXCEPT ![s] = "present"]
     \/ /\ phase[s] = "deleting" /\ phase' = [phase EXCEPT ![s] = "absent"]
        /\ Holds(s) = {}

Gains(s, k) ==
  /\ phase[s] \in {"present", "deleting", "migrating"} /\ UNCHANGED phase
  /\ Holds(s)' = Holds(s) \cup {k}

Loses(s, k) ==
  /\ phase[s] = "deleting" /\ UNCHANGED phase
  /\ Holds(s)' = Holds(s) \ {k}

LeaseStep(s) ==
  \/ Keeps(s) /\ UNCHANGED phase
  \/ PhaseMove(s)
  \/ \E k \in Kinds : Gains(s, k) \/ Loses(s, k)

LEMMA SameHolds ==
  ASSUME NEW s \in Shoots, \A k \in Kinds : Own(s, k)' = Own(s, k)
  PROVE  Keeps(s)
BY DEF Keeps, Holds

LEMMA CreateLease ==
  ASSUME TypeOK, NEW s \in Shoots, ShootInv(s), pc[s] \in ReconcilePCs,
         NEW next \in PCs, NEW k \in Kinds, NEW net, NEW ports,
         CreateOrPatch(s, next, k, generateResourceNameFromCluster(s), net, ports),
         UNCHANGED phase
  PROVE  LeaseStep(s)
<1>1. /\ \A j \in Kinds \ {k} : Own(s, j)' = Own(s, j)
      /\ Own(s, k)' = Own(s, k) \/ Own(s, k)'.state = "live"
  BY CreateOrPatchEffect
<1>2. phase[s] \in {"present", "deleting", "migrating"}
  BY DEF ShootInv, RunMatchesPhase
<1>3. CASE Own(s, k)' = Own(s, k)
  BY <1>1, <1>3, SameHolds DEF LeaseStep
<1>4. CASE Own(s, k)'.state = "live"
  BY <1>1, <1>2, <1>4 DEF LeaseStep, Gains, Holds
<1>5. QED
  BY <1>1, <1>3, <1>4

LEMMA DeleteLease ==
  ASSUME TypeOK, NEW s \in Shoots, ShootInv(s), pc[s] \in DeletePCs,
         NEW k \in Kinds, DeleteObject(s, k), UNCHANGED phase
  PROVE  LeaseStep(s)
<1>1. phase[s] = "deleting"
  BY DEF ShootInv, RunMatchesPhase
<1>2. QED
  BY <1>1, DeleteObjectEffect DEF LeaseStep, Loses, Holds

LEMMA ShootLease ==
  ASSUME TypeOK, NEW s \in Shoots, ShootInv(s), ShootStep(s)
  PROVE  LeaseStep(s)
<1>1. CASE UNCHANGED <<phase, objs>>
  BY <1>1, SameObjs, SameHolds DEF LeaseStep
<1>2. CASE GardenerStep(s)
  <2>1. UNCHANGED objs
    BY <1>2 DEF GardenerStep, CreateInfrastructure, UpdateConfig, RequestReconcile,
                RequestDeletion, RequestMigration, RequestRestore
  <2>2. \/ UNCHANGED phase
        \/ phase[s] = "absent" /\ phase' = [phase EXCEPT ![s] = "present"]
        \/ phase[s] = "present" /\ phase' = [phase EXCEPT ![s] = "deleting"]
        \/ phase[s] = "present" /\ phase' = [phase EXCEPT ![s] = "migrating"]
        \/ phase[s] = "migrated" /\ phase' = [phase EXCEPT ![s] = "present"]
    BY <1>2 DEF GardenerStep, CreateInfrastructure, UpdateConfig, RequestReconcile,
                RequestDeletion, RequestMigration, RequestRestore
  <2>3. QED
    BY <2>1, <2>2, SameObjs, SameHolds DEF LeaseStep, PhaseMove
<1>3. CASE ReconcileStep(s)
  <2>1. CASE \E next \in PCs, k \in Kinds : \E net, ports :
               /\ CreateOrPatch(s, next, k, generateResourceNameFromCluster(s),
                                net, ports)
               /\ pc[s] \in ReconcilePCs /\ UNCHANGED phase
    BY <2>1, CreateLease
  <2>2. CASE UNCHANGED <<phase, objs>>
    BY <1>1, <2>2
  <2>3. CASE applyNetwork(s)
    BY <2>1, <2>2, <2>3 DEF applyNetwork, Get, ReconcilePCs, PCs, Kinds
  <2>4. CASE applyNATGateway(s)
    BY <2>1, <2>4 DEF applyNATGateway, ReconcilePCs, PCs, Kinds
  <2>5. CASE applyPrefix(s)
    BY <2>1, <2>5 DEF applyPrefix, ReconcilePCs, PCs, Kinds
  <2>6. CASE applyNetworkPolicy(s)
    BY <2>1, <2>2, <2>6 DEF applyNetworkPolicy, Get, ReconcilePCs, PCs, Kinds
  <2>7. QED
    BY <1>3, <2>2, <2>3, <2>4, <2>5, <2>6
    DEF ReconcileStep, Validate, updateProviderStatus, infraVars
<1>4. CASE Release(s)
  <2>1. /\ phase[s] = "deleting" /\ Holds(s) = {}
    BY <1>4 DEF Release, ShootInv, RunMatchesPhase, DeletedSoFar, DeletePCs, Holds, Kinds
  <2>2. QED
    BY <1>4, <2>1, SameObjs, SameHolds DEF Release, LeaseStep, PhaseMove
<1>5. CASE deletePrefix(s) \/ deleteNATGateway(s) \/ deleteNetworkPolicy(s) \/ deleteNetwork(s)
  BY <1>5, DeleteLease DEF deletePrefix, deleteNATGateway, deleteNetworkPolicy,
     deleteNetwork, DeletePCs, Kinds
<1>6. CASE Migrate(s)
  BY <1>6, SameObjs, SameHolds DEF Migrate, LeaseStep, PhaseMove, ShootInv, RunMatchesPhase
<1>7. QED
  BY <1>1, <1>2, <1>3, <1>4, <1>5, <1>6
  DEF ShootStep, RunStep, DeleteStep, Begin, Abort, LookupFails

(* Users and the cloud end no object that still lives. *)
LEMMA CloudLeaseStutter ==
  ASSUME TypeOK, CloudStep
  PROVE  UNCHANGED phase /\ \A s \in Shoots : Keeps(s)
<1>1. PICK k \in Kinds, n \in Names :
        \/ n \in UserNames /\ (UserCreates(k, n) \/ UserDeletes(k, n))
        \/ Vanish(k, n)
  BY DEF CloudStep, Kinds, Names, UserNames
<1>2. UNCHANGED phase
  BY <1>1 DEF UserCreates, UserDeletes, Vanish, infraVars
<1> SUFFICES ASSUME NEW s \in Shoots PROVE Keeps(s)
  BY <1>2
<1>3. CASE n \in UserNames /\ (UserCreates(k, n) \/ UserDeletes(k, n))
  <2>1. \E o : objs' = [objs EXCEPT ![k][n] = o]
    BY <1>3 DEF UserCreates, UserDeletes
  <2>2. n # generateResourceNameFromCluster(s)
    BY <1>3, GeneratedName
  <2>3. \A j \in Kinds : Own(s, j)' = Own(s, j)
    BY <2>1, <2>2, GeneratedName DEF Own, TypeOK
  <2>4. QED
    BY <2>3, SameHolds
<1>4. CASE Vanish(k, n)
  <2>1. objs' = [objs EXCEPT ![k][n] = InState(objs[k][n], "absent")]
        /\ objs[k][n].state = "terminating" /\ objs[k][n] \in Objects
    BY <1>4 DEF Vanish, TypeOK
  <2>2. InState(objs[k][n], "absent").state = "absent"
    BY <2>1 DEF InState, Objects
  <2>3. \A j \in Kinds : Own(s, j)'.state = "live" <=> Own(s, j).state = "live"
    BY <2>1, <2>2, GeneratedName DEF Own, TypeOK
  <2>4. QED
    BY <2>3 DEF Keeps, Holds
<1>5. QED
  BY <1>1, <1>3, <1>4

LEMMA LeaseNext == IInv /\ [Next]_vars => [Lease!Next]_(Lease!vars)
<1> SUFFICES ASSUME IInv, [Next]_vars PROVE [Lease!Next]_(Lease!vars)
  OBVIOUS
<1>1. Held = [s \in Shoots |-> Holds(s)] /\ Held' = [s \in Shoots |-> Holds(s)']
  BY DEF Held
<1>2. CASE UNCHANGED phase /\ \A s \in Shoots : Keeps(s)
  <2>1. Held' = Held
    BY <1>1, <1>2 DEF Keeps
  <2>2. QED
    BY <1>2, <2>1 DEF Lease!vars, Held
<1>3. ASSUME NEW s \in Shoots, ShootStep(s)
      PROVE  [Lease!Next]_(Lease!vars)
  <2>1. LeaseStep(s) /\ StepOK(s)
    BY <1>3, ShootLease, ShootStepOK DEF IInv
  <2>2. \A t \in Shoots \ {s} : Holds(t)' = Holds(t)
    <3>1. ASSUME NEW t \in Shoots \ {s}
          PROVE  \A k \in Kinds : Own(t, k)' = Own(t, k)
      BY <2>1, <3>1, GeneratedName DEF StepOK, OnlyOwn, Own
    <3>2. QED
      BY <3>1 DEF Holds
  <2>3. CASE Keeps(s)
    <3>1. Held' = Held
      BY <1>1, <2>2, <2>3 DEF Keeps
    <3>2. CASE UNCHANGED phase
      BY <3>1, <3>2 DEF Lease!vars, Held
    <3>3. CASE PhaseMove(s)
      BY <3>1, <3>3 DEF PhaseMove, Held, Lease!Next, Lease!Moves, Lease!Gone
    <3>4. CASE \E k \in Kinds : Gains(s, k) \/ Loses(s, k)
      BY <3>2, <3>4 DEF Gains, Loses
    <3>5. QED
      BY <2>1, <3>2, <3>3, <3>4 DEF LeaseStep
  <2>4. ASSUME NEW k \in Kinds, Gains(s, k)
        PROVE  Lease!Next
    <3>1. Held' = [Held EXCEPT ![s] = @ \cup {k}]
      BY <1>1, <2>2, <2>4 DEF Gains
    <3>2. QED
      BY <2>4, <3>1 DEF Gains, Held, Lease!Next, Lease!Acquire
  <2>5. ASSUME NEW k \in Kinds, Loses(s, k)
        PROVE  Lease!Next
    <3>1. Held' = [Held EXCEPT ![s] = @ \ {k}]
      BY <1>1, <2>2, <2>5 DEF Loses
    <3>2. QED
      BY <2>5, <3>1 DEF Loses, Held, Lease!Next, Lease!GiveUp
  <2>6. QED
    BY <2>1, <2>3, <2>4, <2>5 DEF LeaseStep, PhaseMove
<1>4. CASE CloudStep
  BY <1>2, <1>4, CloudLeaseStutter DEF IInv
<1>5. CASE UNCHANGED vars
  BY <1>2, <1>5 DEF vars, infraVars, Keeps, Holds, Own
<1>6. QED
  BY <1>3, <1>4, <1>5 DEF Next, ShootStep

(* Every behaviour of the controller is one of CloudLease. *)
THEOREM LeaseImplemented == Spec => ImplementsLease
<1>1. Init => Lease!Init
  <2> SUFFICES ASSUME Init PROVE Lease!Init
    OBVIOUS
  <2>1. \A s \in Shoots : Holds(s) = {}
    BY GeneratedName DEF Init, Holds, Own
  <2>2. QED
    BY <2>1 DEF Init, Lease!Init
<1>2. QED
  BY <1>1, LeaseNext, Invariant, PTL DEF Spec, ImplementsLease, Lease!Spec
=============================================================================
