----------------------------- MODULE BastionProofs -----------------------------
(***************************************************************************)
(* Proofs about Bastion, for any number of bastions: what they make goes   *)
(* with them, a published address belongs to a guarded machine, and no     *)
(* bastion touches the machine of another.                                 *)
(***************************************************************************)
EXTENDS Bastion, TLAPS

-----------------------------------------------------------------------------
(***************************************************************************)
(* Types.                                                                  *)
(***************************************************************************)

HostType == [uid : Nat, running : BOOLEAN]

MachineType == [state : {"absent", "live", "terminating"}, uid : Nat,
                shows : SUBSET Reports]

Flags == pending \in [Bastions -> BOOLEAN] /\ infra \in BOOLEAN

ResourceTypes ==
  /\ phase     \in [Bastions -> {"absent", "present", "deleting", "gone"}]
  /\ ingress   \in [Bastions -> Ingress \cup {Nobody}]
  /\ published \in [Bastions -> Nat]

RunTypes ==
  /\ pc      \in [Bastions -> PCs]
  /\ seen    \in [Bastions -> Ingress \cup {Nobody}]
  /\ host    \in [Bastions -> HostType]
  /\ address \in [Bastions -> Nat]

CloudTypes ==
  /\ machines \in [Names -> MachineType]
  /\ secrets  \in [Names -> Nat]
  /\ policies \in [Names -> [owner : Nat, clients : Ingress \cup {Nobody}]]

RunsHaveWhatTheyNeed == \A b \in Bastions : RunHasWhatItNeeds(b)

MachinesReportThemselves == \A n \in Names : MachineReportsItself(n)

LEMMA Parts ==
  TypeOK <=> /\ Flags /\ ResourceTypes /\ RunTypes /\ CloudTypes
             /\ RunsHaveWhatTheyNeed /\ MachinesReportThemselves
BY Zenon DEF TypeOK, Flags, ResourceTypes, RunTypes, CloudTypes, HostType, MachineType,
   RunsHaveWhatTheyNeed, MachinesReportThemselves

LEMMA PartsPrime ==
  (TypeOK <=> /\ Flags /\ ResourceTypes /\ RunTypes /\ CloudTypes
              /\ RunsHaveWhatTheyNeed /\ MachinesReportThemselves)'
BY Zenon DEF TypeOK, Flags, ResourceTypes, RunTypes, CloudTypes, HostType, MachineType,
   RunsHaveWhatTheyNeed, MachinesReportThemselves

LEMMA NameInNames == \A b \in Bastions : generateBastionHostResourceName(b) \in Names
BY DEF Names, generateBastionHostResourceName

LEMMA DistinctNames ==
  \A b, c \in Bastions : b # c =>
    generateBastionHostResourceName(b) # generateBastionHostResourceName(c)
BY NamesAssumption DEF generateBastionHostResourceName

LEMMA InitType == Init => TypeOK
<1> SUFFICES ASSUME Init PROVE TypeOK
  OBVIOUS
<1>1. Flags
  BY Zenon DEF Init, Flags
<1>2. ResourceTypes
  BY DEF Init, ResourceTypes
<1>3. RunTypes
  <2>1. NoHost \in HostType
    BY DEF NoHost, HostType
  <2>2. QED
    BY <2>1 DEF Init, RunTypes, PCs
<1>4. CloudTypes
  BY DEF Init, CloudTypes, MachineType, NoPolicy
<1>5. RunsHaveWhatTheyNeed
  BY DEF Init, RunsHaveWhatTheyNeed, RunHasWhatItNeeds
<1>6. MachinesReportThemselves
  BY DEF Init, MachinesReportThemselves, MachineReportsItself
<1>7. QED
  BY <1>1, <1>2, <1>3, <1>4, <1>5, <1>6, Parts

LEMMA FlagsType ==
  ASSUME Flags, Next
  PROVE  Flags'
<1> USE DEF Flags, resourceVars
<1>1. ASSUME NEW b \in Bastions, FailRun(b) \/ UNCHANGED pending
      PROVE  pending' \in [Bastions -> BOOLEAN]
  BY <1>1, Zenon DEF FailRun
<1>2. ASSUME NEW b \in Bastions, NEW i \in Ingress, CreateBastion(b, i) \/ UpdateIngress(b, i)
      PROVE  Flags'
  BY <1>2, Zenon DEF CreateBastion, UpdateIngress
<1>3. ASSUME NEW b \in Bastions, RequestDeletion(b) \/ Begin(b)
      PROVE  Flags'
  BY <1>3, Zenon DEF RequestDeletion, Begin
<1>4. ASSUME NEW b \in Bastions, RunStep(b) \/ Abort(b)
      PROVE  Flags'
  BY <1>1, <1>4, Zenon DEF RunStep, Abort, getInfrastructureStatus, applyMachine,
     applyIgnitionSecret, ensureNetworkPolicy, getMachineEndpoints, publishIngress,
     LookupFails, Delete, Release, Returns
<1>5. CASE InfraChanges
  BY <1>5, Zenon DEF InfraChanges
<1>6. ASSUME NEW n \in Names, CloudStep(n)
      PROVE  Flags'
  BY <1>6, Zenon DEF CloudStep, MachineReports, OperatorDeletes, MachineVanishes,
     CollectSecret, CollectPolicy
<1>7. QED
  BY <1>2, <1>3, <1>4, <1>5, <1>6, Zenon DEF Next

LEMMA ResourceType ==
  ASSUME TypeOK, Next
  PROVE  ResourceTypes'
<1>0. ResourceTypes /\ RunTypes
  BY Parts
<1> USE DEF ResourceTypes, resourceVars
<1>1. ASSUME NEW b \in Bastions, NEW i \in Ingress, CreateBastion(b, i) \/ UpdateIngress(b, i)
      PROVE  ResourceTypes'
  BY <1>0, <1>1 DEF CreateBastion, UpdateIngress
<1>2. ASSUME NEW b \in Bastions, RequestDeletion(b) \/ Begin(b) \/ Abort(b)
      PROVE  ResourceTypes'
  BY <1>0, <1>2 DEF RequestDeletion, Begin, Abort
<1>3. ASSUME NEW b \in Bastions, RunStep(b)
      PROVE  ResourceTypes'
  <2>1. CASE publishIngress(b) \/ Release(b)
    BY <1>0, <2>1 DEF publishIngress, Release, RunTypes
  <2>2. CASE ~(publishIngress(b) \/ Release(b))
    BY <1>0, <1>3, <2>2 DEF RunStep, getInfrastructureStatus, applyMachine,
       applyIgnitionSecret, ensureNetworkPolicy, getMachineEndpoints, LookupFails, Delete
  <2>3. QED
    BY <2>1, <2>2
<1>4. CASE InfraChanges \/ \E n \in Names : CloudStep(n)
  BY <1>0, <1>4 DEF InfraChanges, CloudStep, MachineReports, OperatorDeletes,
     MachineVanishes, CollectSecret, CollectPolicy
<1>5. QED
  BY <1>1, <1>2, <1>3, <1>4 DEF Next

LEMMA RunType ==
  ASSUME TypeOK, Next
  PROVE  RunTypes'
<1>0. ResourceTypes /\ RunTypes /\ CloudTypes
  BY Parts
<1> USE DEF RunTypes, runVars, PCs
<1>1. ASSUME NEW b \in Bastions, EndRun(b)
      PROVE  RunTypes'
  <2>1. NoHost \in HostType
    BY DEF NoHost, HostType
  <2>2. QED
    BY <1>0, <1>1, <2>1 DEF EndRun
<1>2. ASSUME NEW b \in Bastions, NEW next \in PCs, Returns(b, next)
      PROVE  RunTypes'
  BY <1>0, <1>1, <1>2 DEF Returns, FailRun
<1>3. ASSUME NEW b \in Bastions, NEW i \in Ingress, CreateBastion(b, i) \/ UpdateIngress(b, i)
      PROVE  RunTypes'
  BY <1>0, <1>3 DEF CreateBastion, UpdateIngress
<1>4. ASSUME NEW b \in Bastions, RequestDeletion(b) \/ Begin(b)
      PROVE  RunTypes'
  BY <1>0, <1>4 DEF RequestDeletion, Begin, ResourceTypes
<1>5. ASSUME NEW b \in Bastions, RunStep(b) \/ Abort(b)
      PROVE  RunTypes'
  <2>1. CASE getInfrastructureStatus(b)
    BY <1>0, <2>1 DEF getInfrastructureStatus
  <2>2. CASE applyMachine(b)
    <3> DEFINE n == generateBastionHostResourceName(b)
               h == [uid |-> machines'[n].uid, running |-> "running" \in machines'[n].shows]
    <3>1. machines'[n].uid \in Nat
      BY <1>0, <2>2, NameInNames DEF applyMachine, CloudTypes, MachineType
    <3>2. h \in HostType
      BY <3>1 DEF HostType
    <3>3. CASE FailRun(b)
      BY <1>1, <3>3 DEF FailRun
    <3>4. CASE /\ pc'   = [pc EXCEPT ![b] = "secret"]
               /\ host' = [host EXCEPT ![b] = h]
               /\ UNCHANGED <<pending, seen, address>>
      BY <1>0, <3>2, <3>4
    <3>5. QED
      BY <2>2, <3>3, <3>4 DEF applyMachine
  <2>3. CASE applyIgnitionSecret(b) \/ ensureNetworkPolicy(b) \/ Delete(b)
    BY <1>2, <2>3 DEF applyIgnitionSecret, ensureNetworkPolicy, Delete
  <2>4. CASE getMachineEndpoints(b)
    BY <1>0, <2>4, NameInNames DEF getMachineEndpoints, Host, CloudTypes, MachineType
  <2>5. CASE publishIngress(b) \/ LookupFails(b) \/ Release(b) \/ Abort(b)
    BY <1>1, <2>5 DEF publishIngress, LookupFails, Release, Abort, FailRun
  <2>6. QED
    BY <1>5, <2>1, <2>2, <2>3, <2>4, <2>5 DEF RunStep
<1>6. CASE InfraChanges \/ \E n \in Names : CloudStep(n)
  BY <1>0, <1>6 DEF InfraChanges, CloudStep, MachineReports, OperatorDeletes,
     MachineVanishes, CollectSecret, CollectPolicy
<1>7. QED
  BY <1>3, <1>4, <1>5, <1>6 DEF Next

LEMMA CloudType ==
  ASSUME TypeOK, Next
  PROVE  CloudTypes'
<1>0. ResourceTypes /\ RunTypes /\ CloudTypes
  BY Parts
<1> USE DEF CloudTypes, cloudVars, MachineType
<1>1. CASE \/ \E b \in Bastions :
                \/ \E i \in Ingress : CreateBastion(b, i) \/ UpdateIngress(b, i)
                \/ RequestDeletion(b) \/ Begin(b) \/ Abort(b)
           \/ InfraChanges
  BY <1>0, <1>1 DEF CreateBastion, UpdateIngress, RequestDeletion, Begin, Abort, InfraChanges
<1>2. ASSUME NEW b \in Bastions, RunStep(b)
      PROVE  CloudTypes'
  <2>1. CASE applyMachine(b)
    BY <1>0, <2>1, NameInNames DEF applyMachine
  <2>2. CASE applyIgnitionSecret(b)
    BY <1>0, <2>2 DEF applyIgnitionSecret, RunTypes, HostType
  <2>3. CASE ensureNetworkPolicy(b)
    <3>1. /\ host[b].uid \in Nat /\ seen[b] \in Ingress \cup {Nobody}
      BY <1>0 DEF RunTypes, HostType
    <3>2. QED
      BY <1>0, <2>3, <3>1 DEF ensureNetworkPolicy
  <2>4. CASE Delete(b)
    BY <1>0, <2>4, NameInNames DEF Delete
  <2>5. CASE getInfrastructureStatus(b) \/ getMachineEndpoints(b) \/ publishIngress(b)
             \/ LookupFails(b) \/ Release(b)
    BY <1>0, <2>5 DEF getInfrastructureStatus, getMachineEndpoints, publishIngress,
       LookupFails, Release
  <2>6. QED
    BY <1>2, <2>1, <2>2, <2>3, <2>4, <2>5 DEF RunStep
<1>3. ASSUME NEW n \in Names, CloudStep(n)
      PROVE  CloudTypes'
  <2>1. ASSUME NEW what \in Reports, MachineReports(n, what)
        PROVE  CloudTypes'
    <3>1. machines[n].shows \cup {what} \in SUBSET Reports
      BY <1>0
    <3>2. QED
      BY <1>0, <2>1, <3>1 DEF MachineReports
  <2>2. CASE OperatorDeletes(n)
    BY <1>0, <2>2 DEF OperatorDeletes
  <2>3. CASE MachineVanishes(n)
    BY <1>0, <2>3 DEF MachineVanishes
  <2>4. CASE CollectSecret(n) \/ CollectPolicy(n)
    BY <1>0, <2>4 DEF CollectSecret, CollectPolicy, NoPolicy
  <2>5. QED
    BY <1>3, <2>1, <2>2, <2>3, <2>4 DEF CloudStep
<1>4. QED
  BY <1>1, <1>2, <1>3 DEF Next

(* A machine is there once a run has made it, and from then on it is the   *)
(* run's host; what it reports goes when it vanishes.                      *)
LEMMA MachinesKeepShape ==
  ASSUME TypeOK, Next
  PROVE  MachinesReportThemselves'
<1>0. RunTypes /\ CloudTypes /\ MachinesReportThemselves
  BY Parts
<1> USE DEF MachinesReportThemselves, MachineReportsItself, CloudTypes, MachineType, cloudVars
<1>1. CASE UNCHANGED machines
  BY <1>0, <1>1
<1>2. ASSUME NEW b \in Bastions, applyMachine(b) \/ Delete(b)
      PROVE  MachinesReportThemselves'
  BY <1>0, <1>2, NameInNames DEF applyMachine, Delete
<1>3. ASSUME NEW n \in Names,
             \/ \E what \in Reports : MachineReports(n, what)
             \/ OperatorDeletes(n) \/ MachineVanishes(n)
      PROVE  MachinesReportThemselves'
  BY <1>0, <1>3 DEF MachineReports, OperatorDeletes, MachineVanishes
<1>4. \/ UNCHANGED machines
      \/ \E b \in Bastions : applyMachine(b) \/ Delete(b)
      \/ \E n \in Names : \/ \E what \in Reports : MachineReports(n, what)
                          \/ OperatorDeletes(n) \/ MachineVanishes(n)
  <2>1. ASSUME NEW b \in Bastions, RunStep(b)
        PROVE  UNCHANGED machines \/ applyMachine(b) \/ Delete(b)
    BY <2>1 DEF RunStep, getInfrastructureStatus, applyIgnitionSecret, ensureNetworkPolicy,
       getMachineEndpoints, publishIngress, LookupFails, Release
  <2>2. ASSUME NEW b \in Bastions,
               \/ \E i \in Ingress : CreateBastion(b, i) \/ UpdateIngress(b, i)
               \/ RequestDeletion(b) \/ Begin(b) \/ Abort(b)
        PROVE  UNCHANGED machines
    BY <2>2 DEF CreateBastion, UpdateIngress, RequestDeletion, Begin, Abort
  <2>3. ASSUME NEW n \in Names, CloudStep(n)
        PROVE  \/ UNCHANGED machines
               \/ \E what \in Reports : MachineReports(n, what)
               \/ OperatorDeletes(n) \/ MachineVanishes(n)
    BY <2>3 DEF CloudStep, CollectSecret, CollectPolicy
  <2>4. CASE InfraChanges
    BY <2>4 DEF InfraChanges
  <2>5. QED
    BY <2>1, <2>2, <2>3, <2>4 DEF Next
<1>5. QED
  BY <1>1, <1>2, <1>3, <1>4

LEMMA RunsKeepWhatTheyNeed ==
  ASSUME TypeOK, Next
  PROVE  RunsHaveWhatTheyNeed'
<1>0. /\ RunTypes /\ CloudTypes /\ RunsHaveWhatTheyNeed /\ MachinesReportThemselves
      /\ MachinesReportThemselves'
  BY Parts, MachinesKeepShape
<1> USE DEF RunsHaveWhatTheyNeed, RunHasWhatItNeeds, RunTypes, HostType, runVars
<1>1. CASE UNCHANGED runVars
  BY <1>0, <1>1
<1>2. ASSUME NEW b \in Bastions, EndRun(b)
      PROVE  RunsHaveWhatTheyNeed'
  BY <1>0, <1>2 DEF EndRun, NoHost
<1>3. ASSUME NEW b \in Bastions, RequestDeletion(b) \/ Begin(b) \/ Abort(b)
      PROVE  RunsHaveWhatTheyNeed'
  BY <1>0, <1>2, <1>3 DEF RequestDeletion, Begin, Abort, FailRun
<1>4. ASSUME NEW b \in Bastions, RunStep(b)
      PROVE  RunsHaveWhatTheyNeed'
  <2>1. CASE getInfrastructureStatus(b)
    BY <1>0, <2>1 DEF getInfrastructureStatus
  <2>2. CASE applyMachine(b)
    <3> DEFINE n == generateBastionHostResourceName(b)
    <3>1. machines'[n].state # "absent"
      BY <1>0, <2>2, NameInNames DEF applyMachine, CloudTypes, MachineType
    <3>2. machines'[n].uid # 0
      BY <1>0, <3>1, NameInNames DEF MachinesReportThemselves, MachineReportsItself
    <3>3. QED
      BY <1>0, <1>2, <2>2, <3>2 DEF applyMachine, FailRun
  <2>3. CASE applyIgnitionSecret(b) \/ ensureNetworkPolicy(b) \/ Delete(b)
    BY <1>0, <1>2, <2>3 DEF applyIgnitionSecret, ensureNetworkPolicy, Delete, Returns, FailRun
  <2>4. CASE getMachineEndpoints(b)
    <3>1. Host(b).uid # 0
      BY <1>0, <2>4, NameInNames DEF getMachineEndpoints, Host, MachinesReportThemselves,
         MachineReportsItself
    <3>2. QED
      BY <1>0, <2>4, <3>1 DEF getMachineEndpoints
  <2>5. CASE publishIngress(b) \/ LookupFails(b) \/ Release(b)
    BY <1>2, <2>5 DEF publishIngress, LookupFails, Release, FailRun
  <2>6. QED
    BY <1>4, <2>1, <2>2, <2>3, <2>4, <2>5 DEF RunStep
<1>5. CASE \/ \E b \in Bastions : \E i \in Ingress : CreateBastion(b, i) \/ UpdateIngress(b, i)
           \/ InfraChanges \/ \E n \in Names : CloudStep(n)
  BY <1>1, <1>5 DEF CreateBastion, UpdateIngress, InfraChanges, CloudStep, MachineReports,
     OperatorDeletes, MachineVanishes, CollectSecret, CollectPolicy
<1>6. QED
  BY <1>3, <1>4, <1>5 DEF Next

LEMMA NextType == TypeOK /\ [Next]_vars => TypeOK'
<1>1. TypeOK /\ Next => TypeOK'
  BY Parts, PartsPrime, FlagsType, ResourceType, RunType, CloudType, MachinesKeepShape,
     RunsKeepWhatTheyNeed
<1>2. TypeOK /\ UNCHANGED vars => TypeOK'
  BY Zenon DEF TypeOK, vars, resourceVars, runVars, cloudVars, RunHasWhatItNeeds,
     MachineReportsItself
<1>3. QED
  BY <1>1, <1>2

(* Every variable keeps its type, and a run has what it goes on with. *)
THEOREM TypeCorrect == Spec => []TypeOK
BY InitType, NextType, PTL DEF Spec

-----------------------------------------------------------------------------
(***************************************************************************)
(* What a step changes of a bastion.                                       *)
(***************************************************************************)

View(b) == <<phase[b], published[b], pc[b], host[b], address[b],
             Host(b), Secret(b), Policy(b)>>

Own(b) ==
  \/ \E i \in Ingress : CreateBastion(b, i) \/ UpdateIngress(b, i)
  \/ RequestDeletion(b)
  \/ Begin(b) \/ RunStep(b) \/ Abort(b)

(* What happens to one bastion leaves the others, their runs and all they  *)
(* have made, alone: this is where different names are needed.             *)
LEMMA Elsewhere ==
  ASSUME TypeOK, NEW b \in Bastions, NEW c \in Bastions, b # c, Own(c)
  PROVE  UNCHANGED View(b)
<1>0. /\ ResourceTypes /\ RunTypes /\ CloudTypes
      /\ generateBastionHostResourceName(b) \in Names
      /\ generateBastionHostResourceName(b) # generateBastionHostResourceName(c)
  BY Parts, NameInNames, DistinctNames
<1> USE DEF View, Host, Secret, Policy, ResourceTypes, RunTypes, CloudTypes,
            resourceVars, runVars, cloudVars
<1>1. EndRun(c) =>
        /\ pc'[b] = pc[b] /\ host'[b] = host[b] /\ address'[b] = address[b]
  BY <1>0 DEF EndRun
<1>2. ASSUME NEW next \in PCs, Returns(c, next)
      PROVE  pc'[b] = pc[b] /\ host'[b] = host[b] /\ address'[b] = address[b]
  BY <1>0, <1>1, <1>2 DEF Returns, FailRun
<1>3. ASSUME NEW i \in Ingress, CreateBastion(c, i) \/ UpdateIngress(c, i)
      PROVE  UNCHANGED View(b)
  BY <1>0, <1>3 DEF CreateBastion, UpdateIngress
<1>4. CASE RequestDeletion(c) \/ Begin(c)
  BY <1>0, <1>4 DEF RequestDeletion, Begin
<1>5. CASE Abort(c) \/ LookupFails(c)
  BY <1>0, <1>1, <1>5 DEF Abort, LookupFails, FailRun
<1>6. CASE getInfrastructureStatus(c) \/ getMachineEndpoints(c)
  BY <1>0, <1>6 DEF getInfrastructureStatus, getMachineEndpoints
<1>7. CASE applyMachine(c)
  BY <1>0, <1>1, <1>7 DEF applyMachine, FailRun
<1>8. CASE applyIgnitionSecret(c)
  BY <1>0, <1>2, <1>8 DEF applyIgnitionSecret, PCs
<1>9. CASE ensureNetworkPolicy(c)
  BY <1>0, <1>2, <1>9 DEF ensureNetworkPolicy, PCs
<1>10. CASE Delete(c)
  BY <1>0, <1>2, <1>10 DEF Delete, PCs
<1>11. CASE publishIngress(c) \/ Release(c)
  BY <1>0, <1>1, <1>11 DEF publishIngress, Release, FailRun
<1>12. QED
  BY <1>3, <1>4, <1>5, <1>6, <1>7, <1>8, <1>9, <1>10, <1>11 DEF Own, RunStep

LEMMA NextSplit ==
  Next <=> \/ \E b \in Bastions : Own(b)
           \/ InfraChanges
           \/ \E n \in Names : CloudStep(n)
BY DEF Next, Own

-----------------------------------------------------------------------------
(***************************************************************************)
(* Nothing is left behind.                                                 *)
(***************************************************************************)

(* The resource outlives its run; a run deletes on request only, and has   *)
(* deleted the machine before the resource is let go.                      *)
RunMatchesPhase(b) ==
  /\ phase[b] \in {"absent", "gone"} => pc[b] = "idle"
  /\ pc[b] \in {"delete", "release"} => phase[b] = "deleting"
  /\ phase[b] = "gone" \/ pc[b] = "release" => Host(b).state # "live"

LeftInv == TypeOK /\ \A b \in Bastions : RunMatchesPhase(b)

LEMMA LeftNext == LeftInv /\ [Next]_vars => LeftInv'
<1> SUFFICES ASSUME LeftInv, [Next]_vars, NEW b \in Bastions
             PROVE  RunMatchesPhase(b)'
  BY NextType DEF LeftInv
<1>0. /\ TypeOK /\ ResourceTypes /\ RunTypes /\ CloudTypes
      /\ generateBastionHostResourceName(b) \in Names
      /\ RunMatchesPhase(b)
  BY Parts, NameInNames DEF LeftInv
<1>1. UNCHANGED View(b) => RunMatchesPhase(b)'
  BY <1>0 DEF View, RunMatchesPhase
<1>2. ASSUME NEW c \in Bastions, c # b, Own(c)
      PROVE  RunMatchesPhase(b)'
  BY <1>0, <1>1, <1>2, Elsewhere
<1> USE DEF RunMatchesPhase, Host, ResourceTypes, RunTypes, CloudTypes, MachineType,
            resourceVars, runVars, cloudVars
<1>3. CASE Own(b)
  <2>1. ASSUME NEW i \in Ingress, CreateBastion(b, i) \/ UpdateIngress(b, i)
        PROVE  RunMatchesPhase(b)'
    BY <1>0, <2>1 DEF CreateBastion, UpdateIngress
  <2>2. CASE RequestDeletion(b) \/ Begin(b)
    BY <1>0, <2>2 DEF RequestDeletion, Begin
  <2>3. CASE Abort(b) \/ LookupFails(b) \/ getInfrastructureStatus(b) \/ getMachineEndpoints(b)
    BY <1>0, <2>3 DEF Abort, LookupFails, FailRun, EndRun, getInfrastructureStatus,
       getMachineEndpoints
  <2>4. CASE applyMachine(b)
    BY <1>0, <2>4 DEF applyMachine, FailRun, EndRun
  <2>5. CASE applyIgnitionSecret(b) \/ ensureNetworkPolicy(b)
    BY <1>0, <2>5 DEF applyIgnitionSecret, ensureNetworkPolicy, Returns, FailRun, EndRun
  <2>6. CASE Delete(b)
    BY <1>0, <2>6 DEF Delete, Returns, FailRun, EndRun
  <2>7. CASE publishIngress(b) \/ Release(b)
    BY <1>0, <2>7 DEF publishIngress, Release, FailRun, EndRun
  <2>8. QED
    BY <1>3, <2>1, <2>2, <2>3, <2>4, <2>5, <2>6, <2>7 DEF Own, RunStep
<1>4. CASE InfraChanges
  BY <1>0, <1>4 DEF InfraChanges
<1>5. ASSUME NEW n \in Names, CloudStep(n)
      PROVE  RunMatchesPhase(b)'
  <2>1. ASSUME NEW what \in Reports, MachineReports(n, what)
        PROVE  RunMatchesPhase(b)'
    <3>1. machines'[generateBastionHostResourceName(b)].state
            = machines[generateBastionHostResourceName(b)].state
      BY <1>0, <2>1 DEF MachineReports
    <3>2. QED
      BY <1>0, <2>1, <3>1 DEF MachineReports
  <2>2. CASE OperatorDeletes(n) \/ MachineVanishes(n)
    BY <1>0, <2>2 DEF OperatorDeletes, MachineVanishes
  <2>3. CASE CollectSecret(n) \/ CollectPolicy(n)
    BY <1>0, <2>3 DEF CollectSecret, CollectPolicy
  <2>4. QED
    BY <1>5, <2>1, <2>2, <2>3 DEF CloudStep
<1>6. CASE UNCHANGED vars
  BY <1>0, <1>6 DEF vars
<1>7. QED
  BY <1>2, <1>3, <1>4, <1>5, <1>6, NextSplit

(* The machine of a Bastion that is gone is deleted, and no run is left    *)
(* that could make another one.                                            *)
THEOREM NothingIsLeft == Spec => []LeftInv
<1>1. Init => LeftInv
  BY InitType, NameInNames DEF Init, LeftInv, RunMatchesPhase, Host
<1>2. QED
  BY <1>1, LeftNext, PTL DEF Spec

(* The controller does not delete the machine of a Bastion that stays, in  *)
(* whatever run of whatever Bastion.                                       *)
THEOREM OthersAreKept == Spec => HostsAreKept
<1> DEFINE Kept(b) ==
      /\ phase[b] = "present"
      /\ Host(b).state = "live"
      /\ ~OperatorDeletes(generateBastionHostResourceName(b))
      => Host(b)'.state = "live"
<1>1. LeftInv /\ [Next]_vars => [\A b \in Bastions : Kept(b)]_vars
  <2> SUFFICES ASSUME LeftInv, Next, NEW b \in Bastions,
                      phase[b] = "present", Host(b).state = "live",
                      ~OperatorDeletes(generateBastionHostResourceName(b))
               PROVE  Host(b)'.state = "live"
    OBVIOUS
  <2>0. /\ TypeOK /\ CloudTypes /\ generateBastionHostResourceName(b) \in Names
        /\ pc[b] \notin {"delete", "release"}
    BY Parts, NameInNames DEF LeftInv, RunMatchesPhase
  <2> USE DEF Host, CloudTypes, MachineType, cloudVars
  <2>1. ASSUME NEW c \in Bastions, c # b, Own(c)
        PROVE  Host(b)'.state = "live"
    BY <2>0, <2>1, Elsewhere DEF View
  <2>2. CASE Own(b)
    <3>1. CASE applyMachine(b)
      BY <2>0, <3>1 DEF applyMachine
    <3>2. CASE ~applyMachine(b)
      <4>1. UNCHANGED machines
        BY <2>0, <2>2, <3>2 DEF Own, RunStep, CreateBastion, UpdateIngress, RequestDeletion,
           Begin, Abort, getInfrastructureStatus, applyIgnitionSecret, ensureNetworkPolicy,
           getMachineEndpoints, publishIngress, LookupFails, Delete, Release
      <4>2. QED
        BY <4>1
    <3>3. QED
      BY <3>1, <3>2
  <2>3. CASE InfraChanges
    BY <2>3 DEF InfraChanges
  <2>4. ASSUME NEW n \in Names, CloudStep(n)
        PROVE  Host(b)'.state = "live"
    <3>1. ASSUME NEW what \in Reports, MachineReports(n, what)
          PROVE  Host(b)'.state = "live"
      BY <2>0, <3>1 DEF MachineReports
    <3>2. CASE OperatorDeletes(n)
      <4>1. n # generateBastionHostResourceName(b)
        BY <3>2
      <4>2. QED
        BY <2>0, <3>2, <4>1 DEF OperatorDeletes
    <3>3. CASE MachineVanishes(n)
      BY <2>0, <3>3 DEF MachineVanishes
    <3>4. CASE CollectSecret(n) \/ CollectPolicy(n)
      BY <3>4 DEF CollectSecret, CollectPolicy
    <3>5. QED
      BY <2>4, <3>1, <3>2, <3>3, <3>4 DEF CloudStep
  <2>5. QED
    BY <2>1, <2>2, <2>3, <2>4, NextSplit
<1>2. Init => LeftInv
  BY InitType, NameInNames DEF Init, LeftInv, RunMatchesPhase, Host
<1>3. QED
  BY <1>1, <1>2, LeftNext, PTL DEF Spec, HostsAreKept

-----------------------------------------------------------------------------
(***************************************************************************)
(* The first machine of a bastion and what guards it.                      *)
(***************************************************************************)

(* Before there was any machine nothing was made, and no run has got one.  *)
Fresh(b) ==
  Host(b).uid = 0 =>
    /\ Host(b).state = "absent" /\ Secret(b) = 0 /\ Policy(b) = NoPolicy
    /\ published[b] = 0
    /\ pc[b] \notin {"secret", "policy", "endpoints", "status"}

(* The run makes the secret, then the policy, then looks for the address;  *)
(* what is there was made for this machine, in this run or another.        *)
RunGuards(b) ==
  Undisturbed(b) =>
    /\ pc[b] \in {"secret", "policy"}    => host[b].uid = 1
    /\ pc[b] \in {"policy", "endpoints", "status"} => Secret(b) = 1
    /\ pc[b] \in {"endpoints", "status"} => Policy(b).owner = 1
    /\ pc[b] = "status"                  => address[b] = 1
    /\ Secret(b) \in {0, 1}
    /\ Policy(b) = NoPolicy \/ Policy(b).owner = 1
    /\ published[b] # 0 =>
         published[b] = 1 /\ Secret(b) = 1 /\ Policy(b).owner = 1

GuardInv == TypeOK /\ \A b \in Bastions : Fresh(b) /\ RunGuards(b)

LEMMA GuardNext == GuardInv /\ [Next]_vars => GuardInv'
<1> SUFFICES ASSUME GuardInv, [Next]_vars, NEW b \in Bastions
             PROVE  Fresh(b)' /\ RunGuards(b)'
  BY NextType DEF GuardInv
<1>0. /\ TypeOK /\ ResourceTypes /\ RunTypes /\ CloudTypes
      /\ generateBastionHostResourceName(b) \in Names
      /\ Fresh(b) /\ RunGuards(b)
  BY Parts, NameInNames DEF GuardInv
<1> USE DEF Fresh, RunGuards, Undisturbed
<1>1. UNCHANGED View(b) => Fresh(b)' /\ RunGuards(b)'
  BY <1>0 DEF View
<1>2. ASSUME NEW c \in Bastions, c # b, Own(c)
      PROVE  Fresh(b)' /\ RunGuards(b)'
  BY <1>0, <1>1, <1>2, Elsewhere
<1> USE DEF Host, Secret, Policy, NoPolicy, ResourceTypes, RunTypes, CloudTypes, HostType,
            MachineType, resourceVars, runVars, cloudVars
<1>3. CASE Own(b)
  <2>1. ASSUME NEW i \in Ingress, CreateBastion(b, i) \/ UpdateIngress(b, i)
        PROVE  Fresh(b)' /\ RunGuards(b)'
    BY <1>0, <2>1 DEF CreateBastion, UpdateIngress
  <2>2. CASE RequestDeletion(b) \/ Begin(b)
    BY <1>0, <2>2 DEF RequestDeletion, Begin
  <2>3. CASE Abort(b) \/ LookupFails(b) \/ getInfrastructureStatus(b)
    BY <1>0, <2>3 DEF Abort, LookupFails, FailRun, EndRun, getInfrastructureStatus
  <2>4. CASE applyMachine(b)
    BY <1>0, <2>4 DEF applyMachine, FailRun, EndRun
  <2>5. CASE applyIgnitionSecret(b)
    BY <1>0, <2>5 DEF applyIgnitionSecret, Returns, FailRun, EndRun
  <2>6. CASE ensureNetworkPolicy(b)
    BY <1>0, <2>6 DEF ensureNetworkPolicy, Returns, FailRun, EndRun
  <2>7. CASE getMachineEndpoints(b)
    BY <1>0, <2>7 DEF getMachineEndpoints
  <2>8. CASE Delete(b)
    BY <1>0, <2>8 DEF Delete, Returns, FailRun, EndRun
  <2>9. CASE publishIngress(b) \/ Release(b)
    BY <1>0, <2>9 DEF publishIngress, Release, FailRun, EndRun
  <2>10. QED
    BY <1>3, <2>1, <2>2, <2>3, <2>4, <2>5, <2>6, <2>7, <2>8, <2>9 DEF Own, RunStep
<1>4. CASE InfraChanges
  BY <1>0, <1>4 DEF InfraChanges
<1>5. ASSUME NEW n \in Names, CloudStep(n)
      PROVE  Fresh(b)' /\ RunGuards(b)'
  <2>1. ASSUME NEW what \in Reports, MachineReports(n, what)
        PROVE  Fresh(b)' /\ RunGuards(b)'
    <3>1. /\ Host(b)'.state = Host(b).state /\ Host(b)'.uid = Host(b).uid
          /\ UNCHANGED <<Secret(b), Policy(b), published, pc, host, address>>
      BY <1>0, <2>1 DEF MachineReports
    <3>2. QED
      BY <1>0, <3>1 DEF MachineReports
  <2>2. CASE OperatorDeletes(n) \/ MachineVanishes(n)
    <3>1. /\ Host(b)' = Host(b) \/ (Host(b).state # "absent" /\ Host(b)'.state # "live")
          /\ Host(b)'.uid = Host(b).uid
      <4>1. CASE n # generateBastionHostResourceName(b)
        BY <1>0, <2>2, <4>1 DEF OperatorDeletes, MachineVanishes
      <4>2. CASE n = generateBastionHostResourceName(b)
        BY <1>0, <2>2, <4>2 DEF OperatorDeletes, MachineVanishes
      <4>3. QED
        BY <4>1, <4>2
    <3>2. UNCHANGED <<Secret(b), Policy(b), published, pc, host, address>>
      BY <2>2 DEF OperatorDeletes, MachineVanishes
    <3>3. QED
      BY <1>0, <3>1, <3>2
  <2>3. CASE CollectSecret(n)
    BY <1>0, <2>3 DEF CollectSecret, OwnerGone
  <2>4. CASE CollectPolicy(n)
    BY <1>0, <2>4 DEF CollectPolicy, OwnerGone
  <2>5. QED
    BY <1>5, <2>1, <2>2, <2>3, <2>4 DEF CloudStep
<1>6. CASE UNCHANGED vars
  BY <1>0, <1>6 DEF vars
<1>7. QED
  BY <1>2, <1>3, <1>4, <1>5, <1>6, NextSplit

(* What is there of the first machine was made for it.                     *)
THEOREM GuardsBelong == Spec => []GuardInv
<1>1. Init => GuardInv
  BY InitType, NameInNames DEF Init, GuardInv, Fresh, RunGuards, Undisturbed, Host, Secret,
     Policy
<1>2. QED
  BY <1>1, GuardNext, PTL DEF Spec

(* A published address is that of a machine with its own ignition secret   *)
(* and network policy, as long as nobody deletes the machine.              *)
THEOREM PublishedIsGuarded == Spec => []PublishedHostIsGuarded
<1>1. GuardInv => PublishedHostIsGuarded
  BY DEF GuardInv, RunGuards, Undisturbed, PublishedHostIsGuarded, Guarded
<1>2. QED
  BY <1>1, GuardsBelong, PTL

-----------------------------------------------------------------------------
(***************************************************************************)
(* The controller implements BastionAccess.                                *)
(***************************************************************************)

(* What the host of the abstract specification says of the machine.        *)
LEMMA HostIs ==
  ASSUME NEW b \in Bastions, Host(b).uid \in Nat
  PROVE  /\ HostOf(b) = "none"  <=> Host(b).uid = 0
         /\ HostOf(b) = "down"  <=> Host(b).uid # 0 /\ Host(b).state # "live"
         /\ HostOf(b) = "first" <=> Undisturbed(b)
         /\ HostOf(b) = "other" <=> Host(b).uid > 1 /\ Host(b).state = "live"
BY DEF HostOf, Undisturbed

Stays(b) == HostOf(b)' = HostOf(b) /\ AccessOf(b)' = AccessOf(b)

(* What a step does of which a Bastion sees something.                     *)
PhaseMove(b) ==
  /\ Stays(b)
  /\ \/ phase[b] = "absent" /\ phase' = [phase EXCEPT ![b] = "present"]
     \/ phase[b] = "present" /\ phase' = [phase EXCEPT ![b] = "deleting"]
     \/ /\ phase[b] = "deleting" /\ phase' = [phase EXCEPT ![b] = "gone"]
        /\ HostOf(b) \in {"none", "down"}

Starts(b) ==
  /\ UNCHANGED phase /\ phase[b] \in {"present", "deleting"}
  /\ AccessOf(b)' = AccessOf(b)
  /\ \/ HostOf(b) = "none" /\ HostOf(b)' = "first"
     \/ HostOf(b) = "down" /\ HostOf(b)' = "other"

GoesDown(b) ==
  /\ UNCHANGED phase
  /\ HostOf(b) \in {"first", "other"} /\ HostOf(b)' = "down"
  /\ AccessOf(b)' = "closed"

Admits(b) ==
  /\ UNCHANGED phase /\ phase[b] \in {"present", "deleting"}
  /\ HostOf(b) = "first" /\ HostOf(b)' = "first"
  /\ \/ AccessOf(b) = "closed" /\ AccessOf(b)' = "guarded"
     \/ AccessOf(b) = "guarded" /\ AccessOf(b)' = "open"

AccessStep(b) ==
  \/ UNCHANGED phase /\ Stays(b)
  \/ PhaseMove(b) \/ Starts(b) \/ GoesDown(b) \/ Admits(b)

(* What the invariants say of one Bastion.                                 *)
Sound(b) ==
  /\ ResourceTypes /\ RunTypes /\ CloudTypes
  /\ generateBastionHostResourceName(b) \in Names
  /\ RunMatchesPhase(b) /\ Fresh(b) /\ RunGuards(b)
  /\ Host(b).uid \in Nat /\ Host(b).state \in {"absent", "live", "terminating"}

LEMMA InvSound ==
  ASSUME LeftInv, GuardInv, NEW b \in Bastions
  PROVE  Sound(b)
<1>1. /\ ResourceTypes /\ RunTypes /\ CloudTypes
      /\ generateBastionHostResourceName(b) \in Names
      /\ RunMatchesPhase(b) /\ Fresh(b) /\ RunGuards(b)
  BY Parts, NameInNames DEF LeftInv, GuardInv
<1>2. Host(b).uid \in Nat /\ Host(b).state \in {"absent", "live", "terminating"}
  BY <1>1 DEF CloudTypes, MachineType, Host
<1>3. QED
  BY <1>1, <1>2 DEF Sound

LEMMA InvSoundNext ==
  ASSUME LeftInv', GuardInv', NEW b \in Bastions
  PROVE  Sound(b)'
<1>1. /\ ResourceTypes' /\ RunTypes' /\ CloudTypes'
      /\ generateBastionHostResourceName(b) \in Names
      /\ RunMatchesPhase(b)' /\ Fresh(b)' /\ RunGuards(b)'
  BY PartsPrime, NameInNames DEF LeftInv, GuardInv
<1>2. Host(b)'.uid \in Nat /\ Host(b)'.state \in {"absent", "live", "terminating"}
  BY <1>1 DEF CloudTypes, MachineType, Host
<1>3. QED
  BY <1>1, <1>2 DEF Sound, Names, generateBastionHostResourceName

(* A step that leaves machine, secret, policy and status as they are.      *)
LEMMA Unseen ==
  ASSUME NEW b \in Bastions, published'[b] = published[b],
         Host(b)'.uid = Host(b).uid, Host(b)'.state = Host(b).state,
         Secret(b)' = Secret(b), Policy(b)' = Policy(b)
  PROVE  Stays(b)
BY DEF Stays, HostOf, AccessOf, Undisturbed, Guarded

(* A step of Gardener, or one that reads.                                  *)
LEMMA QuietStep ==
  ASSUME NEW b \in Bastions, Sound(b),
         \/ \E i \in Ingress : CreateBastion(b, i) \/ UpdateIngress(b, i)
         \/ RequestDeletion(b) \/ Begin(b) \/ Abort(b)
         \/ getInfrastructureStatus(b) \/ getMachineEndpoints(b) \/ LookupFails(b)
  PROVE  AccessStep(b)
<1>1. UNCHANGED <<published, machines, secrets, policies>>
  BY DEF CreateBastion, UpdateIngress, RequestDeletion, Begin, Abort,
     getInfrastructureStatus, getMachineEndpoints, LookupFails, resourceVars, cloudVars
<1>2. Stays(b)
  BY <1>1, Unseen DEF Host, Secret, Policy
<1>3. \/ UNCHANGED phase
      \/ phase[b] = "absent" /\ phase' = [phase EXCEPT ![b] = "present"]
      \/ phase[b] = "present" /\ phase' = [phase EXCEPT ![b] = "deleting"]
  BY DEF CreateBastion, UpdateIngress, RequestDeletion, Begin, Abort,
     getInfrastructureStatus, getMachineEndpoints, LookupFails, resourceVars
<1>4. QED
  BY <1>2, <1>3 DEF AccessStep, PhaseMove

(* A machine that is made is the first, or comes after one that is down.   *)
LEMMA MachineStep ==
  ASSUME NEW b \in Bastions, Sound(b), Sound(b)', applyMachine(b)
  PROVE  AccessStep(b)
<1>1. /\ UNCHANGED <<phase, published, secrets, policies>>
      /\ phase[b] \in {"present", "deleting"}
      /\ Secret(b)' = Secret(b) /\ Policy(b)' = Policy(b)
  BY DEF applyMachine, resourceVars, Sound, RunMatchesPhase, ResourceTypes, Secret, Policy
<1>2. CASE Host(b).state # "absent"
  <2>1. Host(b)' = Host(b)
    BY <1>2 DEF applyMachine, Host
  <2>2. QED
    BY <1>1, <2>1, Unseen DEF AccessStep
<1>3. CASE Host(b).state = "absent"
  <2>1. Host(b)'.state = "live" /\ Host(b)'.uid = Host(b).uid + 1
    BY <1>3 DEF applyMachine, Host, Sound, CloudTypes
  <2>2. AccessOf(b) = "closed" /\ AccessOf(b)' = "closed"
    <3>1. CASE Host(b).uid = 0
      BY <1>1, <1>3, <2>1, <3>1 DEF Sound, Fresh, AccessOf, Undisturbed, Guarded
    <3>2. CASE Host(b).uid # 0
      BY <1>3, <2>1, <3>2 DEF Sound, AccessOf, Undisturbed
    <3>3. QED
      BY <3>1, <3>2
  <2>3. \/ HostOf(b) = "none" /\ HostOf(b)' = "first"
        \/ HostOf(b) = "down" /\ HostOf(b)' = "other"
    BY <1>3, <2>1 DEF Sound, HostOf
  <2>4. QED
    BY <1>1, <2>2, <2>3 DEF AccessStep, Starts
<1>4. QED
  BY <1>2, <1>3

(* Secret and policy guard the machine they are made for; an address is    *)
(* published behind them.                                                  *)
LEMMA GuardStep ==
  ASSUME NEW b \in Bastions, Sound(b), Sound(b)',
         applyIgnitionSecret(b) \/ ensureNetworkPolicy(b) \/ publishIngress(b)
  PROVE  AccessStep(b)
<1>1. /\ UNCHANGED <<phase, machines>> /\ phase[b] \in {"present", "deleting"}
      /\ Host(b)' = Host(b)
  BY DEF applyIgnitionSecret, ensureNetworkPolicy, publishIngress, resourceVars, cloudVars,
     Sound, RunMatchesPhase, ResourceTypes, Host
<1>2. HostOf(b)' = HostOf(b) /\ (Undisturbed(b)' <=> Undisturbed(b))
  BY <1>1 DEF HostOf, Undisturbed
<1>3. CASE ~Undisturbed(b)
  BY <1>1, <1>2, <1>3 DEF AccessStep, Stays, AccessOf
<1>4. CASE Undisturbed(b)
  <2>1. HostOf(b) = "first" /\ HostOf(b)' = "first"
    BY <1>2, <1>4, HostIs DEF Sound
  <2>2. \/ AccessOf(b)' = AccessOf(b)
        \/ AccessOf(b) = "closed" /\ AccessOf(b)' = "guarded"
        \/ AccessOf(b) = "guarded" /\ AccessOf(b)' = "open"
    <3>1. CASE applyIgnitionSecret(b) \/ ensureNetworkPolicy(b)
      <4>1. published' = published
        BY <3>1 DEF applyIgnitionSecret, ensureNetworkPolicy, resourceVars
      <4>2. published[b] # 0 => AccessOf(b)' = AccessOf(b)
        BY <1>2, <1>4, <4>1 DEF AccessOf
      <4>3. Guarded(b) => Guarded(b)'
        BY <1>1, <1>4, <3>1 DEF applyIgnitionSecret, ensureNetworkPolicy, Guarded, Undisturbed,
           Secret, Policy, Sound, CloudTypes, NoPolicy
      <4>4. QED
        BY <1>2, <1>4, <4>1, <4>2, <4>3 DEF AccessOf
    <3>2. CASE publishIngress(b)
      <4>1. published'[b] = 1 /\ Guarded(b) /\ Guarded(b)'
        BY <1>1, <1>4, <3>2 DEF publishIngress, cloudVars, Guarded, Undisturbed, Secret, Policy,
           Sound, RunGuards, ResourceTypes
      <4>2. QED
        BY <1>2, <1>4, <4>1 DEF AccessOf
    <3>3. QED
      BY <3>1, <3>2
  <2>3. QED
    BY <1>1, <2>1, <2>2 DEF AccessStep, Stays, Admits
<1>5. QED
  BY <1>3, <1>4

(* Deleting the machine takes the host down; the resource goes after it.   *)
LEMMA DeleteStep ==
  ASSUME NEW b \in Bastions, Sound(b), Sound(b)', Delete(b) \/ Release(b)
  PROVE  AccessStep(b)
<1>1. CASE Delete(b)
  <2>1. /\ UNCHANGED <<phase, published, secrets, policies>>
        /\ Host(b)'.uid = Host(b).uid
        /\ Host(b)'.state = IF Host(b).state = "absent" THEN "absent" ELSE "terminating"
    BY <1>1 DEF Delete, resourceVars, Host, Sound, CloudTypes, MachineType
  <2>2. CASE Host(b).state = "live"
    <3>1. Host(b).uid # 0
      BY <2>2 DEF Sound, Fresh
    <3>2. HostOf(b) \in {"first", "other"} /\ HostOf(b)' = "down"
      BY <2>1, <2>2, <3>1 DEF HostOf, Sound
    <3>3. AccessOf(b)' = "closed"
      BY <2>1, <2>2 DEF AccessOf, Undisturbed
    <3>4. QED
      BY <2>1, <3>2, <3>3 DEF AccessStep, GoesDown
  <2>3. CASE Host(b).state # "live"
    <3>1. HostOf(b)' = HostOf(b)
      BY <2>1, <2>3 DEF HostOf, Sound
    <3>2. AccessOf(b) = "closed" /\ AccessOf(b)' = "closed"
      BY <2>1, <2>3 DEF AccessOf, Undisturbed
    <3>3. QED
      BY <2>1, <3>1, <3>2 DEF AccessStep, Stays
  <2>4. QED
    BY <2>2, <2>3
<1>2. CASE Release(b)
  <2>1. /\ phase[b] = "deleting" /\ phase' = [phase EXCEPT ![b] = "gone"]
        /\ Host(b).state # "live" /\ Host(b)' = Host(b)
    BY <1>2 DEF Release, cloudVars, Host, Sound, RunMatchesPhase
  <2>2. HostOf(b)' = HostOf(b) /\ HostOf(b) \in {"none", "down"}
    BY <2>1 DEF HostOf, Sound
  <2>3. AccessOf(b) = "closed" /\ AccessOf(b)' = "closed"
    BY <2>1 DEF AccessOf, Undisturbed
  <2>4. QED
    BY <2>1, <2>2, <2>3 DEF AccessStep, PhaseMove, Stays
<1>3. QED
  BY <1>1, <1>2

(* The cloud takes no guard from the first machine while it lives.         *)
LEMMA CloudAccess ==
  ASSUME NEW b \in Bastions, Sound(b), Sound(b)', CloudStep(generateBastionHostResourceName(b))
  PROVE  AccessStep(b)
<1> DEFINE n == generateBastionHostResourceName(b)
<1>0. UNCHANGED <<phase, published>>
  BY DEF CloudStep, MachineReports, OperatorDeletes, MachineVanishes, CollectSecret,
     CollectPolicy, resourceVars
<1>1. ASSUME NEW what \in Reports, MachineReports(n, what)
      PROVE  AccessStep(b)
  <2>1. /\ Host(b)'.uid = Host(b).uid /\ Host(b)'.state = Host(b).state
        /\ Secret(b)' = Secret(b) /\ Policy(b)' = Policy(b)
    BY <1>1 DEF MachineReports, Host, Secret, Policy, Sound, CloudTypes, MachineType
  <2>2. QED
    BY <1>0, <2>1, Unseen DEF AccessStep
<1>2. CASE OperatorDeletes(n)
  <2>1. /\ Host(b).state = "live" /\ Host(b)'.state = "terminating"
        /\ Host(b)'.uid = Host(b).uid
    BY <1>2 DEF OperatorDeletes, Host, Sound, CloudTypes, MachineType
  <2>2. HostOf(b) \in {"first", "other"} /\ HostOf(b)' = "down"
    BY <2>1 DEF HostOf, Sound, Fresh
  <2>3. AccessOf(b)' = "closed"
    BY <2>1 DEF AccessOf, Undisturbed
  <2>4. QED
    BY <1>0, <2>2, <2>3 DEF AccessStep, GoesDown
<1>3. CASE MachineVanishes(n)
  <2>1. /\ Host(b).state = "terminating" /\ Host(b)'.state = "absent"
        /\ Host(b)'.uid = Host(b).uid
    BY <1>3 DEF MachineVanishes, Host, Sound, CloudTypes, MachineType
  <2>2. HostOf(b)' = HostOf(b) /\ AccessOf(b) = "closed" /\ AccessOf(b)' = "closed"
    BY <2>1 DEF HostOf, AccessOf, Undisturbed, Sound
  <2>3. QED
    BY <1>0, <2>2 DEF AccessStep, Stays
<1>4. CASE CollectSecret(n) \/ CollectPolicy(n)
  <2>1. Host(b)' = Host(b)
    BY <1>4 DEF CollectSecret, CollectPolicy, Host
  <2>2. ~Undisturbed(b)
    BY <1>4 DEF CollectSecret, CollectPolicy, OwnerGone, Undisturbed, Host, Secret, Policy,
       Sound, RunGuards
  <2>3. HostOf(b)' = HostOf(b) /\ AccessOf(b) = "closed" /\ AccessOf(b)' = "closed"
    BY <2>1, <2>2 DEF HostOf, AccessOf, Undisturbed
  <2>4. QED
    BY <1>0, <2>3 DEF AccessStep, Stays
<1>5. QED
  BY <1>1, <1>2, <1>3, <1>4 DEF CloudStep

(* A machine of one name is seen by the Bastion of that name alone.        *)
LEMMA CloudElsewhere ==
  ASSUME NEW b \in Bastions, Sound(b), NEW n \in Names,
         n # generateBastionHostResourceName(b), CloudStep(n)
  PROVE  UNCHANGED View(b)
<1> USE DEF Sound, View, Host, Secret, Policy, ResourceTypes, RunTypes, CloudTypes,
            resourceVars, runVars
<1>1. ASSUME NEW what \in Reports, MachineReports(n, what)
      PROVE  UNCHANGED View(b)
  BY <1>1 DEF MachineReports
<1>2. CASE OperatorDeletes(n) \/ MachineVanishes(n)
  BY <1>2 DEF OperatorDeletes, MachineVanishes
<1>3. CASE CollectSecret(n) \/ CollectPolicy(n)
  BY <1>3 DEF CollectSecret, CollectPolicy
<1>4. QED
  BY <1>1, <1>2, <1>3 DEF CloudStep

Hosts    == [b \in Bastions |-> HostOf(b)]
Accesses == [b \in Bastions |-> AccessOf(b)]

(* What one Bastion sees of a step, the abstract specification allows.     *)
LEMMA OneStep ==
  ASSUME NEW b \in Bastions, AccessStep(b),
         \A c \in Bastions \ {b} : Stays(c)
  PROVE  [Access!Next]_(Access!vars)
<1>1. Hosts' = [Hosts EXCEPT ![b] = HostOf(b)'] /\ Accesses' = [Accesses EXCEPT ![b] = AccessOf(b)']
  BY DEF Hosts, Accesses, Stays
<1>2. /\ Hosts = [c \in Bastions |-> HostOf(c)] /\ Hosts' = [c \in Bastions |-> HostOf(c)']
      /\ Accesses = [c \in Bastions |-> AccessOf(c)]
      /\ Accesses' = [c \in Bastions |-> AccessOf(c)']
      /\ Hosts[b] = HostOf(b) /\ Accesses[b] = AccessOf(b)
  BY DEF Hosts, Accesses
<1>3. Stays(b) => UNCHANGED <<Hosts, Accesses>>
  BY <1>2 DEF Stays
<1> HIDE DEF Hosts, Accesses
<1>4. CASE UNCHANGED phase /\ Stays(b)
  BY <1>2, <1>3, <1>4 DEF Access!vars
<1>5. CASE PhaseMove(b)
  BY <1>2, <1>3, <1>5 DEF PhaseMove, Access!Next, Access!Moves, Access!Gone
<1>6. CASE Starts(b)
  <2>1. UNCHANGED Accesses
    BY <1>2, <1>6 DEF Starts, Stays
  <2>2. QED
    BY <1>1, <1>2, <1>6, <2>1 DEF Starts, Access!Next, Access!Starts
<1>7. CASE GoesDown(b)
  BY <1>1, <1>2, <1>7 DEF GoesDown, Access!Next, Access!GoesDown
<1>8. CASE Admits(b)
  <2>1. UNCHANGED Hosts
    BY <1>2, <1>8 DEF Admits, Stays
  <2>2. QED
    BY <1>1, <1>2, <1>8, <2>1 DEF Admits, Access!Next, Access!Admits
<1>9. QED
  BY <1>4, <1>5, <1>6, <1>7, <1>8 DEF AccessStep

LEMMA AccessNext ==
  LeftInv /\ GuardInv /\ LeftInv' /\ GuardInv' /\ [Next]_vars => [Access!Next]_(Access!vars)
<1> SUFFICES ASSUME LeftInv, GuardInv, LeftInv', GuardInv', [Next]_vars
             PROVE  [Access!Next]_(Access!vars)
  OBVIOUS
<1>1. \A b \in Bastions : Sound(b) /\ Sound(b)'
  BY InvSound, InvSoundNext
<1>2. ASSUME NEW b \in Bastions, UNCHANGED View(b)
      PROVE  Stays(b)
  BY <1>2, Unseen DEF View
<1>3. ASSUME NEW b \in Bastions, Own(b)
      PROVE  [Access!Next]_(Access!vars)
  <2>1. AccessStep(b)
    BY <1>1, <1>3, QuietStep, MachineStep, GuardStep, DeleteStep DEF Own, RunStep
  <2>2. \A c \in Bastions \ {b} : Stays(c)
    BY <1>2, <1>3, Elsewhere DEF LeftInv
  <2>3. QED
    BY <2>1, <2>2, OneStep
<1>4. CASE (InfraChanges \/ UNCHANGED vars) /\ Bastions # {}
  <2>1. UNCHANGED <<phase, published, machines, secrets, policies>>
    BY <1>4 DEF InfraChanges, vars, resourceVars, cloudVars
  <2>2. \A b \in Bastions : Stays(b)
    BY <2>1, Unseen DEF Host, Secret, Policy
  <2>3. QED
    BY <1>4, <2>1, <2>2, OneStep DEF AccessStep
<1>5. CASE (InfraChanges \/ UNCHANGED vars) /\ Bastions = {}
  <2>1. UNCHANGED phase
    BY <1>5 DEF InfraChanges, vars, resourceVars
  <2>2. QED
    BY <1>5, <2>1 DEF Access!vars
<1>6. ASSUME NEW n \in Names, CloudStep(n)
      PROVE  [Access!Next]_(Access!vars)
  <2>1. PICK b \in Bastions : n = generateBastionHostResourceName(b)
    BY DEF Names, generateBastionHostResourceName
  <2>2. AccessStep(b)
    BY <1>1, <1>6, <2>1, CloudAccess
  <2>3. \A c \in Bastions \ {b} : Stays(c)
    BY <1>1, <1>2, <1>6, <2>1, CloudElsewhere, DistinctNames
  <2>4. QED
    BY <2>2, <2>3, OneStep
<1>7. QED
  BY <1>3, <1>4, <1>5, <1>6, NextSplit

(* Every behaviour of the controller is one of BastionAccess.              *)
THEOREM AccessImplemented == Spec => ImplementsAccess
<1>1. Init => Access!Init
  <2> SUFFICES ASSUME Init PROVE Access!Init
    OBVIOUS
  <2>1. \A b \in Bastions : Host(b).uid = 0 /\ Host(b).state = "absent"
    BY NameInNames DEF Init, Host
  <2>2. \A b \in Bastions : HostOf(b) = "none" /\ AccessOf(b) = "closed"
    BY <2>1 DEF HostOf, AccessOf, Undisturbed
  <2>3. QED
    BY <2>2 DEF Init, Access!Init
<1>2. QED
  BY <1>1, AccessNext, NothingIsLeft, GuardsBelong, PTL DEF Spec, ImplementsAccess, Access!Spec
=============================================================================
