----------------------------- MODULE WorkerProofs -----------------------------
(***************************************************************************)
(* Proofs about Worker: for any pools, zones, versions and CloudProfiles   *)
(* the classes there are after a good run are the wanted ones, a class is  *)
(* in its zone, a machine deployment has its class, which does not change  *)
(* under it, and a Worker that was reconciled finds its images again.      *)
(***************************************************************************)
EXTENDS Worker, TLAPS

Flags == pending \in BOOLEAN /\ reconciled \in BOOLEAN

Rest ==
  /\ pools   \in PoolSpecs
  /\ profile \in Profiles
  /\ pc      \in PCs
  /\ seen    \in [pools : PoolSpecs, profile : ImagesOf]
  /\ classes \in [ClassNames -> [image : Images, zone : Zones] \cup {None}]
  /\ secrets \subseteq ClassNames
  /\ status  \in ImagesOf
  /\ machineDeployments \in [DeploymentNames -> ClassNames \cup {None}]
  /\ readded \subseteq Pools

LEMMA Empty ==
  /\ NoPools \in PoolSpecs /\ NoImages \in ImagesOf
  /\ NoneSeen \in [pools : PoolSpecs, profile : ImagesOf]
  /\ \A p \in Pools : NoneSeen.pools[p] = None
BY DEF NoPools, PoolSpecs, NoImages, ImagesOf, NoneSeen

LEMMA InitType == Init => TypeOK
<1>1. Init => Flags
  BY Zenon DEF Init, Flags
<1>2. Init => Rest
  BY Empty DEF Init, Rest, PCs
<1>3. QED
  BY <1>1, <1>2 DEF Flags, Rest, TypeOK

LEMMA FlagsNext == Flags /\ [Next]_vars => Flags'
BY Zenon DEF Flags, Next, RunStep, UpdatePool, UpdateProfile, RequestReconcile, Begin,
   Abort, FailRun, EndRun, ImageNotFound, CreateClass, ClassesDone, CreateSecret,
   SecretsDone, UpdateMachineImagesStatus, DeployMachineDeployment,
   MachineDeploymentsDone, Cleanup, vars, historyVars, runVars

(* The image of a class that is wanted, once all images are found. *)
LEMMA FoundImage ==
  ASSUME Rest, ImagesFound, NEW c \in Wanted
  PROVE  findMachineImage(c.version) \in Images
<1>1. c.version \in Versions
  BY DEF Wanted, ClassesOf, ClassNames
<1>2. findMachineImage(c.version) \in Images \cup {None}
  BY <1>1 DEF Rest, findMachineImage, ImagesOf
<1>3. QED
  BY <1>2 DEF ImagesFound

(* The zone of a class that is wanted. *)
LEMMA WantedZone ==
  ASSUME Rest, NEW c \in Wanted
  PROVE  /\ c \in ClassNames /\ c.pool \in Pools
         /\ seen.pools[c.pool] # None
         /\ seen.pools[c.pool].zones \in ZoneLists
         /\ c.index \in DOMAIN seen.pools[c.pool].zones
         /\ seen.pools[c.pool].zones[c.index] \in Zones
<1>1. /\ c \in ClassNames /\ c.pool \in Pools
      /\ seen.pools[c.pool] # None
      /\ c.index \in DOMAIN seen.pools[c.pool].zones
  BY DEF Wanted, ClassesOf, ClassNames
<1>2. seen.pools[c.pool].zones \in ZoneLists
  BY <1>1 DEF Rest, PoolSpecs
<1>3. seen.pools[c.pool].zones[c.index] \in Zones
  BY <1>1, <1>2 DEF Zones
<1>4. QED
  BY <1>1, <1>2, <1>3

LEMMA WantedClassName ==
  ASSUME Rest, NEW d \in GenerateMachineDeployments
  PROVE  d \in DeploymentNames /\ WantedClass(d) \in Wanted
<1>1. /\ d \in DeploymentNames /\ d.pool \in Pools /\ d.index \in Indices
      /\ seen.pools[d.pool] # None
      /\ d.index \in DOMAIN seen.pools[d.pool].zones
  BY DEF GenerateMachineDeployments, DeploymentNames
<1>2. seen.pools[d.pool].version \in Versions
  BY <1>1 DEF Rest, PoolSpecs
<1>3. QED
  BY <1>1, <1>2 DEF WantedClass, Wanted, ClassesOf, ClassNames

LEMMA RestNext == Rest /\ [Next]_vars => Rest'
<1> SUFFICES ASSUME Rest, [Next]_vars PROVE Rest'
  OBVIOUS
<1>1. ASSUME NEW p \in Pools, NEW pool \in [version : Versions, zones : ZoneLists] \cup {None},
             UpdatePool(p, pool)
      PROVE  Rest'
  <2>1. pools' \in PoolSpecs
    BY <1>1 DEF UpdatePool, Rest, PoolSpecs
  <2>2. readded' \subseteq Pools
    BY <1>1 DEF UpdatePool, Rest
  <2>3. QED
    BY <1>1, <2>1, <2>2 DEF UpdatePool, Rest, runVars
<1>2. CASE \/ \E new \in Profiles : UpdateProfile(new)
           \/ RequestReconcile
  BY <1>2 DEF UpdateProfile, RequestReconcile, Rest, runVars, historyVars
<1>3. CASE Begin
  <2>1. seen' \in [pools : PoolSpecs, profile : ImagesOf]
    BY <1>3, ProfilesAssumption DEF Begin, Rest, ImagesOf
  <2>2. QED
    BY <1>3, <2>1 DEF Begin, Rest, PCs, historyVars
<1>4. CASE Abort \/ ImageNotFound
  BY <1>4, Empty DEF Abort, ImageNotFound, FailRun, EndRun, Rest, PCs, historyVars
<1>5. ASSUME NEW c \in ClassNames, CreateClass(c)
      PROVE  Rest'
  <2>1. c \in Wanted /\ ImagesFound
    BY <1>5 DEF CreateClass
  <2>2. [image |-> findMachineImage(c.version), zone |-> seen.pools[c.pool].zones[c.index]]
          \in [image : Images, zone : Zones]
    BY <2>1, FoundImage, WantedZone
  <2>3. classes' \in [ClassNames -> [image : Images, zone : Zones] \cup {None}]
    BY <1>5, <2>2 DEF CreateClass, Rest
  <2>4. QED
    BY <1>5, <2>3 DEF CreateClass, Rest, runVars, historyVars
<1>6. ASSUME NEW c \in ClassNames, CreateSecret(c)
      PROVE  Rest'
  BY <1>6 DEF CreateSecret, Rest, runVars, historyVars
<1>7. CASE ClassesDone \/ SecretsDone
  BY <1>7 DEF ClassesDone, SecretsDone, Rest, PCs, historyVars
<1>8. CASE UpdateMachineImagesStatus
  <2>1. \A v \in Versions : findMachineImage(v) \in Images \cup {None}
    BY DEF findMachineImage, Rest, ImagesOf
  <2>2. status' \in ImagesOf
    BY <1>8, <2>1 DEF UpdateMachineImagesStatus, ImagesOf
  <2>3. seen' \in [pools : PoolSpecs, profile : ImagesOf]
    BY <1>8, Empty DEF UpdateMachineImagesStatus, Rest
  <2>4. QED
    BY <1>8, <2>2, <2>3 DEF UpdateMachineImagesStatus, Rest, PCs, historyVars
<1>9. ASSUME NEW d \in DeploymentNames, DeployMachineDeployment(d)
      PROVE  Rest'
  <2>1. WantedClass(d) \in ClassNames
    BY <1>9, WantedClassName DEF DeployMachineDeployment, Wanted, ClassesOf
  <2>2. machineDeployments' \in [DeploymentNames -> ClassNames \cup {None}]
    BY <1>9, <2>1 DEF DeployMachineDeployment, Rest
  <2>3. QED
    BY <1>9, <2>2 DEF DeployMachineDeployment, Rest, runVars, historyVars
<1>10. CASE MachineDeploymentsDone
  <2>1. machineDeployments' \in [DeploymentNames -> ClassNames \cup {None}]
    BY <1>10 DEF MachineDeploymentsDone, Rest
  <2>2. QED
    BY <1>10, <2>1 DEF MachineDeploymentsDone, Rest, PCs, historyVars
<1>11. CASE Cleanup
  <2>1. classes' \in [ClassNames -> [image : Images, zone : Zones] \cup {None}]
    BY <1>11 DEF Cleanup, Rest
  <2>2. QED
    BY <1>11, <2>1, Empty DEF Cleanup, EndRun, Rest, PCs
<1>12. CASE UNCHANGED vars
  BY <1>12 DEF vars, runVars, historyVars, Rest
<1>13. QED
  BY <1>1, <1>2, <1>3, <1>4, <1>5, <1>6, <1>7, <1>8, <1>9, <1>10, <1>11, <1>12
  DEF Next, RunStep

LEMMA NextType == TypeOK /\ [Next]_vars => TypeOK'
<1>1. TypeOK <=> Flags /\ Rest
  BY Zenon DEF TypeOK, Flags, Rest
<1>2. (TypeOK <=> Flags /\ Rest)'
  BY Zenon DEF TypeOK, Flags, Rest
<1>3. QED
  BY <1>1, <1>2, FlagsNext, RestNext

(* Every variable keeps its type. *)
THEOREM TypeCorrect == Spec => []TypeOK
BY InitType, NextType, PTL DEF Spec

-----------------------------------------------------------------------------
(***************************************************************************)
(* What a run has reached, in its own view of the pools; as long as        *)
(* nothing is due, that is the pools there are.                            *)
(***************************************************************************)
WithClasses == {"secrets", "images", "deployments", "cleanup"}
WithSecrets == {"images", "deployments", "cleanup"}

Progress ==
  /\ ~pending /\ pc # "idle" => seen.pools = pools
  /\ pc \in WithClasses => \A c \in Wanted : classes[c] # None
  /\ pc \in WithSecrets => Wanted \subseteq secrets

SettledInv == Progress /\ SettledClassesAreWanted

LEMMA WantedIn ==
  ASSUME NEW spec PROVE ClassesOf(spec) \subseteq ClassNames
BY DEF ClassesOf

LEMMA SettledNext ==
  Rest /\ SettledInv /\ [Next]_vars => SettledInv'
<1> SUFFICES ASSUME Rest, SettledInv, [Next]_vars PROVE SettledInv'
  OBVIOUS
<1> USE DEF SettledInv, Progress, SettledClassesAreWanted, Settled, WithClasses,
            WithSecrets, Wanted, runVars, historyVars
<1>1. ASSUME NEW p \in Pools, NEW pool \in [version : Versions, zones : ZoneLists] \cup {None},
             UpdatePool(p, pool)
      PROVE  SettledInv'
  BY <1>1 DEF UpdatePool
<1>2. CASE \/ \E new \in Profiles : UpdateProfile(new)
           \/ RequestReconcile
  BY <1>2 DEF UpdateProfile, RequestReconcile
<1>3. CASE Begin
  BY <1>3 DEF Begin
<1>4. CASE Abort \/ ImageNotFound
  BY <1>4 DEF Abort, ImageNotFound, FailRun, EndRun
<1>5. ASSUME NEW c \in ClassNames, CreateClass(c)
      PROVE  SettledInv'
  BY <1>5 DEF CreateClass
<1>6. ASSUME NEW c \in ClassNames, CreateSecret(c)
      PROVE  SettledInv'
  BY <1>6 DEF CreateSecret
<1>7. CASE ClassesDone \/ SecretsDone
  BY <1>7 DEF ClassesDone, SecretsDone
<1>8. CASE UpdateMachineImagesStatus
  <2>1. seen'.pools = seen.pools
    BY <1>8 DEF UpdateMachineImagesStatus, Rest
  <2>2. QED
    BY <1>8, <2>1 DEF UpdateMachineImagesStatus
<1>9. ASSUME NEW d \in DeploymentNames, DeployMachineDeployment(d)
      PROVE  SettledInv'
  BY <1>9 DEF DeployMachineDeployment
<1>10. CASE MachineDeploymentsDone
  BY <1>10 DEF MachineDeploymentsDone
<1>11. CASE Cleanup
  <2>1. CASE pending
    BY <1>11, <2>1 DEF Cleanup, EndRun
  <2>2. CASE ~pending
    <3>1. seen.pools = pools /\ pools' = pools
      BY <1>11, <2>2 DEF Cleanup
    <3>2. \A c \in ClassNames : classes'[c] # None <=> c \in ClassesOf(pools)
      BY <1>11, <3>1 DEF Cleanup
    <3>3. secrets' = ClassesOf(pools)
      BY <1>11, <3>1 DEF Cleanup
    <3>4. {c \in ClassNames : classes'[c] # None} = ClassesOf(pools)
      BY <3>2, WantedIn
    <3>5. QED
      BY <1>11, <3>1, <3>3, <3>4 DEF Cleanup, EndRun
  <2>3. QED
    BY <2>1, <2>2
<1>12. CASE UNCHANGED vars
  BY <1>12 DEF vars
<1>13. QED
  BY <1>1, <1>2, <1>3, <1>4, <1>5, <1>6, <1>7, <1>8, <1>9, <1>10, <1>11, <1>12
  DEF Next, RunStep

LEMMA RestFromType == TypeOK => Rest
BY DEF TypeOK, Rest

(* After a good run the classes and secrets are those of the pools.        *)
THEOREM Settles == Spec => []SettledClassesAreWanted
<1>1. Init => SettledInv
  BY DEF Init, SettledInv, Progress, SettledClassesAreWanted, Settled, WithClasses, WithSecrets
<1>2. QED
  BY <1>1, TypeCorrect, RestFromType, SettledNext, PTL DEF Spec, SettledInv

-----------------------------------------------------------------------------
(***************************************************************************)
(* Before the clean-up every deployment has a class that is wanted.        *)
(***************************************************************************)
DeploymentsHaveTheirClass ==
  \A d \in DeploymentNames :
    machineDeployments[d] # None =>
      classes[machineDeployments[d]] # None /\ machineDeployments[d] \in secrets

DeployInv ==
  /\ DeploymentsHaveTheirClass
  /\ pc = "cleanup" =>
       \A d \in DeploymentNames :
         machineDeployments[d] # None => machineDeployments[d] \in Wanted

LEMMA DeployNext ==
  Rest /\ Progress /\ DeployInv /\ [Next]_vars => DeployInv'
<1> SUFFICES ASSUME Rest, Progress, DeployInv, [Next]_vars PROVE DeployInv'
  OBVIOUS
<1> USE DEF DeployInv, DeploymentsHaveTheirClass, runVars, historyVars
<1>1. CASE \/ \E p \in Pools, pool \in [version : Versions, zones : ZoneLists] \cup {None} :
                UpdatePool(p, pool)
           \/ \E new \in Profiles : UpdateProfile(new)
           \/ RequestReconcile
  BY <1>1 DEF UpdatePool, UpdateProfile, RequestReconcile, Wanted
<1>2. CASE Begin \/ Abort \/ ImageNotFound
  BY <1>2 DEF Begin, Abort, ImageNotFound, FailRun, EndRun
<1>3. ASSUME NEW c \in ClassNames, CreateClass(c)
      PROVE  DeployInv'
  <2>1. \A k \in ClassNames : classes[k] # None => classes'[k] = classes[k]
    BY <1>3 DEF CreateClass, Rest
  <2>2. \A d \in DeploymentNames : machineDeployments[d] # None => machineDeployments[d] \in ClassNames
    BY DEF Rest
  <2>3. pc' # "cleanup" /\ UNCHANGED <<secrets, machineDeployments>>
    BY <1>3 DEF CreateClass
  <2>4. QED
    BY <2>1, <2>2, <2>3
<1>4. ASSUME NEW c \in ClassNames, CreateSecret(c)
      PROVE  DeployInv'
  BY <1>4 DEF CreateSecret
<1>5. CASE ClassesDone \/ SecretsDone \/ UpdateMachineImagesStatus
  BY <1>5 DEF ClassesDone, SecretsDone, UpdateMachineImagesStatus
<1>6. ASSUME NEW d \in DeploymentNames, DeployMachineDeployment(d)
      PROVE  DeployInv'
  <2>1. WantedClass(d) \in Wanted
    BY <1>6, WantedClassName DEF DeployMachineDeployment
  <2>2. classes[WantedClass(d)] # None /\ WantedClass(d) \in secrets
    BY <1>6, <2>1 DEF DeployMachineDeployment, Progress, WithClasses, WithSecrets
  <2>3. machineDeployments' = [machineDeployments EXCEPT ![d] = WantedClass(d)]
    BY <1>6 DEF DeployMachineDeployment
  <2>4. \A e \in DeploymentNames :
          machineDeployments'[e] = machineDeployments[e] \/ machineDeployments'[e] = WantedClass(d)
    BY <2>3 DEF Rest
  <2>5. pc' # "cleanup" /\ UNCHANGED <<classes, secrets>>
    BY <1>6 DEF DeployMachineDeployment
  <2>6. QED
    BY <2>2, <2>4, <2>5
<1>7. CASE MachineDeploymentsDone
  <2>1. \A d \in DeploymentNames :
          machineDeployments'[d] # None =>
            machineDeployments'[d] = machineDeployments[d] /\ machineDeployments[d] \in Wanted
    BY <1>7, WantedClassName DEF MachineDeploymentsDone
  <2>2. Wanted' = Wanted /\ UNCHANGED <<classes, secrets>>
    BY <1>7 DEF MachineDeploymentsDone, Wanted
  <2>3. QED
    BY <2>1, <2>2
<1>8. CASE Cleanup
  <2>1. \A d \in DeploymentNames : machineDeployments[d] # None =>
          machineDeployments[d] \in Wanted /\ machineDeployments[d] \in ClassNames
    BY <1>8, WantedIn DEF Cleanup, Wanted
  <2>2. \A c \in Wanted \cap ClassNames : classes'[c] = classes[c] /\ (c \in secrets => c \in secrets')
    BY <1>8 DEF Cleanup
  <2>3. pc' = "idle" /\ machineDeployments' = machineDeployments
    BY <1>8 DEF Cleanup, EndRun
  <2>4. QED
    BY <2>1, <2>2, <2>3
<1>9. CASE UNCHANGED vars
  BY <1>9 DEF vars, Wanted
<1>10. QED
  BY <1>1, <1>2, <1>3, <1>4, <1>5, <1>6, <1>7, <1>8, <1>9 DEF Next, RunStep

(* A machine deployment always has its class and the class its secret.     *)
THEOREM ClassesOutliveDeployments == Spec => []DeploymentsHaveTheirClass
<1>1. Init => SettledInv /\ DeployInv
  BY DEF Init, SettledInv, Progress, SettledClassesAreWanted, Settled, WithClasses, WithSecrets,
     DeployInv, DeploymentsHaveTheirClass
<1>2. SettledInv => Progress
  BY DEF SettledInv
<1>3. DeployInv => DeploymentsHaveTheirClass
  BY DEF DeployInv
<1>4. QED
  BY <1>1, <1>2, <1>3, TypeCorrect, RestFromType, SettledNext, DeployNext, PTL DEF Spec

-----------------------------------------------------------------------------
(***************************************************************************)
(* The steps of MachineRollout: nothing it speaks of changes, a class gets *)
(* the first or the second of the two parts that make it complete, a       *)
(* deployment follows its class, deployments retire, or classes nobody     *)
(* follows are discarded.                                                  *)
(***************************************************************************)
RecipeOf(cs, secret) == [c \in ClassNames |-> IF c \in secret THEN cs[c] ELSE None]

LEMMA Completed ==
  ASSUME Rest, Progress, NEW c \in ClassNames, CreateClass(c) \/ CreateSecret(c)
  PROVE  \/ UNCHANGED Rollout!vars
         \/ /\ Rollout!Complete(c, classes'[c])
            /\ classes'[c] \in [image : Images, zone : Zones]
<1>1. c \in Wanted
  BY DEF CreateClass, CreateSecret
<1>2. CASE CreateClass(c)
  <2>1. /\ classes[c] = None /\ UNCHANGED <<secrets, machineDeployments>>
        /\ classes' = [classes EXCEPT ![c] = [image |-> findMachineImage(c.version),
                                              zone |-> seen.pools[c.pool].zones[c.index]]]
    BY <1>2 DEF CreateClass
  <2>2. classes'[c] \in [image : Images, zone : Zones]
    <3>1. ImagesFound
      BY <1>2 DEF CreateClass
    <3>2. findMachineImage(c.version) \in Images /\ seen.pools[c.pool].zones[c.index] \in Zones
      BY <1>1, <3>1, FoundImage, WantedZone
    <3>3. QED
      BY <2>1, <3>2 DEF Rest
  <2>3. CASE c \in secrets
    <3>1. RecipeOf(classes', secrets) = [RecipeOf(classes, secrets) EXCEPT ![c] = classes'[c]]
      BY <2>1, <2>3 DEF RecipeOf, Rest
    <3>2. QED
      BY <2>1, <2>2, <2>3, <3>1 DEF Rollout!Complete, RecipeOf
  <2>4. CASE c \notin secrets
    <3>1. RecipeOf(classes', secrets) = RecipeOf(classes, secrets)
      BY <2>1, <2>4 DEF RecipeOf, Rest
    <3>2. QED
      BY <2>1, <3>1 DEF Rollout!vars, RecipeOf
  <2>5. QED
    BY <2>3, <2>4
<1>3. CASE CreateSecret(c)
  <2>1. /\ c \notin secrets /\ secrets' = secrets \cup {c}
        /\ UNCHANGED <<classes, machineDeployments>>
    BY <1>3 DEF CreateSecret
  <2>2. classes[c] \in [image : Images, zone : Zones]
    BY <1>1, <1>3 DEF CreateSecret, Progress, WithClasses, Rest
  <2>3. RecipeOf(classes, secrets') = [RecipeOf(classes, secrets) EXCEPT ![c] = classes[c]]
    BY <2>1 DEF RecipeOf
  <2>4. QED
    BY <2>1, <2>2, <2>3 DEF Rollout!Complete, RecipeOf
<1>4. QED
  BY <1>2, <1>3

LEMMA Followed ==
  ASSUME Rest, Progress, NEW d \in DeploymentNames, DeployMachineDeployment(d)
  PROVE  WantedClass(d) \in ClassNames /\ Rollout!Follow(d, WantedClass(d))
<1>1. WantedClass(d) \in Wanted /\ WantedClass(d) \in ClassNames
  BY WantedClassName, WantedIn DEF DeployMachineDeployment, Wanted
<1>2. classes[WantedClass(d)] # None /\ WantedClass(d) \in secrets
  BY <1>1 DEF DeployMachineDeployment, Progress, WithClasses, WithSecrets
<1>3. /\ machineDeployments' = [machineDeployments EXCEPT ![d] = WantedClass(d)]
      /\ UNCHANGED <<classes, secrets>>
  BY DEF DeployMachineDeployment
<1>4. QED
  BY <1>1, <1>2, <1>3 DEF Rollout!Follow

LEMMA Discarded ==
  ASSUME Rest, DeployInv, Cleanup
  PROVE  Rollout!Discard(ClassNames \ Wanted)
<1>1. \A d \in DeploymentNames : machineDeployments[d] = None \/ machineDeployments[d] \in Wanted
  BY DEF DeployInv, Cleanup
<1>2. /\ classes' = [c \in ClassNames |-> IF c \in Wanted THEN classes[c] ELSE None]
      /\ secrets' = secrets \cap Wanted /\ UNCHANGED machineDeployments
  BY DEF Cleanup
<1>3. RecipeOf(classes', secrets') =
        [c \in ClassNames |-> IF c \in ClassNames \ Wanted THEN None ELSE RecipeOf(classes, secrets)[c]]
  BY <1>2 DEF RecipeOf
<1>4. QED
  BY <1>1, <1>2, <1>3 DEF Rollout!Discard, RecipeOf

LEMMA RolloutNext ==
  Rest /\ Progress /\ DeployInv /\ [Next]_vars => [Rollout!Next]_(Rollout!vars)
<1> SUFFICES ASSUME Rest, Progress, DeployInv, [Next]_vars PROVE [Rollout!Next]_(Rollout!vars)
  OBVIOUS
<1>1. CASE UNCHANGED <<classes, secrets, machineDeployments>>
  BY <1>1 DEF Rollout!vars
<1>2. ASSUME NEW c \in ClassNames, CreateClass(c) \/ CreateSecret(c)
      PROVE  [Rollout!Next]_(Rollout!vars)
  <2>1. CASE UNCHANGED Rollout!vars
    BY <2>1
  <2>2. CASE \E r \in [image : Images, zone : Zones] : Rollout!Complete(c, r)
    BY <2>2 DEF Rollout!Next
  <2>3. QED
    BY <1>2, <2>1, <2>2, Completed DEF Rollout!Complete
<1>3. ASSUME NEW d \in DeploymentNames, DeployMachineDeployment(d)
      PROVE  [Rollout!Next]_(Rollout!vars)
  BY <1>3, Followed DEF Rollout!Next
<1>4. CASE MachineDeploymentsDone
  <2>1. Rollout!Retire(DeploymentNames \ GenerateMachineDeployments)
    BY <1>4 DEF MachineDeploymentsDone, Rollout!Retire
  <2>2. QED
    BY <2>1 DEF Rollout!Next
<1>5. CASE Cleanup
  <2>1. Rollout!Discard(ClassNames \ Wanted)
    BY <1>5, Discarded
  <2>2. \E gone \in SUBSET ClassNames : Rollout!Discard(gone)
    BY <2>1 DEF Rollout!Discard
  <2>3. QED
    BY <2>2 DEF Rollout!Next
<1>6. QED
  <2>1. \/ UNCHANGED <<classes, secrets, machineDeployments>>
        \/ \E c \in ClassNames : CreateClass(c) \/ CreateSecret(c)
        \/ \E d \in DeploymentNames : DeployMachineDeployment(d)
        \/ MachineDeploymentsDone \/ Cleanup
    BY DEF Next, RunStep, UpdatePool, UpdateProfile, RequestReconcile, Begin, Abort,
       ImageNotFound, ClassesDone, SecretsDone, UpdateMachineImagesStatus, vars
  <2>2. QED
    BY <2>1, <1>1, <1>2, <1>3, <1>4, <1>5

(* Every behaviour of the controller is one of MachineRollout: what        *)
(* machines are made of is complete, and stays as it is while they are.    *)
THEOREM RolloutImplemented == Spec => ImplementsRollout
<1>1. Init => SettledInv /\ DeployInv /\ Rollout!Init
  BY DEF Init, SettledInv, Progress, SettledClassesAreWanted, Settled, WithClasses, WithSecrets,
     DeployInv, DeploymentsHaveTheirClass, Rollout!Init
<1>2. SettledInv => Progress
  BY DEF SettledInv
<1>3. QED
  BY <1>1, <1>2, TypeCorrect, RestFromType, SettledNext, DeployNext, RolloutNext, PTL
  DEF Spec, ImplementsRollout, Rollout!Spec

-----------------------------------------------------------------------------
(***************************************************************************)
(* Why the images in use are remembered: a run that got beyond the classes *)
(* has found its images, one that got beyond the status has written them   *)
(* there, and no run with former pools goes on after one that ended well   *)
(* with those there are.                                                   *)
(***************************************************************************)
Remembered(spec) == \A c \in ClassesOf(spec) : status[c.version] # None

RememberInv ==
  /\ reconciled => Remembered(pools)
  /\ reconciled /\ pc # "idle" => seen.pools = pools
  /\ pc \in {"secrets", "images"} => ImagesFound
  /\ pc \in {"deployments", "cleanup"} => Remembered(seen.pools)

LEMMA VersionOf == ASSUME NEW spec, NEW c \in ClassesOf(spec) PROVE c.version \in Versions
BY DEF ClassesOf, ClassNames

LEMMA RememberNext ==
  Rest /\ Progress /\ RememberInv /\ [Next]_vars => RememberInv'
<1> SUFFICES ASSUME Rest, Progress, RememberInv, [Next]_vars PROVE RememberInv'
  OBVIOUS
<1> USE DEF RememberInv, Remembered, runVars, historyVars
<1>1. CASE \E p \in Pools, pool \in [version : Versions, zones : ZoneLists] \cup {None} :
             UpdatePool(p, pool)
  BY <1>1 DEF UpdatePool, ImagesFound, findMachineImage, Wanted
<1>2. CASE (\E new \in Profiles : UpdateProfile(new)) \/ RequestReconcile
  BY <1>2 DEF UpdateProfile, RequestReconcile, ImagesFound, findMachineImage, Wanted
<1>3. CASE Begin
  BY <1>3 DEF Begin
<1>4. CASE Abort \/ ImageNotFound
  BY <1>4 DEF Abort, ImageNotFound, FailRun, EndRun
<1>5. CASE \E c \in ClassNames : CreateClass(c) \/ CreateSecret(c)
  BY <1>5 DEF CreateClass, CreateSecret, ImagesFound, findMachineImage, Wanted
<1>6. CASE ClassesDone \/ SecretsDone
  BY <1>6 DEF ClassesDone, SecretsDone, ImagesFound, findMachineImage, Wanted
<1>7. CASE UpdateMachineImagesStatus
  <2>1. /\ pc = "images" /\ pc' = "deployments"
        /\ seen'.pools = seen.pools /\ UNCHANGED <<pools, reconciled>>
        /\ status' = [v \in Versions |-> IF \E c \in Wanted : c.version = v
                                           THEN findMachineImage(v) ELSE None]
    BY <1>7 DEF UpdateMachineImagesStatus, Rest
  <2>2. \A c \in Wanted : status'[c.version] = findMachineImage(c.version)
    BY <2>1, VersionOf DEF Wanted
  <2>3. \A c \in Wanted : status'[c.version] # None
    BY <2>1, <2>2 DEF ImagesFound
  <2>4. QED
    BY <2>1, <2>3 DEF Wanted
<1>8. CASE \E d \in DeploymentNames : DeployMachineDeployment(d)
  BY <1>8 DEF DeployMachineDeployment
<1>9. CASE MachineDeploymentsDone
  BY <1>9 DEF MachineDeploymentsDone
<1>10. CASE Cleanup
  <2>1. /\ pc = "cleanup" /\ pc' = "idle" /\ UNCHANGED <<pools, status>>
        /\ reconciled' => reconciled \/ ~pending
    BY <1>10 DEF Cleanup, EndRun
  <2>2. ~pending => Remembered(pools)
    BY <2>1 DEF Progress
  <2>3. QED
    BY <2>1, <2>2
<1>11. CASE UNCHANGED vars
  BY <1>11 DEF vars, ImagesFound, findMachineImage, Wanted
<1>12. QED
  BY <1>1, <1>2, <1>3, <1>4, <1>5, <1>6, <1>7, <1>8, <1>9, <1>10, <1>11 DEF Next, RunStep

(* Once a Worker is reconciled, its runs find all images, whatever becomes *)
(* of the CloudProfile: the safety half of StaysReconcilable.              *)
THEOREM ReconciledFindsImages == Spec => []ImagesAreRemembered
<1>1. Init => SettledInv /\ RememberInv
  BY DEF Init, SettledInv, Progress, SettledClassesAreWanted, Settled, WithClasses, WithSecrets,
     RememberInv
<1>2. RememberInv => ImagesAreRemembered
  <2>1. RememberInv /\ reconciled /\ pc = "classes" => ImagesFound
    BY DEF RememberInv, Remembered, ImagesFound, findMachineImage, Wanted
  <2>2. QED
    BY <2>1 DEF RememberInv, Remembered, ImagesAreRemembered
<1>3. SettledInv => Progress
  BY DEF SettledInv
<1>4. QED
  BY <1>1, <1>2, <1>3, TypeCorrect, RestFromType, SettledNext, RememberNext, PTL DEF Spec

-----------------------------------------------------------------------------
(***************************************************************************)
(* The zones a run has seen are the first of those the pool has now, and a *)
(* class is in the zone at its index, unless the pool was made anew.       *)
(***************************************************************************)
Extends(new, old) ==
  /\ DOMAIN old \subseteq DOMAIN new
  /\ \A i \in DOMAIN old : new[i] = old[i]

SeenIsFirst ==
  \A p \in Pools :
    seen.pools[p] # None /\ pools[p] # None /\ p \notin readded
      => Extends(pools[p].zones, seen.pools[p].zones)

ClassInZone ==
  \A c \in ClassNames :
    classes[c] # None /\ pools[c.pool] # None /\ c.pool \notin readded
      => /\ c.index \in DOMAIN pools[c.pool].zones
         /\ classes[c].zone = pools[c.pool].zones[c.index]

ZoneInv == SeenIsFirst /\ ClassInZone

LEMMA UpdateExtends ==
  ASSUME NEW old \in [version : Versions, zones : ZoneLists], old # None,
         NEW new \in [version : Versions, zones : ZoneLists], new # None,
         ValidateWorkersUpdate(old, new)
  PROVE  Extends(new.zones, old.zones)
<1>1. old.zones \in Seq(Zones) /\ new.zones \in Seq(Zones)
  BY ZoneListsAssumption
<1>2. Len(old.zones) <= Len(new.zones)
  BY DEF ValidateWorkersUpdate
<1>3. DOMAIN old.zones \subseteq DOMAIN new.zones
  BY <1>1, <1>2
<1>4. QED
  BY <1>3 DEF ValidateWorkersUpdate, Extends

LEMMA ExtendsTwice ==
  ASSUME NEW a, NEW b, NEW c, Extends(b, a), Extends(c, b)
  PROVE  Extends(c, a)
BY DEF Extends

LEMMA ZoneUpdate ==
  ASSUME Rest, ZoneInv, NEW p \in Pools,
         NEW pool \in [version : Versions, zones : ZoneLists] \cup {None}, UpdatePool(p, pool)
  PROVE  ZoneInv'
<1>1. /\ UNCHANGED <<seen, classes>> /\ readded \subseteq readded'
      /\ \A q \in Pools \ {p} : pools'[q] = pools[q]
      /\ pools'[p] = pool
  BY DEF UpdatePool, runVars, Rest, PoolSpecs
<1>2. CASE pool = None
  BY <1>1, <1>2 DEF ZoneInv, SeenIsFirst, ClassInZone, ClassNames
<1>3. CASE pool # None /\ pools[p] # None
  <2>1. Extends(pool.zones, pools[p].zones)
    BY <1>3, UpdateExtends DEF UpdatePool, Rest, PoolSpecs
  <2>2. SeenIsFirst'
    <3> SUFFICES ASSUME NEW q \in Pools, seen.pools[q] # None, pools'[q] # None, q \notin readded'
                 PROVE  Extends(pools'[q].zones, seen.pools[q].zones)
      BY <1>1 DEF SeenIsFirst
    <3>1. CASE q = p
      BY <1>1, <1>3, <2>1, <3>1, ExtendsTwice DEF ZoneInv, SeenIsFirst
    <3>2. CASE q # p
      BY <1>1, <3>2 DEF ZoneInv, SeenIsFirst
    <3>3. QED
      BY <3>1, <3>2
  <2>3. ClassInZone'
    BY <1>1, <1>3, <2>1 DEF ZoneInv, ClassInZone, Extends, ClassNames
  <2>4. QED
    BY <2>2, <2>3 DEF ZoneInv
<1>4. CASE pool # None /\ pools[p] = None
  <2>1. p \notin readded' => ~Remains(p)
    BY <1>4 DEF UpdatePool
  <2>2. p \notin readded' => seen.pools[p] = None
    BY <2>1 DEF Remains
  <2>3. p \notin readded' => \A c \in ClassNames : c.pool = p => classes[c] = None
    BY <2>1 DEF Remains
  <2>4. QED
    BY <1>1, <2>2, <2>3 DEF ZoneInv, SeenIsFirst, ClassInZone, ClassNames
<1>5. QED
  BY <1>2, <1>3, <1>4

LEMMA ZoneNext ==
  Rest /\ ZoneInv /\ [Next]_vars => ZoneInv'
<1> SUFFICES ASSUME Rest, ZoneInv, [Next]_vars PROVE ZoneInv'
  OBVIOUS
<1> USE DEF ZoneInv, SeenIsFirst, ClassInZone, runVars, historyVars
<1>1. CASE \E p \in Pools, pool \in [version : Versions, zones : ZoneLists] \cup {None} :
             UpdatePool(p, pool)
  BY <1>1, ZoneUpdate
<1>2. CASE \/ \E new \in Profiles : UpdateProfile(new)
           \/ RequestReconcile
  BY <1>2 DEF UpdateProfile, RequestReconcile
<1>3. CASE Begin
  BY <1>3 DEF Begin, Extends
<1>4. CASE Abort \/ ImageNotFound
  BY <1>4, Empty DEF Abort, ImageNotFound, FailRun, EndRun
<1>5. ASSUME NEW c \in ClassNames, CreateClass(c)
      PROVE  ZoneInv'
  <2>1. /\ c \in Wanted
        /\ UNCHANGED <<pools, seen, readded>>
        /\ classes' = [classes EXCEPT ![c] = [image |-> findMachineImage(c.version),
                                              zone |-> seen.pools[c.pool].zones[c.index]]]
    BY <1>5 DEF CreateClass
  <2>2. /\ classes'[c].zone = seen.pools[c.pool].zones[c.index]
        /\ \A k \in ClassNames \ {c} : classes'[k] = classes[k]
    BY <2>1 DEF Rest
  <2>3. pools[c.pool] # None /\ c.pool \notin readded =>
          /\ c.index \in DOMAIN pools[c.pool].zones
          /\ classes'[c].zone = pools[c.pool].zones[c.index]
    BY <2>1, <2>2, WantedZone DEF Extends
  <2>4. QED
    BY <2>1, <2>2, <2>3
<1>6. ASSUME NEW c \in ClassNames, CreateSecret(c)
      PROVE  ZoneInv'
  BY <1>6 DEF CreateSecret
<1>7. CASE ClassesDone \/ SecretsDone \/ MachineDeploymentsDone
  BY <1>7 DEF ClassesDone, SecretsDone, MachineDeploymentsDone
<1>8. CASE UpdateMachineImagesStatus
  <2>1. seen'.pools = seen.pools
    BY <1>8 DEF UpdateMachineImagesStatus, Rest
  <2>2. QED
    BY <1>8, <2>1 DEF UpdateMachineImagesStatus
<1>9. ASSUME NEW d \in DeploymentNames, DeployMachineDeployment(d)
      PROVE  ZoneInv'
  BY <1>9 DEF DeployMachineDeployment
<1>10. CASE Cleanup
  <2>1. pools' = pools /\ \A p \in Pools : seen'.pools[p] = None
    BY <1>10, Empty DEF Cleanup, EndRun
  <2>2. \A p \in Pools : p \notin readded' => p \notin readded \/ seen.pools[p] = None
    BY <1>10 DEF Cleanup, Rest
  <2>3. \A c \in ClassNames : classes'[c] # None =>
          /\ classes'[c] = classes[c] /\ seen.pools[c.pool] # None
    BY <1>10 DEF Cleanup, Wanted, ClassesOf
  <2>4. ClassInZone'
    BY <2>1, <2>2, <2>3 DEF ClassNames
  <2>5. QED
    BY <2>1, <2>4
<1>11. CASE UNCHANGED vars
  BY <1>11 DEF vars
<1>12. QED
  BY <1>1, <1>2, <1>3, <1>4, <1>5, <1>6, <1>7, <1>8, <1>9, <1>10, <1>11 DEF Next, RunStep

(* A class keeps the zone it was made for.                                 *)
THEOREM ZonesAreKept == Spec => []ClassesAreInTheirZones
<1>1. Init => ZoneInv
  BY Empty DEF Init, ZoneInv, SeenIsFirst, ClassInZone
<1>2. ZoneInv => ClassesAreInTheirZones
  BY DEF ZoneInv, ClassInZone, ClassesAreInTheirZones
<1>3. QED
  BY <1>1, <1>2, TypeCorrect, RestFromType, ZoneNext, PTL DEF Spec
=============================================================================
