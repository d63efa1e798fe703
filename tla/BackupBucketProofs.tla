-------------------------- MODULE BackupBucketProofs --------------------------
(***************************************************************************)
(* Proofs about BackupBucket: for any number of lives nothing is left of a *)
(* BackupBucket that is gone; for the first life of a name the published   *)
(* access works.                                                           *)
(***************************************************************************)
EXTENDS BackupBucket, TLAPS

Flags == finalizer \in BOOLEAN /\ published \in BOOLEAN /\ pending \in BOOLEAN

Rest ==
  /\ phase \in Phases /\ uid \in Nat /\ pc \in PCs /\ creds \in Nat
  /\ bucket \in Buckets /\ secret \in Secrets

LEMMA InitType == Init => TypeOK
<1>1. Init => Flags
  BY Zenon DEF Init, Flags
<1>2. Init => Rest
  BY DEF Init, Rest, Phases, PCs, Buckets, Secrets, NoSecret, Ready
<1>3. QED
  BY <1>1, <1>2 DEF Flags, Rest, TypeOK

LEMMA FlagsType ==
  ASSUME Flags, Next
  PROVE  Flags'
BY Zenon DEF Flags, Next, CreateBackupBucket, RequestReconcile, RequestDeletion,
   RemoveUnreconciled, BucketShows, BucketVanishes, CollectSecret, Begin, Abort, RunStep, ReconcileStep,
   ensureBackupBucket, waitBackupBucketToAvailable, getAccessSecret,
   createGeneratedSecret, patchBackupBucketStatus, LookupFails, Delete,
   DeleteNotFound, Release, Returns, FailRun, EndRun, resourceVars

LEMMA RestType ==
  ASSUME Rest, Next
  PROVE  Rest'
<1> USE DEF Rest, Phases, PCs, resourceVars
<1>1. CASE CreateBackupBucket \/ RequestReconcile \/ RequestDeletion \/ RemoveUnreconciled
  BY <1>1 DEF CreateBackupBucket, RequestReconcile, RequestDeletion, RemoveUnreconciled
<1>2. CASE \/ \E what \in Ready : BucketShows(what)
           \/ BucketVanishes \/ CollectSecret
  <2>1. ASSUME NEW what \in Ready, BucketShows(what)
        PROVE  Rest'
    <3>1. bucket.has \cup {what} \in SUBSET Ready
      BY <2>1 DEF Buckets
    <3>2. QED
      BY <2>1, <3>1 DEF BucketShows, Buckets
  <2>2. CASE BucketVanishes
    BY <2>2 DEF BucketVanishes, Buckets
  <2>3. CASE CollectSecret
    BY <2>3 DEF CollectSecret, Secrets, NoSecret
  <2>4. QED
    BY <1>2, <2>1, <2>2, <2>3
<1>3. CASE Begin \/ Abort
  BY <1>3 DEF Begin, Abort, FailRun, EndRun
<1>4. CASE ensureBackupBucket \/ waitBackupBucketToAvailable \/ getAccessSecret
  BY <1>4 DEF ensureBackupBucket, waitBackupBucketToAvailable,
     getAccessSecret, Returns, FailRun, EndRun, Buckets
<1>5. CASE createGeneratedSecret \/ patchBackupBucketStatus
  BY <1>5 DEF createGeneratedSecret, patchBackupBucketStatus, Returns, FailRun, EndRun,
     Secrets
<1>6. CASE LookupFails \/ Delete \/ DeleteNotFound \/ Release
  BY <1>6 DEF LookupFails, Delete, DeleteNotFound, Release, Returns, FailRun, EndRun,
     Buckets
<1>7. QED
  BY <1>1, <1>2, <1>3, <1>4, <1>5, <1>6 DEF Next, RunStep, ReconcileStep

LEMMA NextType == TypeOK /\ [Next]_vars => TypeOK'
<1>1. TypeOK <=> Flags /\ Rest
  BY Zenon DEF TypeOK, Flags, Rest
<1>2. (TypeOK <=> Flags /\ Rest)'
  BY Zenon DEF TypeOK, Flags, Rest
<1>3. TypeOK /\ UNCHANGED vars => TypeOK'
  BY Zenon DEF TypeOK, vars, resourceVars
<1>4. QED
  BY <1>1, <1>2, <1>3, FlagsType, RestType

(* Every variable keeps its type. *)
THEOREM TypeCorrect == Spec => []TypeOK
BY InitType, NextType, PTL DEF Spec

-----------------------------------------------------------------------------
(***************************************************************************)
(* Nothing is left behind.                                                 *)
(***************************************************************************)

(* The resource outlives the run, kept by the finalizer; a run deletes on  *)
(* request, and finishes only when the bucket is on its way out.           *)
RunMatchesPhase ==
  /\ pc # "idle" => phase # "absent" /\ finalizer
  /\ pc \in {"delete", "release"} => phase = "deleting"
  /\ pc = "release" => bucket.state # "live"

(* A BackupBucket that is gone, or that nothing keeps, leaves no bucket    *)
(* behind, and no run that could still make one.                           *)
NoBucketLeft ==
  /\ phase = "absent" => bucket.state # "live" /\ pc = "idle"
  /\ ~finalizer       => bucket.state # "live"

LeftInv == TypeOK /\ RunMatchesPhase /\ NoBucketLeft

LEMMA LeftNext == LeftInv /\ [Next]_vars => LeftInv'
<1> SUFFICES ASSUME LeftInv, [Next]_vars PROVE RunMatchesPhase' /\ NoBucketLeft'
  BY NextType DEF LeftInv
<1> USE DEF LeftInv, RunMatchesPhase, NoBucketLeft, resourceVars
<1>1. CASE CreateBackupBucket \/ RequestReconcile \/ RequestDeletion \/ RemoveUnreconciled
  BY <1>1 DEF CreateBackupBucket, RequestReconcile, RequestDeletion, RemoveUnreconciled
<1>2. CASE \/ \E what \in Ready : BucketShows(what)
           \/ BucketVanishes \/ CollectSecret
  BY <1>2 DEF BucketShows, BucketVanishes, CollectSecret, TypeOK, Buckets
<1>3. CASE Begin \/ Abort
  BY <1>3 DEF Begin, Abort, FailRun, EndRun
<1>4. CASE ReconcileStep
  BY <1>4 DEF ReconcileStep, ensureBackupBucket, waitBackupBucketToAvailable,
     getAccessSecret, createGeneratedSecret, patchBackupBucketStatus,
     Returns, FailRun, EndRun
<1>5. CASE LookupFails \/ Delete \/ DeleteNotFound \/ Release
  BY <1>5 DEF LookupFails, Delete, DeleteNotFound, Release, Returns, FailRun, EndRun,
     TypeOK, Buckets
<1>6. CASE UNCHANGED vars
  BY <1>6 DEF vars
<1>7. QED
  BY <1>1, <1>2, <1>3, <1>4, <1>5, <1>6 DEF Next, RunStep

(* Nothing is left, in any life.                                           *)
THEOREM NothingIsLeft == Spec => []LeftInv
<1>1. Init => LeftInv
  BY InitType DEF Init, LeftInv, RunMatchesPhase, NoBucketLeft
<1>2. QED
  BY <1>1, LeftNext, PTL DEF Spec

-----------------------------------------------------------------------------
(***************************************************************************)
(* The controller implements CloudLease.                                   *)
(***************************************************************************)

HeldOf(state) == IF state = "live" THEN {"bucket"} ELSE {}

(* What a step does to the resource and to what it holds.                  *)
PhaseMove ==
  /\ bucket'.state = "live" <=> bucket.state = "live"
  /\ \/ phase = "absent" /\ phase' = "present"
     \/ phase = "present" /\ phase' = "deleting"
     \/ phase = "deleting" /\ phase' = "absent" /\ bucket.state # "live"

Gains == phase \in {"present", "deleting"} /\ UNCHANGED phase /\ bucket'.state = "live"

Loses == phase = "deleting" /\ UNCHANGED phase /\ bucket'.state # "live"

Rests == UNCHANGED phase /\ (bucket'.state = "live" <=> bucket.state = "live")

LEMMA StepOfLease ==
  ASSUME LeftInv, [Next]_vars
  PROVE  Rests \/ PhaseMove \/ Gains \/ Loses
<1> USE DEF LeftInv, RunMatchesPhase, NoBucketLeft, TypeOK, Buckets, Phases, resourceVars
<1>1. CASE CreateBackupBucket \/ RequestDeletion \/ RemoveUnreconciled
  BY <1>1 DEF CreateBackupBucket, RequestDeletion, RemoveUnreconciled, PhaseMove
<1>2. CASE \/ RequestReconcile \/ BucketVanishes \/ CollectSecret \/ Begin \/ Abort
           \/ \E what \in Ready : BucketShows(what)
  BY <1>2 DEF RequestReconcile, BucketVanishes, CollectSecret, Begin, Abort, BucketShows, Rests
<1>3. CASE ensureBackupBucket
  BY <1>3 DEF ensureBackupBucket, Rests, Gains
<1>4. CASE \/ waitBackupBucketToAvailable \/ getAccessSecret \/ createGeneratedSecret
           \/ patchBackupBucketStatus \/ LookupFails \/ DeleteNotFound
  BY <1>4 DEF waitBackupBucketToAvailable, getAccessSecret, createGeneratedSecret,
     patchBackupBucketStatus, LookupFails, DeleteNotFound, Rests
<1>5. CASE Delete
  BY <1>5 DEF Delete, Loses
<1>6. CASE Release
  BY <1>6 DEF Release, PhaseMove
<1>7. CASE UNCHANGED vars
  BY <1>7 DEF vars, Rests
<1>8. QED
  BY <1>1, <1>2, <1>3, <1>4, <1>5, <1>6, <1>7 DEF Next, RunStep, ReconcileStep

LEMMA LeaseNext == LeftInv /\ [Next]_vars => [Lease!Next]_(Lease!vars)
<1> DEFINE owners == {"owner"}
           phases == [owner \in owners |-> phase]
           held   == [owner \in owners |-> HeldOf(bucket.state)]
<1> SUFFICES ASSUME LeftInv, [Next]_vars PROVE [Lease!Next]_(Lease!vars)
  OBVIOUS
<1>1. CASE Rests
  <2>1. phases' = phases /\ held' = held
    BY <1>1 DEF Rests, HeldOf
  <2>2. QED
    BY <2>1 DEF Lease!vars, HeldOf
<1>2. CASE PhaseMove
  <2>1. phases' = [phases EXCEPT !["owner"] = phase'] /\ held' = held
    BY <1>2 DEF PhaseMove, HeldOf
  <2>2. QED
    BY <1>2, <2>1 DEF PhaseMove, HeldOf, Lease!Next, Lease!Moves, Lease!Gone
<1>3. CASE Gains
  <2>1. phases' = phases /\ held' = [held EXCEPT !["owner"] = @ \cup {"bucket"}]
    BY <1>3 DEF Gains, HeldOf
  <2>2. QED
    BY <1>3, <2>1 DEF Gains, HeldOf, Lease!Next, Lease!Acquire
<1>4. CASE Loses
  <2>1. phases' = phases /\ held' = [held EXCEPT !["owner"] = @ \ {"bucket"}]
    BY <1>4 DEF Loses, HeldOf
  <2>2. QED
    BY <1>4, <2>1 DEF Loses, HeldOf, Lease!Next, Lease!GiveUp
<1>5. QED
  BY <1>1, <1>2, <1>3, <1>4, StepOfLease

(* Every behaviour of the controller is one of CloudLease: a BackupBucket  *)
(* that is gone leaves nothing, and one that stays keeps its bucket.       *)
THEOREM LeaseImplemented == Spec => ImplementsLease
<1>1. Init => Lease!Init
  BY DEF Init, Lease!Init
<1>2. QED
  BY <1>1, LeaseNext, NothingIsLeft, PTL DEF Spec, ImplementsLease, Lease!Spec

-----------------------------------------------------------------------------
(***************************************************************************)
(* The first life of a name.                                               *)
(***************************************************************************)

BucketReady == bucket.state = "live" /\ bucket.has = Ready
AccessWorks == BucketReady /\ secret = [owner |-> uid, creds |-> bucket.uid]

Unused ==
  /\ uid = 0
  /\ bucket.state = "absent" /\ secret = NoSecret
  /\ ~published /\ pc = "idle"

FirstLife ==
  /\ uid = 0 => phase = "absent" /\ Unused
  /\ phase = "present" =>
       /\ bucket.state # "terminating"
       /\ secret = NoSecret \/ AccessWorks
       /\ pc = "wait"               => bucket.state = "live"
       /\ pc \in {"access", "secret"} => BucketReady
       /\ pc = "secret"             => creds = bucket.uid
       /\ pc = "status" \/ published => AccessWorks
       /\ pc = "idle" /\ ~pending   => published

LifeInv == LeftInv /\ (uid <= 1 => FirstLife)

LEMMA LifeNext == LifeInv /\ [Next]_vars => LifeInv'
<1> SUFFICES ASSUME LifeInv, [Next]_vars, uid' <= 1 PROVE FirstLife'
  BY LeftNext DEF LifeInv
<1> USE DEF LeftInv, RunMatchesPhase, FirstLife, BucketReady, AccessWorks, resourceVars
<1>a. LeftInv /\ uid \in Nat /\ uid <= 1 /\ FirstLife
  <2>1. LeftInv /\ uid \in Nat
    BY DEF LifeInv, TypeOK
  <2>2. uid' = uid \/ uid' = uid + 1
    BY DEF vars, Next, CreateBackupBucket, RequestReconcile, RequestDeletion,
       RemoveUnreconciled, BucketShows, BucketVanishes, CollectSecret, Begin, Abort, RunStep, ReconcileStep,
       ensureBackupBucket, waitBackupBucketToAvailable, getAccessSecret,
       createGeneratedSecret, patchBackupBucketStatus, LookupFails, Delete,
       DeleteNotFound, Release
  <2>3. QED
    BY <2>1, <2>2 DEF LifeInv
<1>1. CASE CreateBackupBucket
  <2>1. uid = 0 /\ uid' = 1
    BY <1>1, <1>a DEF CreateBackupBucket
  <2>2. QED
    BY <1>1, <1>a, <2>1 DEF CreateBackupBucket, Unused
<1>2. CASE RequestReconcile \/ RequestDeletion \/ RemoveUnreconciled
  BY <1>2, <1>a DEF RequestReconcile, RequestDeletion, RemoveUnreconciled
<1>3. ASSUME NEW what \in Ready, BucketShows(what)
      PROVE  FirstLife'
  <2>1. /\ bucket.state = "live" /\ bucket'.state = "live" /\ bucket'.uid = bucket.uid
        /\ bucket'.has = bucket.has \cup {what}
        /\ UNCHANGED <<phase, uid, published, pending, pc, creds, secret>>
    BY <1>3, <1>a DEF BucketShows, TypeOK, Buckets
  <2>2. bucket.has = Ready => bucket'.has = Ready
    BY <1>3, <1>a, <2>1
  <2>3. QED
    BY <1>a, <2>1, <2>2 DEF Unused
<1>4. CASE BucketVanishes
  BY <1>4, <1>a DEF BucketVanishes, Unused
<1>5. CASE CollectSecret
  <2>1. /\ phase = "absent" \/ secret.owner # uid
        /\ secret # NoSecret /\ secret' = NoSecret
        /\ UNCHANGED <<phase, uid, published, pending, pc, creds, bucket>>
    BY <1>5, <1>a DEF CollectSecret, OwnerGone
  <2>2. phase # "present"
    BY <1>a, <2>1
  <2>3. QED
    BY <1>a, <2>1, <2>2 DEF Unused
<1>6. CASE Begin \/ Abort
  BY <1>6, <1>a DEF Begin, Abort, FailRun, EndRun, Unused
<1>7. CASE ensureBackupBucket
  BY <1>7, <1>a DEF ensureBackupBucket, Returns, FailRun, EndRun, TypeOK, Buckets
<1>8. CASE waitBackupBucketToAvailable \/ getAccessSecret
  BY <1>8, <1>a DEF waitBackupBucketToAvailable, getAccessSecret, TypeOK, Buckets
<1>9. CASE createGeneratedSecret \/ patchBackupBucketStatus
  BY <1>9, <1>a DEF createGeneratedSecret, patchBackupBucketStatus, Returns, FailRun, EndRun
<1>10. CASE LookupFails \/ Delete \/ DeleteNotFound \/ Release
  BY <1>10, <1>a DEF LookupFails, Delete, DeleteNotFound, Release, Returns, FailRun, EndRun
<1>11. CASE UNCHANGED vars
  BY <1>11, <1>a DEF vars, Unused
<1>12. QED
  BY <1>1, <1>2, <1>3, <1>4, <1>5, <1>6, <1>7, <1>8, <1>9, <1>10, <1>11
  DEF Next, RunStep, ReconcileStep

(* As long as the name of a BackupBucket is not used again, the secret it  *)
(* publishes gives access to its bucket.                                   *)
THEOREM AccessWorksAtFirst == Spec => []FirstAccessWorks
<1>1. Init => LifeInv
  BY InitType DEF Init, LifeInv, LeftInv, RunMatchesPhase, NoBucketLeft, FirstLife, Unused
<1>2. LifeInv => FirstAccessWorks
  BY DEF LifeInv, FirstLife, AccessWorks, BucketReady, FirstAccessWorks
<1>3. QED
  BY <1>1, <1>2, LifeNext, PTL DEF Spec
=============================================================================
