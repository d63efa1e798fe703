----------------------------- MODULE BackupBucket -----------------------------
(***************************************************************************)
(* The backup bucket controller: one BackupBucket resource of a seed, the  *)
(* ironcore Bucket of the same name, and the secret with the credentials   *)
(* of the bucket which the resource's status refers to                     *)
(* (pkg/controller/backupbucket).                                          *)
(*                                                                         *)
(* Gardener runs the actuator at most once at a time and again after an    *)
(* error or a crash; every call of the actuator may fail before or after   *)
(* it took effect.  The Bucket is terminating until its finalizers are     *)
(* gone; the secret is collected some time after its owner is gone.        *)
(*                                                                         *)
(* A definition whose name ends in Bug is a plausible mistake in the       *)
(* definition that follows it; nothing uses it but the mutation checks.    *)
(***************************************************************************)
EXTENDS Naturals

CONSTANT MaxLives  \* bound: how often a BackupBucket of this name is created

ASSUME MaxLivesAssumption == MaxLives \in Nat

VARIABLES
  phase,      \* the BackupBucket resource
  uid,        \* its UID: the number of its creations so far
  finalizer,  \* it has Gardener's finalizer: a reconciliation of it has begun
  published,  \* status.generatedSecretRef is set
  pending,    \* a reconciliation is due
  pc,         \* where the actuator is in its run
  creds,      \* the credentials that run has read: UID of the bucket they open
  bucket,     \* the ironcore Bucket; "has" is what its status shows
  secret      \* the generated secret; no owner means there is none

resourceVars == <<phase, uid, finalizer, published>>
vars         == <<resourceVars, pending, pc, creds, bucket, secret>>

Phases == {"absent", "present", "deleting"}
PCs    == {"idle", "bucket", "wait", "access", "secret", "status", "delete", "release"}

(* The state "Available", and where the endpoint and access secret are. *)
Ready == {"available", "access"}

Buckets  == [state : {"absent", "live", "terminating"}, uid : Nat, has : SUBSET Ready]
Secrets  == [owner : Nat, creds : Nat]
NoSecret == [owner |-> 0, creds |-> 0]

Init ==
  /\ phase     = "absent"
  /\ uid       = 0
  /\ finalizer = FALSE
  /\ published = FALSE
  /\ pending   = FALSE
  /\ pc        = "idle"
  /\ creds     = 0
  /\ bucket    = [state |-> "absent", uid |-> 0, has |-> {}]
  /\ secret    = NoSecret

-----------------------------------------------------------------------------
(***************************************************************************)
(* Gardener, the bucket controllers of ironcore, the garbage collector.    *)
(***************************************************************************)

CreateBackupBucket ==
  /\ phase = "absent"
  /\ uid < MaxLives
  /\ phase'   = "present"
  /\ uid'     = uid + 1
  /\ pending' = TRUE
  /\ UNCHANGED <<finalizer, published, pc, creds, bucket, secret>>

RequestReconcile ==
  /\ phase = "present" /\ ~pending
  /\ pending' = TRUE
  /\ UNCHANGED <<resourceVars, pc, creds, bucket, secret>>

RequestDeletion ==
  /\ phase = "present"
  /\ phase'   = "deleting"
  /\ pending' = TRUE
  /\ UNCHANGED <<uid, finalizer, published, pc, creds, bucket, secret>>

(* Without the finalizer nothing keeps it, and Delete is not called. *)
RemoveUnreconciled ==
  /\ phase = "deleting" /\ ~finalizer
  /\ phase' = "absent"
  /\ UNCHANGED <<uid, finalizer, published, pending, pc, creds, bucket, secret>>

BucketShows(what) ==
  /\ bucket.state = "live"
  /\ bucket' = [bucket EXCEPT !.has = @ \cup {what}]
  /\ UNCHANGED <<resourceVars, pending, pc, creds, secret>>

BucketVanishes ==
  /\ bucket.state = "terminating"
  /\ bucket' = [bucket EXCEPT !.state = "absent", !.has = {}]
  /\ UNCHANGED <<resourceVars, pending, pc, creds, secret>>

OwnerGone == phase = "absent" \/ secret.owner # uid

CollectSecret ==
  /\ secret # NoSecret
  /\ OwnerGone
  /\ secret' = NoSecret
  /\ UNCHANGED <<resourceVars, pending, pc, creds, bucket>>

-----------------------------------------------------------------------------
(***************************************************************************)
(* A run of the actuator.                                                  *)
(***************************************************************************)

EndRun == pc' = "idle" /\ creds' = 0

FailRun == EndRun /\ pending' = TRUE

(* A call fails without effect: above all the first one, which makes a     *)
(* client from a secret that may be missing or lack a field; or the        *)
(* controller crashes before the call.                                     *)
Abort ==
  /\ pc # "idle"
  /\ FailRun
  /\ UNCHANGED <<resourceVars, bucket, secret>>

(* A call that took effect returns, or its answer is lost. *)
Returns(next) ==
  \/ pc' = next /\ UNCHANGED <<pending, creds>>
  \/ FailRun

(***************************************************************************)
(* Gardener sets its finalizer before the first Reconcile, and calls       *)
(* Delete only for a resource that has it.                                 *)
(*                                                                         *)
(* Reconcile does nothing once the status refers to a secret: without one  *)
(* "that means no backupbucket exists".  The resource comes from a cache,  *)
(* which may not show the reference yet.                                   *)
(***************************************************************************)
Begin ==
  /\ pc = "idle"
  /\ pending
  /\ phase # "absent"
  /\ pending' = FALSE
  /\ \/ phase = "deleting" /\ finalizer /\ pc' = "delete"
     \/ phase = "present" /\ published /\ pc' = "idle"
     \/ phase = "present" /\ pc' = "bucket"
  /\ finalizer' = TRUE
  /\ UNCHANGED <<phase, uid, published, creds, bucket, secret>>

(* controllerutil.CreateOrPatch(bucket, nil): an existing bucket stays. *)
ensureBackupBucket ==
  /\ pc = "bucket"
  /\ IF bucket.state # "absent"
       THEN UNCHANGED bucket
       ELSE bucket' = [state |-> "live", uid |-> bucket.uid + 1, has |-> {}]
  /\ Returns("wait")
  /\ UNCHANGED <<resourceVars, secret>>

waitBackupBucketToAvailable_Bug ==
  /\ pc = "wait"
  /\ bucket.state # "absent" /\ "access" \in bucket.has
  /\ pc' = "access"
  /\ UNCHANGED <<resourceVars, pending, creds, bucket, secret>>

waitBackupBucketToAvailable ==
  /\ pc = "wait"
  /\ bucket.state # "absent" /\ bucket.has = Ready
  /\ pc' = "access"
  /\ UNCHANGED <<resourceVars, pending, creds, bucket, secret>>

getAccessSecret ==
  /\ pc = "access"
  /\ bucket.state # "absent"
  /\ pc'    = "secret"
  /\ creds' = bucket.uid
  /\ UNCHANGED <<resourceVars, pending, bucket, secret>>

LookupFails_Bug ==
  /\ pc \in {"wait", "access"}
  /\ bucket.state = "absent" \/ bucket.has # Ready
  /\ EndRun
  /\ UNCHANGED <<resourceVars, pending, bucket, secret>>

(* The wait times out, or the bucket or its access secret is not found. *)
LookupFails ==
  /\ pc \in {"wait", "access"}
  /\ bucket.state = "absent" \/ bucket.has # Ready
  /\ FailRun
  /\ UNCHANGED <<resourceVars, bucket, secret>>

createGeneratedSecret_Bug ==
  /\ pc = "secret"
  /\ secret' = IF secret = NoSecret THEN [owner |-> uid] ELSE secret
  /\ Returns("status")
  /\ UNCHANGED <<resourceVars, bucket>>

(* patchBackupBucketStatus, first half: CreateOrPatch(secret, nil). *)
createGeneratedSecret ==
  /\ pc = "secret"
  /\ secret' = IF secret = NoSecret THEN [owner |-> uid, creds |-> creds] ELSE secret
  /\ Returns("status")
  /\ UNCHANGED <<resourceVars, bucket>>

patchBackupBucketStatus ==
  /\ pc = "status"
  /\ published' = TRUE
  /\ \/ EndRun /\ UNCHANGED pending
     \/ FailRun
  /\ UNCHANGED <<phase, uid, finalizer, bucket, secret>>

Delete_Bug ==
  /\ pc = "delete"
  /\ \/ bucket' = [bucket EXCEPT !.state = "terminating"]
     \/ UNCHANGED bucket
  /\ pc' = "release"
  /\ UNCHANGED <<resourceVars, pending, creds, secret>>

(* Deleting the bucket; for a missing one see DeleteNotFound. *)
Delete ==
  /\ pc = "delete"
  /\ bucket.state # "absent"
  /\ bucket' = [bucket EXCEPT !.state = "terminating"]
  /\ Returns("release")
  /\ UNCHANGED <<resourceVars, secret>>

(* "Not found" is an error like any other. *)
DeleteNotFound ==
  /\ pc = "delete"
  /\ bucket.state = "absent"
  /\ FailRun
  /\ UNCHANGED <<resourceVars, bucket, secret>>

(* Delete returned nil: Gardener removes the finalizer. *)
Release ==
  /\ pc = "release"
  /\ phase'     = "absent"
  /\ finalizer' = FALSE
  /\ published' = FALSE
  /\ EndRun
  /\ UNCHANGED <<uid, pending, bucket, secret>>

-----------------------------------------------------------------------------
ReconcileStep ==
  \/ ensureBackupBucket
  \/ waitBackupBucketToAvailable
  \/ getAccessSecret
  \/ createGeneratedSecret
  \/ patchBackupBucketStatus

RunStep ==
  \/ ReconcileStep
  \/ LookupFails
  \/ Delete
  \/ DeleteNotFound
  \/ Release

Next ==
  \/ CreateBackupBucket \/ RequestReconcile \/ RequestDeletion \/ RemoveUnreconciled
  \/ \E what \in Ready : BucketShows(what)
  \/ BucketVanishes \/ CollectSecret
  \/ Begin \/ RunStep \/ Abort

Spec == Init /\ [][Next]_vars

(***************************************************************************)
(* Fairness.  The work queue hands out a due resource, a run goes on, and  *)
(* ironcore makes buckets ready and finishes deletions (WF); failures of   *)
(* calls and crashes end some day.  The failures the run makes itself      *)
(* (LookupFails, DeleteNotFound) may go on for ever.                       *)
(***************************************************************************)
Fails ==
  /\ pc # "idle" /\ pc' = "idle"
  /\ pc = "status"  => ~published'
  /\ pc = "release" => phase' # "absent"
  /\ ~LookupFails /\ ~DeleteNotFound

Fairness ==
  /\ WF_vars(Begin) /\ WF_vars(RunStep) /\ WF_vars(RemoveUnreconciled)
  /\ \A what \in Ready : WF_vars(BucketShows(what))
  /\ WF_vars(BucketVanishes) /\ WF_vars(CollectSecret)
  /\ <>[][~Fails]_vars

FairSpec == Spec /\ Fairness

-----------------------------------------------------------------------------
TypeOK ==
  /\ phase \in Phases
  /\ uid \in Nat
  /\ finalizer \in BOOLEAN
  /\ published \in BOOLEAN
  /\ pending \in BOOLEAN
  /\ pc \in PCs
  /\ creds \in Nat
  /\ bucket \in Buckets
  /\ secret \in Secrets

(***************************************************************************)
(* The controller keeps the promise of CloudLease: a bucket is made only   *)
(* for a BackupBucket that is there, given up only when that is to be      *)
(* deleted, and a BackupBucket that is gone leaves no bucket behind,       *)
(* whatever failed.                                                        *)
(***************************************************************************)
Lease == INSTANCE CloudLease WITH
  Owners <- {"owner"}, Kinds <- {"bucket"},
  phase  <- [owner \in {"owner"} |-> phase],
  held   <- [owner \in {"owner"} |-> IF bucket.state = "live" THEN {"bucket"} ELSE {}]

ImplementsLease == Lease!Spec

(***************************************************************************)
(* "ensureBackupBucket creates ironcore backupBucket object and returns    *)
(* access to bucket" (backupbucket.go): while nothing is due, the secret   *)
(* the status refers to exists, lives as long as the BackupBucket, and     *)
(* opens the bucket that is there.  It holds for the first resource of a   *)
(* name; a later one may adopt the terminating bucket or the secret of its *)
(* predecessor, both of which vanish when all seems settled.               *)
(***************************************************************************)
FirstAccessWorks ==
  uid <= 1 /\ phase = "present" /\ pc = "idle" /\ ~pending =>
    /\ published
    /\ secret = [owner |-> uid, creds |-> bucket.uid]
    /\ bucket.state = "live" /\ bucket.has = Ready

(***************************************************************************)
(* A BackupBucket that stays gets its credentials published, however long  *)
(* the bucket takes to become available.                                   *)
(***************************************************************************)
AccessIsPublished == phase = "present" ~> published \/ phase # "present"

(***************************************************************************)
(* A BackupBucket that is to be deleted while its bucket is there is       *)
(* deleted: actuator_test.go, "ensuring backupbucket is delete             *)
(* successfully".                                                          *)
(***************************************************************************)
DeletionCompletes == phase = "deleting" /\ bucket.state = "live" ~> phase = "absent"
=============================================================================
