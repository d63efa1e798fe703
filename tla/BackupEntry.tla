------------------------------ MODULE BackupEntry ------------------------------
(***************************************************************************)
(* The backup entry controller: the backups of a shoot's etcd are objects  *)
(* in an S3 bucket that many shoots share, under the prefix                *)
(* "<name of the BackupEntry>/"; Delete removes them page by page          *)
(* (pkg/controller/backupentry).                                           *)
(*                                                                         *)
(* Entries are deleted concurrently.  A run may stop anywhere and starts   *)
(* again from the first page.                                              *)
(*                                                                         *)
(* A definition whose name ends in Bug is a plausible mistake in the       *)
(* definition that follows it; nothing uses it but the mutation checks.    *)
(***************************************************************************)
EXTENDS Naturals, FiniteSets, SequencesExt

CONSTANTS
  Entries,      \* names of BackupEntries: sequences of characters
  MaxObjects,   \* bound: backups are numbered up to this, in listing order
  PageSize,     \* objects in one page of a listing
  StoreAnswers  \* what the store may do beside succeeding or failing

ASSUME EntriesAssumption ==
  /\ \A e \in Entries : e \in Seq(ToSet(e) \ {"/"})
  /\ MaxObjects \in Nat
  /\ PageSize \in Nat \ {0}
  /\ StoreAnswers \subseteq {"keyErrors", "noSuchKey"}

Prefix_Bug(e) == e

(* fmt.Sprintf("%s/", backupEntry.Name) *)
Prefix(e) == Append(e, "/")

(* A key is the directory the backup sidecar of the entry writes to and    *)
(* the number of the backup there.                                         *)
Directory(e) == Append(e, "/")
Keys         == [dir : {Directory(e) : e \in Entries}, num : 1..MaxObjects]
KeysOf(e)    == {k \in Keys : k.dir = Directory(e)}

VARIABLES
  phase,  \* the BackupEntry resources
  store,  \* the objects in the bucket
  pc,     \* where the actuator is in its run
  after,  \* the continuation token: the last number listed so far
  more,   \* the page was truncated: another one follows
  page,   \* the keys listed and not yet deleted
  hidden  \* history: entries for which a deletion error was taken for success

vars == <<phase, store, pc, after, more, page, hidden>>

Init ==
  /\ phase = [e \in Entries |-> "present"]
  /\ store = {}
  /\ pc    = [e \in Entries |-> "idle"]
  /\ after = [e \in Entries |-> 0]
  /\ more  = [e \in Entries |-> FALSE]
  /\ page  = [e \in Entries |-> {}]
  /\ hidden = {}

-----------------------------------------------------------------------------
(* The backup sidecar writes as long as the shoot exists. *)
Backup(e, k) ==
  /\ phase[e] = "present"
  /\ k \in KeysOf(e)
  /\ store' = store \cup {k}
  /\ UNCHANGED <<phase, pc, after, more, page, hidden>>

RequestDeletion(e) ==
  /\ phase[e] = "present"
  /\ phase' = [phase EXCEPT ![e] = "deleting"]
  /\ UNCHANGED <<store, pc, after, more, page, hidden>>

(* Somebody else removes a backup of an entry that is being deleted. *)
Expire(e, k) ==
  /\ phase[e] = "deleting"
  /\ k \in store \cap KeysOf(e)
  /\ store' = store \ {k}
  /\ UNCHANGED <<phase, pc, after, more, page, hidden>>

-----------------------------------------------------------------------------
(* NewListObjectsV2Paginator starts before the first page. *)
Begin(e) ==
  /\ pc[e] = "idle"
  /\ phase[e] = "deleting"
  /\ pc'    = [pc EXCEPT ![e] = "list"]
  /\ after' = [after EXCEPT ![e] = 0]
  /\ more'  = [more EXCEPT ![e] = TRUE]
  /\ UNCHANGED <<phase, store, page, hidden>>

(* The run ends; it is repeated as long as the entry is there. *)
Stop(e) ==
  /\ pc'    = [pc EXCEPT ![e] = "idle"]
  /\ after' = [after EXCEPT ![e] = 0]
  /\ more'  = [more EXCEPT ![e] = FALSE]
  /\ page'  = [page EXCEPT ![e] = {}]

(* The credentials are missing, a call fails without effect, or a crash. *)
Abort(e) ==
  /\ pc[e] # "idle"
  /\ Stop(e)
  /\ UNCHANGED <<phase, store, hidden>>

Listed(e) == {k \in store : IsPrefix(Prefix(e), k.dir) /\ k.num > after[e]}

(* The first PageSize keys of a listing. *)
FirstPage(keys) ==
  {k \in keys : Cardinality({j \in keys : j.num < k.num}) < PageSize}

NextPage_Bug(e) ==
  /\ pc[e] = "list" /\ more[e]
  /\ page' = [page EXCEPT ![e] = FirstPage(Listed(e))]
  /\ more' = [more EXCEPT ![e] = FALSE]
  /\ pc'   = [pc EXCEPT ![e] = "delete"]
  /\ UNCHANGED <<phase, store, after, hidden>>

NextPage_OffsetBug(e) ==
  /\ pc[e] = "list" /\ more[e]
  /\ page'  = [page EXCEPT ![e] = FirstPage(Listed(e))]
  /\ after' = [after EXCEPT ![e] = @ + PageSize]
  /\ more'  = [more EXCEPT ![e] = page'[e] # Listed(e)]
  /\ pc'    = [pc EXCEPT ![e] = "delete"]
  /\ UNCHANGED <<phase, store, hidden>>

NextPage(e) ==
  /\ pc[e] = "list" /\ more[e]
  /\ page'  = [page EXCEPT ![e] = FirstPage(Listed(e))]
  /\ after' = [after EXCEPT ![e] = Max({@} \cup {k.num : k \in page'[e]})]
  /\ more'  = [more EXCEPT ![e] = page'[e] # Listed(e)]
  /\ pc'    = [pc EXCEPT ![e] = "delete"]
  /\ UNCHANGED <<phase, store, hidden>>

(* DeleteObjects takes effect and answers; errors of single keys are part  *)
(* of the answer and are not looked at.                                    *)
DeleteObjects(e) ==
  /\ pc[e] = "delete"
  /\ \E failed \in IF "keyErrors" \in StoreAnswers THEN SUBSET page[e] ELSE {{}} :
       /\ store'  = store \ (page[e] \ failed)
       /\ hidden' = IF failed = {} THEN hidden ELSE hidden \cup {e}
  /\ pc'   = [pc EXCEPT ![e] = "list"]
  /\ page' = [page EXCEPT ![e] = {}]
  /\ UNCHANGED <<phase, after, more>>

(* The call fails half-way, or its answer is lost. *)
DeleteObjectsFails(e) ==
  /\ pc[e] = "delete"
  /\ \E done \in SUBSET page[e] : store' = store \ done
  /\ Stop(e)
  /\ UNCHANGED <<phase, hidden>>

(* NoSuchKey, for a key that is gone, ends the deletion with success. *)
DeleteObjectsNoSuchKey(e) ==
  /\ pc[e] = "delete"
  /\ "noSuchKey" \in StoreAnswers
  /\ ~(page[e] \subseteq store)
  /\ pc'     = [pc EXCEPT ![e] = "release"]
  /\ page'   = [page EXCEPT ![e] = {}]
  /\ hidden' = hidden \cup {e}
  /\ UNCHANGED <<phase, store, after, more>>

NoMorePages_Bug(e) ==
  /\ pc[e] = "list" /\ ~more[e] /\ Listed(e) # {}
  /\ pc' = [pc EXCEPT ![e] = "release"]
  /\ UNCHANGED <<phase, store, after, more, page, hidden>>

NoMorePages(e) ==
  /\ pc[e] = "list" /\ ~more[e]
  /\ pc' = [pc EXCEPT ![e] = "release"]
  /\ UNCHANGED <<phase, store, after, more, page, hidden>>

(* Delete returned nil: Gardener removes the finalizer. *)
Release(e) ==
  /\ pc[e] = "release"
  /\ phase' = [phase EXCEPT ![e] = "absent"]
  /\ Stop(e)
  /\ UNCHANGED <<store, hidden>>

-----------------------------------------------------------------------------
RunStep(e) ==
  \/ NextPage(e)
  \/ DeleteObjects(e)
  \/ DeleteObjectsNoSuchKey(e)
  \/ NoMorePages(e)
  \/ Release(e)

Fail(e) == Abort(e) \/ DeleteObjectsFails(e)

Next ==
  \E e \in Entries :
    \/ \E k \in Keys : Backup(e, k) \/ Expire(e, k)
    \/ RequestDeletion(e)
    \/ Begin(e) \/ RunStep(e) \/ Fail(e)

Spec == Init /\ [][Next]_vars

(* A run that is due begins and goes on; failures end some day. *)
Fairness ==
  \A e \in Entries :
    /\ WF_vars(Begin(e)) /\ WF_vars(RunStep(e))
    /\ <>[][~Fail(e)]_vars

FairSpec == Spec /\ Fairness

-----------------------------------------------------------------------------
TypeOK ==
  /\ phase \in [Entries -> {"present", "deleting", "absent"}]
  /\ store \subseteq Keys
  /\ pc    \in [Entries -> {"idle", "list", "delete", "release"}]
  /\ after \in [Entries -> 0..MaxObjects]
  /\ more  \in [Entries -> BOOLEAN]
  /\ page  \in [Entries -> SUBSET Keys]
  /\ hidden \subseteq Entries

(***************************************************************************)
(* A backup is lost only when its own entry is being deleted, also when    *)
(* the name of another entry that is deleted is the beginning of its name. *)
(***************************************************************************)
BackupsAreKept ==
  [][\A e \in Entries : phase[e] = "present" => KeysOf(e) \cap store \subseteq store']_vars

(***************************************************************************)
(* Once an entry is gone so are its backups, whichever runs stopped        *)
(* half-way, over however many pages, unless the store reported an error   *)
(* that DeleteObjectsWithPrefix took for success.                          *)
(***************************************************************************)
DeletedMeansGone ==
  \A e \in Entries :
    phase[e] = "absent" /\ e \notin hidden => KeysOf(e) \cap store = {}

(***************************************************************************)
(* "DeleteObjectsWithPrefix deletes the s3 objects with the specific       *)
(* <prefix> from <bucket>" (backupentry.go): once the entry is gone, so    *)
(* are its backups.                                                        *)
(***************************************************************************)
NoBackupLeft ==
  \A e \in Entries : phase[e] = "absent" => KeysOf(e) \cap store = {}

(***************************************************************************)
(* The deletion of an entry ends, however many pages it has.               *)
(***************************************************************************)
DeletionCompletes == \A e \in Entries : phase[e] = "deleting" ~> phase[e] = "absent"
=============================================================================
