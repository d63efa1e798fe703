--------------------------- MODULE BackupEntryProofs ---------------------------
(***************************************************************************)
(* Proofs about BackupEntry: for any entries, whatever their names, any    *)
(* number of backups and any size of the pages, the backups of an entry    *)
(* are deleted with it, all of them, and no others.                        *)
(***************************************************************************)
EXTENDS BackupEntry, FiniteSetTheorems, WellFoundedInduction, TLAPS

-----------------------------------------------------------------------------
(* No directory begins with the prefix of another entry: names have no     *)
(* "/", and the prefix ends in one.                                        *)
LEMMA PrefixesDiffer ==
  ASSUME NEW e \in Entries, NEW f \in Entries, IsPrefix(Prefix(e), Directory(f))
  PROVE  e = f
<1> DEFINE E == Append(e, "/")
           F == Append(f, "/")
<1>1. e \in Seq(ToSet(e) \ {"/"}) /\ f \in Seq(ToSet(f) \ {"/"})
  BY EntriesAssumption
<1>2. /\ Len(E) = Len(e) + 1 /\ \A i \in 1..Len(e) : E[i] = e[i]
      /\ E[Len(e) + 1] = "/" /\ Len(e) \in Nat
  BY <1>1
<1>3. /\ Len(F) = Len(f) + 1 /\ \A i \in 1..Len(f) : F[i] = f[i]
      /\ F[Len(f) + 1] = "/" /\ Len(f) \in Nat
  BY <1>1
<1>4. Len(e) <= Len(f) /\ \A i \in 1..(Len(e) + 1) : E[i] = F[i]
  <2>1. Len(E) <= Len(F) /\ SubSeq(E, 1, Len(E)) = SubSeq(F, 1, Len(E))
    BY DEF IsPrefix, Prefix, Directory
  <2>2. E \in Seq(ToSet(e) \cup {"/"}) /\ F \in Seq(ToSet(f) \cup {"/"})
    BY <1>1
  <2>3. \A i \in 1..Len(E) : SubSeq(E, 1, Len(E))[i] = E[i] /\ SubSeq(F, 1, Len(E))[i] = F[i]
    BY <2>1, <2>2, <1>2, <1>3
  <2>4. QED
    BY <2>1, <2>3, <1>2, <1>3
<1>5. Len(e) = Len(f)
  <2>1. SUFFICES ASSUME Len(e) < Len(f) PROVE FALSE
    BY <1>4, <1>2, <1>3
  <2>2. f[Len(e) + 1] = "/"
    BY <2>1, <1>2, <1>3, <1>4
  <2>3. Len(e) + 1 \in 1..Len(f)
    BY <2>1, <1>2, <1>3
  <2>4. QED
    BY <2>2, <2>3, <1>1
<1>6. \A i \in 1..Len(e) : e[i] = f[i]
  BY <1>2, <1>3, <1>4, <1>5
<1>7. QED
  BY <1>1, <1>5, <1>6

(* So an entry lists its own backups and no others. *)
LEMMA ListedAreOwn ==
  ASSUME TypeOK, NEW e \in Entries
  PROVE  Listed(e) = {k \in store \cap KeysOf(e) : k.num > after[e]}
<1>1. ASSUME NEW k \in store, IsPrefix(Prefix(e), k.dir)
      PROVE  k \in KeysOf(e)
  <2>1. PICK f \in Entries : k.dir = Directory(f)
    BY DEF TypeOK, Keys
  <2>2. e = f
    BY <1>1, <2>1, PrefixesDiffer
  <2>3. QED
    BY <2>1, <2>2 DEF TypeOK, KeysOf
<1>2. IsPrefix(Prefix(e), Directory(e))
  <2>1. e \in Seq(ToSet(e) \ {"/"})
    BY EntriesAssumption
  <2>2. Len(Append(e, "/")) \in Nat
    BY <2>1
  <2>3. QED
    BY <2>2 DEF IsPrefix, Prefix, Directory
<1>3. QED
  BY <1>1, <1>2 DEF Listed, KeysOf

(* A set of numbers up to MaxObjects has a largest one. *)
LEMMA LargestExists ==
  ASSUME NEW S \in SUBSET (0..MaxObjects), S # {}
  PROVE  Max(S) \in S /\ \A x \in S : Max(S) >= x
<1>1. MaxObjects \in Nat
  BY EntriesAssumption
<1> DEFINE Above(x) == x..MaxObjects
           T == {Above(x) : x \in S}
           N == 0..MaxObjects
<1>2. T \subseteq FiniteSubsetsOf(N) /\ T # {}
  <2>1. ASSUME NEW x \in S
        PROVE  IsFiniteSet(Above(x)) /\ Above(x) \subseteq N
    BY <1>1, FS_Interval
  <2>2. QED
    BY <2>1 DEF FiniteSubsetsOf
<1>3. PICK t \in T : \A u \in T : ~(<<u, t>> \in StrictSubsetOrdering(N))
  BY <1>2, FS_StrictSubsetOrderingWellFounded, WFMin
<1>4. PICK x \in S : t = Above(x)
  OBVIOUS
<1>5. ASSUME NEW z \in S, z > x
      PROVE  FALSE
  <2>1. Above(z) \subseteq Above(x) /\ x \in Above(x) /\ x \notin Above(z)
    BY <1>1, <1>5
  <2>2. Above(z) \in SUBSET N /\ Above(x) \in SUBSET N
    BY <1>1
  <2>3. <<Above(z), Above(x)>> \in StrictSubsetOrdering(N)
    BY <2>1, <2>2, Zenon DEF StrictSubsetOrdering
  <2>4. QED
    BY <1>3, <1>4, <2>3
<1>6. \A z \in S : x >= z
  BY <1>1, <1>5
<1>7. QED
  BY <1>6 DEF Max

-----------------------------------------------------------------------------
(* An entry has finitely many backups. *)
LEMMA BackupsAreFinite ==
  ASSUME NEW e \in Entries, NEW S \in SUBSET KeysOf(e)
  PROVE  IsFiniteSet(S)
<1> DEFINE N == 1..MaxObjects
           f == [n \in N |-> [dir |-> Directory(e), num |-> n]]
<1>1. IsFiniteSet(N)
  BY EntriesAssumption, FS_Interval
<1>2. f \in Surjection(N, KeysOf(e))
  <2>1. \A n \in N : f[n] \in KeysOf(e)
    BY DEF Keys, KeysOf
  <2>2. \A k \in KeysOf(e) : k.num \in N /\ f[k.num] = k
    BY DEF Keys, KeysOf
  <2>3. QED
    BY <2>1, <2>2, Zenon DEF Surjection
<1>3. IsFiniteSet(KeysOf(e))
  BY <1>1, <1>2, FS_Surjection
<1>4. QED
  BY <1>3, FS_Subset

(* A page that has a backup has those that are listed before it. *)
LEMMA PagesHaveNoGaps ==
  ASSUME NEW e \in Entries, NEW S \in SUBSET KeysOf(e),
         NEW k \in FirstPage(S), NEW j \in S, j.num <= k.num
  PROVE  j \in FirstPage(S)
<1> DEFINE Ahead(l) == {i \in S : i.num < l.num}
<1>1. k \in S /\ Cardinality(Ahead(k)) < PageSize
  BY DEF FirstPage
<1>2. Ahead(j) \subseteq Ahead(k)
  BY <1>1 DEF KeysOf, Keys
<1>3. IsFiniteSet(Ahead(k))
  BY BackupsAreFinite
<1>4. IsFiniteSet(Ahead(j)) /\ Cardinality(Ahead(j)) <= Cardinality(Ahead(k))
  BY <1>2, <1>3, FS_Subset
<1>5. Cardinality(Ahead(j)) < PageSize
  BY <1>1, <1>3, <1>4, FS_CardinalityType, EntriesAssumption
<1>6. QED
  BY <1>5 DEF FirstPage

(***************************************************************************)
(* What listing a page does: it reads backups of the entry only, and those *)
(* up to the new continuation token are on the page or were listed before; *)
(* if there are no more pages, no backup lies behind the token.            *)
(***************************************************************************)
LEMMA PageListed ==
  ASSUME TypeOK, NEW e \in Entries, NextPage(e)
  PROVE  /\ page'[e] \subseteq store \cap KeysOf(e)
         /\ after'[e] \in 0..MaxObjects
         /\ \A k \in store \cap KeysOf(e) :
              /\ k.num <= after'[e] => k.num <= after[e] \/ k \in page'[e]
              /\ ~more'[e] => k.num <= after[e] \/ k \in page'[e]
<1> DEFINE S == Listed(e)
           P == FirstPage(S)
           M == {after[e]} \cup {k.num : k \in P}
<1>1. /\ page' = [page EXCEPT ![e] = P]
      /\ after' = [after EXCEPT ![e] = Max({@} \cup {k.num : k \in page'[e]})]
      /\ more' = [more EXCEPT ![e] = page'[e] # S]
  BY DEF NextPage
<1>2. page'[e] = P /\ more'[e] = (P # S)
  BY <1>1 DEF TypeOK
<1>3. after'[e] = Max(M)
  BY <1>1, <1>2 DEF TypeOK
<1>4. S = {k \in store \cap KeysOf(e) : k.num > after[e]} /\ P \subseteq S
  BY ListedAreOwn DEF FirstPage
<1>5. M \in SUBSET (0..MaxObjects) /\ M # {}
  <2>1. after[e] \in 0..MaxObjects
    BY DEF TypeOK
  <2>2. \A k \in P : k.num \in 1..MaxObjects
    BY <1>4 DEF KeysOf, Keys
  <2>3. 1..MaxObjects \subseteq 0..MaxObjects
    BY EntriesAssumption
  <2>4. QED
    BY <2>1, <2>2, <2>3
<1>6. Max(M) \in M /\ Max(M) \in 0..MaxObjects
  BY <1>5, LargestExists
<1>7. ASSUME NEW k \in store \cap KeysOf(e), k.num <= Max(M), k.num > after[e]
      PROVE  k \in P
  <2>1. k \in S /\ S \in SUBSET KeysOf(e)
    BY <1>4, <1>7
  <2>2. Max(M) # after[e]
    BY <1>7 DEF TypeOK, KeysOf, Keys
  <2>3. PICK l \in P : Max(M) = l.num
    BY <1>6, <2>2
  <2>4. QED
    BY <1>7, <2>1, <2>3, PagesHaveNoGaps
<1>8. \A k \in store \cap KeysOf(e) : k.num \in Nat
  BY DEF KeysOf, Keys
<1>9. after[e] \in Nat
  BY DEF TypeOK
<1>10. ASSUME NEW k \in store \cap KeysOf(e)
       PROVE  /\ k.num <= after'[e] => k.num <= after[e] \/ k \in page'[e]
              /\ ~more'[e] => k.num <= after[e] \/ k \in page'[e]
  <2>1. k.num <= after[e] \/ k.num > after[e]
    BY <1>8, <1>9
  <2>2. k.num <= after'[e] => k.num <= after[e] \/ k \in page'[e]
    BY <1>2, <1>3, <1>7, <2>1
  <2>3. ~more'[e] => k.num <= after[e] \/ k \in page'[e]
    BY <1>2, <1>4, <2>1
  <2>4. QED
    BY <2>2, <2>3
<1>11. page'[e] \subseteq store \cap KeysOf(e)
  BY <1>2, <1>4
<1>12. QED
  BY <1>3, <1>6, <1>10, <1>11

-----------------------------------------------------------------------------
(* What a run that failed or ended leaves of its local state. *)
LEMMA Stopped ==
  ASSUME TypeOK, NEW e \in Entries, Stop(e)
  PROVE  /\ pc'    \in [Entries -> {"idle", "list", "delete", "release"}]
         /\ after' \in [Entries -> 0..MaxObjects]
         /\ more'  \in [Entries -> BOOLEAN]
         /\ page'  \in [Entries -> SUBSET Keys]
<1>1. 0 \in 0..MaxObjects
  BY EntriesAssumption
<1>2. more' \in [Entries -> BOOLEAN]
  BY Zenon DEF TypeOK, Stop
<1>3. QED
  BY <1>1, <1>2 DEF TypeOK, Stop

(* The state has its type. *)
THEOREM TypeCorrect == Spec => []TypeOK
<1>1. Init => TypeOK
  BY EntriesAssumption DEF Init, TypeOK
<1>2. TypeOK /\ [Next]_vars => TypeOK'
  <2> SUFFICES ASSUME TypeOK, [Next]_vars
               PROVE  TypeOK'
    OBVIOUS
  <2> USE DEF TypeOK
  <2>1. ASSUME NEW e \in Entries, NEW k \in Keys, Backup(e, k) \/ Expire(e, k)
        PROVE  TypeOK'
    BY <2>1 DEF Backup, Expire
  <2>2. ASSUME NEW e \in Entries, RequestDeletion(e)
        PROVE  TypeOK'
    BY <2>2 DEF RequestDeletion
  <2>3. ASSUME NEW e \in Entries, Begin(e)
        PROVE  TypeOK'
    <3>1. more' \in [Entries -> BOOLEAN]
      BY <2>3, Zenon DEF Begin
    <3>2. QED
      BY <2>3, <3>1, EntriesAssumption DEF Begin
  <2>4. ASSUME NEW e \in Entries, NextPage(e)
        PROVE  TypeOK'
    <3>1. page'[e] \subseteq Keys /\ after'[e] \in 0..MaxObjects
      BY <2>4, PageListed
    <3>2. more' \in [Entries -> BOOLEAN]
      <4>1. (page'[e] # Listed(e)) \in BOOLEAN
        OBVIOUS
      <4>2. more' = [more EXCEPT ![e] = page'[e] # Listed(e)]
        BY <2>4 DEF NextPage
      <4>3. QED
        BY <4>1, <4>2, Zenon
    <3>3. QED
      BY <2>4, <3>1, <3>2 DEF NextPage
  <2>5. ASSUME NEW e \in Entries, DeleteObjects(e) \/ DeleteObjectsNoSuchKey(e)
        PROVE  TypeOK'
    BY <2>5 DEF DeleteObjects, DeleteObjectsNoSuchKey
  <2>6. ASSUME NEW e \in Entries, NoMorePages(e)
        PROVE  TypeOK'
    BY <2>6 DEF NoMorePages
  <2>7. ASSUME NEW e \in Entries, Release(e) \/ Abort(e) \/ DeleteObjectsFails(e)
        PROVE  TypeOK'
    <3>1. Stop(e)
      BY <2>7 DEF Release, Abort, DeleteObjectsFails
    <3>2. /\ phase' \in [Entries -> {"present", "deleting", "absent"}]
          /\ store' \subseteq Keys /\ hidden' \subseteq Entries
      BY <2>7 DEF Release, Abort, DeleteObjectsFails
    <3>3. QED
      BY <3>1, <3>2, Stopped
  <2>8. CASE UNCHANGED vars
    BY <2>8 DEF vars
  <2>9. QED
    BY <2>1, <2>2, <2>3, <2>4, <2>5, <2>6, <2>7, <2>8 DEF Next, RunStep, Fail
<1>3. QED
  BY <1>1, <1>2, PTL DEF Spec

-----------------------------------------------------------------------------
(* A run belongs to a deletion, and deletes backups of its own entry.      *)
RunInv ==
  \A e \in Entries :
    /\ pc[e] # "idle" => phase[e] = "deleting"
    /\ pc[e] \in {"idle", "list"} => page[e] = {}
    /\ page[e] \subseteq KeysOf(e)

(* What the run of an entry has passed is gone, or on its page.            *)
Passed(e) ==
  \A k \in store \cap KeysOf(e) :
    /\ pc[e] \in {"list", "delete"} /\ k.num <= after[e] => k \in page[e]
    /\ pc[e] \in {"list", "delete"} /\ ~more[e] => k \in page[e]
    /\ pc[e] # "release" /\ phase[e] # "absent"

PassedInv == \A e \in Entries : e \notin hidden => Passed(e)

LEMMA InitRun == Init => RunInv /\ PassedInv
BY DEF Init, RunInv, PassedInv, Passed

(* The steps of a run keep what is true of the runs of other entries.      *)
LEMMA RunNext ==
  ASSUME TypeOK, RunInv, [Next]_vars
  PROVE  RunInv'
<1> USE DEF TypeOK, RunInv
<1>1. ASSUME NEW e \in Entries, NEW k \in Keys, Backup(e, k) \/ Expire(e, k)
      PROVE  RunInv'
  BY <1>1 DEF Backup, Expire
<1>2. ASSUME NEW e \in Entries, RequestDeletion(e) \/ Begin(e)
      PROVE  RunInv'
  BY <1>2 DEF RequestDeletion, Begin
<1>3. ASSUME NEW e \in Entries, NextPage(e)
      PROVE  RunInv'
  <2>1. page'[e] \subseteq KeysOf(e)
    BY <1>3, PageListed
  <2>2. QED
    BY <1>3, <2>1 DEF NextPage
<1>4. ASSUME NEW e \in Entries, DeleteObjects(e) \/ DeleteObjectsNoSuchKey(e)
      PROVE  RunInv'
  BY <1>4 DEF DeleteObjects, DeleteObjectsNoSuchKey
<1>5. ASSUME NEW e \in Entries, NoMorePages(e)
      PROVE  RunInv'
  BY <1>5 DEF NoMorePages
<1>6. ASSUME NEW e \in Entries, Release(e) \/ Abort(e) \/ DeleteObjectsFails(e)
      PROVE  RunInv'
  BY <1>6 DEF Release, Abort, DeleteObjectsFails, Stop
<1>7. CASE UNCHANGED vars
  BY <1>7 DEF vars
<1>8. QED
  BY <1>1, <1>2, <1>3, <1>4, <1>5, <1>6, <1>7 DEF Next, RunStep, Fail

(* Backups have one entry. *)
LEMMA DirectoriesDiffer ==
  ASSUME NEW e \in Entries, NEW f \in Entries, Directory(e) = Directory(f)
  PROVE  e = f
<1>1. e \in Seq(ToSet(e) \ {"/"}) /\ f \in Seq(ToSet(f) \ {"/"})
  BY EntriesAssumption
<1>2. Len(Directory(f)) \in Nat
  BY <1>1 DEF Directory
<1>3. IsPrefix(Prefix(e), Directory(f))
  BY <1>2 DEF IsPrefix, Prefix, Directory
<1>4. QED
  BY <1>3, PrefixesDiffer

(***************************************************************************)
(* A step is of one entry: it adds a backup to that entry only, and only   *)
(* while nothing deletes it, and leaves the runs of others alone.          *)
(***************************************************************************)
LEMMA OthersUndisturbed ==
  ASSUME TypeOK, NEW e \in Entries, NEW f \in Entries, f # e,
         \/ \E k \in Keys : Backup(e, k) \/ Expire(e, k)
         \/ RequestDeletion(e) \/ Begin(e) \/ RunStep(e) \/ Fail(e)
  PROVE  /\ phase'[f] = phase[f] /\ pc'[f] = pc[f] /\ after'[f] = after[f]
         /\ more'[f] = more[f] /\ page'[f] = page[f]
         /\ store' \cap KeysOf(f) \subseteq store
         /\ hidden \subseteq hidden'
<1>1. \A k \in KeysOf(e) : k \notin KeysOf(f)
  BY DirectoriesDiffer DEF KeysOf
<1>2. /\ phase'[f] = phase[f] /\ pc'[f] = pc[f] /\ after'[f] = after[f]
      /\ more'[f] = more[f] /\ page'[f] = page[f]
  BY DEF TypeOK, Backup, Expire, RequestDeletion, Begin, RunStep, Fail, NextPage,
     DeleteObjects, DeleteObjectsNoSuchKey, NoMorePages, Release, Abort,
     DeleteObjectsFails, Stop
<1>3. store' \cap KeysOf(f) \subseteq store /\ hidden \subseteq hidden'
  BY <1>1 DEF Backup, Expire, RequestDeletion, Begin, RunStep, Fail, NextPage,
     DeleteObjects, DeleteObjectsNoSuchKey, NoMorePages, Release, Abort,
     DeleteObjectsFails, Stop
<1>4. QED
  BY <1>2, <1>3

(* The steps of an entry itself, unless an error is taken for success.     *)
LEMMA OwnStep ==
  ASSUME TypeOK, RunInv, NEW e \in Entries, e \notin hidden', e \notin hidden => Passed(e),
         \/ \E k \in Keys : Backup(e, k) \/ Expire(e, k)
         \/ RequestDeletion(e) \/ Begin(e) \/ RunStep(e) \/ Fail(e)
  PROVE  Passed(e)'
<1> USE DEF TypeOK, RunInv, Passed
<1>1. ASSUME NEW k \in Keys, Backup(e, k) \/ Expire(e, k)
      PROVE  Passed(e)'
  BY <1>1 DEF Backup, Expire
<1>2. CASE RequestDeletion(e)
  BY <1>2 DEF RequestDeletion
<1>3. CASE Begin(e)
  <2>1. /\ pc'[e] = "list" /\ after'[e] = 0 /\ more'[e] /\ phase'[e] = "deleting"
        /\ store' = store
    BY <1>3 DEF Begin
  <2>2. \A k \in store \cap KeysOf(e) : ~(k.num <= 0)
    BY EntriesAssumption DEF KeysOf, Keys
  <2>3. QED
    BY <2>1, <2>2
<1>4. CASE NextPage(e)
  <2>1. /\ pc'[e] = "delete" /\ phase'[e] = "deleting" /\ store' = store
        /\ pc[e] = "list" /\ page[e] = {} /\ e \notin hidden
    BY <1>4 DEF NextPage
  <2>2. \A k \in store \cap KeysOf(e) : ~(k.num <= after[e])
    BY <2>1
  <2>3. \A k \in store \cap KeysOf(e) :
          (k.num <= after'[e] => k \in page'[e]) /\ (~more'[e] => k \in page'[e])
    BY <1>4, <2>2, PageListed
  <2>4. QED
    BY <2>1, <2>3
<1>5. CASE DeleteObjects(e)
  <2>1. PICK failed \in IF "keyErrors" \in StoreAnswers THEN SUBSET page[e] ELSE {{}} :
          /\ store'  = store \ (page[e] \ failed)
          /\ hidden' = IF failed = {} THEN hidden ELSE hidden \cup {e}
    BY <1>5 DEF DeleteObjects
  <2>2. store' = store \ page[e] /\ e \notin hidden
    BY <2>1
  <2>3. /\ pc[e] = "delete" /\ pc'[e] = "list" /\ after' = after /\ more' = more
        /\ phase' = phase
    BY <1>5 DEF DeleteObjects
  <2>4. QED
    BY <2>2, <2>3
<1>6. CASE NoMorePages(e)
  <2>1. store \cap KeysOf(e) = {}
    BY <1>6 DEF NoMorePages
  <2>2. QED
    BY <1>6, <2>1 DEF NoMorePages
<1>7. CASE DeleteObjectsNoSuchKey(e)
  BY <1>7 DEF DeleteObjectsNoSuchKey
<1>8. CASE Release(e)
  <2>1. store' \cap KeysOf(e) = {}
    BY <1>8 DEF Release
  <2>2. QED
    BY <2>1
<1>9. CASE Abort(e) \/ DeleteObjectsFails(e)
  BY <1>9 DEF Abort, DeleteObjectsFails, Stop
<1>10. QED
  BY <1>1, <1>2, <1>3, <1>4, <1>5, <1>6, <1>7, <1>8, <1>9 DEF RunStep, Fail

LEMMA PassedNext ==
  ASSUME TypeOK, RunInv, PassedInv, [Next]_vars
  PROVE  PassedInv'
<1>1. CASE UNCHANGED vars
  BY <1>1 DEF vars, PassedInv, Passed
<1>2. CASE Next
  <2>1. PICK e \in Entries :
          \/ \E k \in Keys : Backup(e, k) \/ Expire(e, k)
          \/ RequestDeletion(e) \/ Begin(e) \/ RunStep(e) \/ Fail(e)
    BY <1>2 DEF Next
  <2> SUFFICES ASSUME NEW f \in Entries, f \notin hidden'
               PROVE  Passed(f)'
    BY DEF PassedInv
  <2>2. CASE f = e
    BY <2>1, <2>2, OwnStep DEF PassedInv
  <2>3. CASE f # e
    BY <2>1, <2>3, OthersUndisturbed DEF PassedInv, Passed
  <2>4. QED
    BY <2>2, <2>3
<1>3. QED
  BY <1>1, <1>2

(* Once an entry is gone so are its backups, unless an error of the store  *)
(* was taken for success.                                                  *)
THEOREM BackupsAreGone == Spec => []DeletedMeansGone
<1>1. PassedInv => DeletedMeansGone
  BY DEF PassedInv, Passed, DeletedMeansGone
<1>2. QED
  BY <1>1, TypeCorrect, InitRun, RunNext, PassedNext, PTL DEF Spec

(* No backup of an entry that is there is deleted by the run of another.   *)
THEOREM OthersAreKept == Spec => BackupsAreKept
<1> DEFINE Kept == \A e \in Entries : phase[e] = "present" => KeysOf(e) \cap store \subseteq store'
<1>1. ASSUME TypeOK, RunInv, [Next]_vars
      PROVE  [Kept]_vars
  <2>1. CASE UNCHANGED vars
    BY <2>1
  <2>2. CASE Next
    <3> SUFFICES ASSUME NEW e \in Entries, phase[e] = "present",
                        NEW k \in KeysOf(e) \cap store, k \notin store'
                 PROVE  FALSE
      BY <2>2
    <3>1. PICK f \in Entries :
            \/ \E j \in Keys : Backup(f, j) \/ Expire(f, j)
            \/ RequestDeletion(f) \/ Begin(f) \/ RunStep(f) \/ Fail(f)
      BY <2>2 DEF Next
    <3>2. k \in KeysOf(f) /\ phase[f] = "deleting"
      <4>1. CASE \E j \in Keys : Backup(f, j) \/ Expire(f, j)
        BY <4>1 DEF Backup, Expire
      <4>2. CASE DeleteObjects(f) \/ DeleteObjectsFails(f)
        <5>1. k \in page[f] /\ pc[f] = "delete"
          BY <4>2 DEF DeleteObjects, DeleteObjectsFails
        <5>2. QED
          BY <1>1, <5>1 DEF RunInv
      <4>3. CASE store' = store
        BY <4>3
      <4>4. QED
        BY <3>1, <4>1, <4>2, <4>3 DEF RequestDeletion, Begin, RunStep, Fail, NextPage,
           DeleteObjectsNoSuchKey, NoMorePages, Release, Abort
    <3>3. e = f
      BY <3>2, DirectoriesDiffer DEF KeysOf
    <3>4. QED
      BY <3>2, <3>3
  <2>3. QED
    BY <1>1, <2>1, <2>2
<1>2. QED
  BY <1>1, TypeCorrect, InitRun, RunNext, PTL DEF Spec, BackupsAreKept
=============================================================================
