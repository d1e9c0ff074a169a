------------------------- MODULE EvidenceStoreProofs -------------------------
(***************************************************************************)
(* What holds of EvidenceStore for any number of artifacts, writers,       *)
(* retention jobs, requests and faults.                                    *)
(***************************************************************************)
EXTENDS EvidenceStore, TLAPS

(* A row is in an open transaction or committed, never both, and a file that *)
(* is being written belongs to the open transaction of its writer.           *)
OpenRows ==
  /\ \A e \in Evidence : author[e] # NoWriter => e \in used /\ e \notin committed
  /\ \A w \in Writers : writing[w] # NoEvidence => author[writing[w]] = w
  /\ \A e \in Evidence :
       author[e] # NoWriter => file[e] = "present" \/ writing[author[e]] = e

(* Retention jobs and requests are about committed rows, retention jobs      *)
(* about expired ones only, and what they have visited is gone.  No          *)
(* committed row has half a file, and no row is marked before it has expired.*)
Visits ==
  /\ \A p \in Purgers : batch[p] \subseteq committed \intersect expired
  /\ \A p \in Purgers : done[p] \subseteq committed \intersect expired
  /\ \A p \in Purgers : \A e \in done[p] : file[e] = "absent"
  /\ \A r \in Requests : rpc[r] # "idle" => rid[r] \in committed
  /\ deleted \subseteq expired /\ \A e \in committed : file[e] # "temporary"

Inv == /\ TypeOK /\ OpenRows /\ Visits
       /\ LiveEvidenceHasFile /\ DeletedHasNoFile

LEMMA InvInit == Init => Inv
BY EvidenceAssumption
   DEF Init, Inv, TypeOK, OpenRows, Visits, LiveEvidenceHasFile, DeletedHasNoFile

-----------------------------------------------------------------------------
(* The writers: only files of uncommitted rows change, and a row is          *)
(* committed with its file in place.                                         *)
LEMMA WriterStep ==
  ASSUME Inv, NEW w \in Writers,
         Write(w) \/ AbandonRows(w) \/ \E e \in Evidence : InsertRow(w, e)
  PROVE  Inv'
<1> USE EvidenceAssumption
    DEF Inv, TypeOK, OpenRows, Visits, LiveEvidenceHasFile, DeletedHasNoFile,
        rows, writers, purgers, requests
<1>1. ASSUME NEW e \in Evidence, InsertRow(w, e) PROVE Inv'
  BY <1>1 DEF InsertRow
<1>2. CASE WriteTemporary(w)
  <2>1. writing[w] \in Evidence /\ writing[w] \notin committed
    BY <1>2 DEF WriteTemporary
  <2>2. QED
    BY <1>2, <2>1 DEF WriteTemporary
<1>3. CASE ReplaceFile(w)
  <2>1. writing[w] \in Evidence /\ writing[w] \notin committed
    BY <1>3 DEF ReplaceFile
  <2>2. QED
    BY <1>3, <2>1 DEF ReplaceFile
<1>4. CASE CommitRows(w)
  <2>1. \A e \in Written(w) : e \in used /\ file[e] = "present" /\ e \notin committed
    BY <1>4 DEF CommitRows, CommitReady, Written
  <2>2. \A e \in Evidence : author'[e] = IF author[e] = w THEN NoWriter ELSE author[e]
    BY <1>4 DEF CommitRows
  <2>3. committed' = committed \union Written(w)
    BY <1>4 DEF CommitRows
  <2>4. \A e \in Evidence : author[e] = w => e \in Written(w)
    BY DEF Written
  <2>5. author' \in [Evidence -> Writers \union {NoWriter}]
    BY <1>4 DEF CommitRows
  <2>6. UNCHANGED <<hold, expired, deleted, file, writing, used, purgers, requests, faults>>
    BY <1>4 DEF CommitRows
  <2>7. \A e \in Written(w) : e \in Evidence /\ author[e] = w
    BY DEF Written
  <2> HIDE DEF Written
  <2>8. TypeOK'
    BY <2>1, <2>3, <2>5, <2>6
  <2>9. OpenRows'
    BY <1>4, <2>2, <2>3, <2>4, <2>6, <2>7 DEF CommitRows, CommitReady
  <2>10. QED
    BY <2>1, <2>3, <2>6, <2>8, <2>9
<1>5. CASE AbandonRows(w)
  <2>1. \A e \in Evidence : author'[e] = IF author[e] = w THEN NoWriter ELSE author[e]
    BY <1>5 DEF AbandonRows
  <2>2. /\ \A e \in committed : file'[e] = file[e]
        /\ \A e \in Evidence : author'[e] # NoWriter => file'[e] = file[e]
        /\ file' \in [Evidence -> {"absent", "temporary", "present"}]
    BY <1>5 DEF AbandonRows
  <2>3. QED
    BY <1>5, <2>1, <2>2 DEF AbandonRows, Fault
<1>6. QED
  BY <1>1, <1>2, <1>3, <1>4, <1>5 DEF Write

(* The retention jobs: only expired rows lose their file, and only rows      *)
(* without a file are marked.                                                *)
LEMMA PurgerStep ==
  ASSUME Inv, NEW p \in Purgers, PurgeSelect(p) \/ Purge(p) \/ PurgeCrash(p)
  PROVE  Inv'
<1> USE EvidenceAssumption
    DEF Inv, TypeOK, OpenRows, Visits, LiveEvidenceHasFile, DeletedHasNoFile,
        rows, writers, purgers, requests
<1>1. CASE PurgeSelect(p)
  BY <1>1 DEF PurgeSelect, Purgeable
<1>2. CASE PurgeCommit(p)
  BY <1>2 DEF PurgeCommit
<1>3. CASE PurgeCrash(p)
  BY <1>3 DEF PurgeCrash, Fault
<1>4. ASSUME NEW e \in Evidence, PurgeUnlink(p, e) PROVE Inv'
  BY <1>4 DEF PurgeUnlink
<1>5. ASSUME NEW e \in Evidence, PurgeSkip(p, e) PROVE Inv'
  BY <1>5 DEF PurgeSkip, Fault, DoneOnError
<1>6. QED
  BY <1>1, <1>2, <1>3, <1>4, <1>5 DEF Purge

LEMMA InvNext == Inv /\ [Next]_vars => Inv'
<1> SUFFICES ASSUME Inv, [Next]_vars PROVE Inv'
  OBVIOUS
<1> USE EvidenceAssumption
<1>1. ASSUME NEW e \in Evidence, Expire(e) PROVE Inv'
  BY <1>1 DEF Inv, TypeOK, OpenRows, Visits, LiveEvidenceHasFile, DeletedHasNoFile,
              Expire, writers, purgers, requests
<1>2. ASSUME NEW r \in Requests, NEW e \in Evidence, NEW a \in {"hold", "release"},
             HoldRead(r, e, a)
      PROVE  Inv'
  BY <1>2 DEF Inv, TypeOK, OpenRows, Visits, LiveEvidenceHasFile, DeletedHasNoFile,
              HoldRead, rows, writers, purgers
<1>3. ASSUME NEW r \in Requests, HoldCommit(r) PROVE Inv'
  BY <1>3 DEF Inv, TypeOK, OpenRows, Visits, LiveEvidenceHasFile, DeletedHasNoFile,
              HoldCommit, writers, purgers
<1>4. CASE UNCHANGED vars
  BY <1>4 DEF Inv, TypeOK, OpenRows, Visits, LiveEvidenceHasFile, DeletedHasNoFile,
              vars, rows, writers, purgers, requests
<1>5. QED
  BY <1>1, <1>2, <1>3, <1>4, WriterStep, PurgerStep DEF Next

LEMMA Invariant == Spec => []Inv
BY InvInit, InvNext, PTL DEF Spec

-----------------------------------------------------------------------------
(* Type correctness: rows, files, transactions, purges and requests.         *)
THEOREM TypeCorrect == Spec => []TypeOK
<1>1. Inv => TypeOK
  BY DEF Inv
<1>2. QED
  BY <1>1, Invariant, PTL

(* A committed row that has not expired has its file, whatever transactions  *)
(* are abandoned and whatever purges run beside it.                          *)
THEOREM LiveRowsHaveFiles == Spec => []LiveEvidenceHasFile
<1>1. Inv => LiveEvidenceHasFile
  BY DEF Inv
<1>2. QED
  BY <1>1, Invariant, PTL

(* A row marked deleted has no file left, with any number of purges at once  *)
(* and errors of unlink in any of them.                                      *)
THEOREM DeletedRowsHaveNone == Spec => []DeletedHasNoFile
<1>1. Inv => DeletedHasNoFile
  BY DEF Inv
<1>2. QED
  BY <1>1, Invariant, PTL

-----------------------------------------------------------------------------
(* A step that changes neither the rows nor the files of committed artifacts *)
(* is none of the abstract life.                                             *)
LEMMA NothingSeen ==
  ASSUME UNCHANGED <<committed, expired, deleted>>, \A e \in committed : file'[e] = file[e],
         NEW e \in Evidence
  PROVE  ArtifactState(e)' = ArtifactState(e)
BY DEF ArtifactState

(* A commit makes its artifacts readable, all at once, and no other.         *)
LEMMA CommitStores ==
  ASSUME Inv, NEW w \in Writers, CommitRows(w)
  PROVE  /\ \A e \in Written(w) : ArtifactState(e) = "none" /\ ArtifactState(e)' = "readable"
         /\ \A e \in Evidence \ Written(w) : ArtifactState(e)' = ArtifactState(e)
<1>1. /\ committed' = committed \union Written(w)
      /\ UNCHANGED <<expired, deleted, file>>
  BY DEF CommitRows
<1>2. \A e \in Written(w) : /\ e \in Evidence /\ e \notin committed /\ file[e] = "present"
                            /\ e \notin expired /\ e \notin deleted
  BY EvidenceAssumption DEF CommitRows, CommitReady, Written, Inv, TypeOK, OpenRows
<1> HIDE DEF Written
<1>3. ASSUME NEW e \in Written(w) PROVE ArtifactState(e) = "none" /\ ArtifactState(e)' = "readable"
  <2>1. /\ e \notin committed /\ e \in committed' /\ e \notin expired' /\ e \notin deleted'
        /\ file'[e] = "present"
    BY <1>1, <1>2
  <2>2. QED
    BY <2>1 DEF ArtifactState
<1>4. ASSUME NEW e \in Evidence \ Written(w) PROVE ArtifactState(e)' = ArtifactState(e)
  <2>1. e \in committed <=> e \in committed'
    BY <1>1
  <2>2. QED
    BY <1>1, <2>1 DEF ArtifactState
<1>5. QED
  BY <1>3, <1>4

(* Each step of a retention job is one of removal, of marking or of neither. *)
LEMMA PurgeMoves ==
  ASSUME Inv, NEW p \in Purgers, NEW e \in Evidence, PurgeUnlink(p, e)
  PROVE  /\ \/ ArtifactState(e) = "due" /\ ArtifactState(e)' = "removed"
            \/ ArtifactState(e)' = ArtifactState(e)
         /\ \A d \in Evidence \ {e} : ArtifactState(d)' = ArtifactState(d)
<1>1. /\ UNCHANGED <<committed, expired, deleted>> /\ e \in committed /\ e \in expired
      /\ file'[e] = "absent" /\ \A d \in Evidence \ {e} : file'[d] = file[d]
      /\ file[e] \in {"absent", "present"} /\ (e \in deleted => file[e] = "absent")
  BY DEF PurgeUnlink, rows, Inv, TypeOK, Visits, DeletedHasNoFile
<1>2. QED
  BY <1>1 DEF ArtifactState

LEMMA PurgeMarks ==
  ASSUME Inv, NEW p \in Purgers, PurgeCommit(p)
  PROVE  /\ \A e \in done[p] : /\ ArtifactState(e) \in {"removed", "deleted"}
                               /\ ArtifactState(e)' = "deleted"
         /\ \A e \in Evidence \ done[p] : ArtifactState(e)' = ArtifactState(e)
<1>1. /\ UNCHANGED <<committed, expired, file>> /\ deleted' = deleted \union done[p]
      /\ \A e \in done[p] : e \in committed /\ e \in expired /\ file[e] = "absent"
  BY DEF PurgeCommit, Inv, Visits
<1>2. ASSUME NEW e \in done[p]
      PROVE  ArtifactState(e) \in {"removed", "deleted"} /\ ArtifactState(e)' = "deleted"
  <2>1. /\ e \in committed /\ e \in expired /\ file[e] = "absent"
        /\ e \in committed' /\ e \in expired' /\ file'[e] = "absent" /\ e \in deleted'
    BY <1>1
  <2>2. QED
    BY <2>1 DEF ArtifactState
<1>3. ASSUME NEW e \in Evidence \ done[p] PROVE ArtifactState(e)' = ArtifactState(e)
  <2>1. e \in deleted <=> e \in deleted'
    BY <1>1
  <2>2. QED
    BY <1>1, <2>1 DEF ArtifactState
<1>4. QED
  BY <1>2, <1>3

(* The store implements ArtifactLifecycle: no rollback, crash, unlink error  *)
(* or overlap of retention jobs lets an artifact be read before its file is  *)
(* there, lose its file before it is due, be marked while it has one, or     *)
(* come back.                                                                *)
THEOREM StoreImplementsLifecycle == Spec => ArtifactSpec
<1> DEFINE state == [e \in Evidence |-> ArtifactState(e)]
<1>1. Init => Artifacts!Init
  <2> SUFFICES ASSUME Init PROVE \A e \in Evidence : ArtifactState(e) = "none"
    BY DEF Artifacts!Init
  <2>1. QED
    BY DEF Init, ArtifactState
<1>2. ASSUME Inv, [Next]_vars PROVE [Artifacts!Next]_state
  <2>1. ASSUME \A e \in Evidence : ArtifactState(e)' = ArtifactState(e) PROVE state' = state
    BY <2>1
  <2>2. ASSUME NEW w \in Writers, CommitRows(w) PROVE Artifacts!Next
    <3>1. Written(w) \in SUBSET Evidence
      BY DEF Written
    <3>2. Artifacts!Store(Written(w))
      BY <1>2, <2>2, <3>1, CommitStores DEF Artifacts!Store, Artifacts!Becomes
    <3>3. QED
      BY <3>1, <3>2 DEF Artifacts!Next
  <2>3. ASSUME NEW w \in Writers,
               WriteTemporary(w) \/ ReplaceFile(w) \/ AbandonRows(w)
                 \/ \E e \in Evidence : InsertRow(w, e)
        PROVE  state' = state
    <3>1. UNCHANGED <<committed, expired, deleted>>
      BY <2>3 DEF WriteTemporary, ReplaceFile, AbandonRows, InsertRow, rows
    <3>2. \A e \in committed : file'[e] = file[e]
      BY <1>2, <2>3, EvidenceAssumption
         DEF WriteTemporary, ReplaceFile, AbandonRows, InsertRow, Inv, TypeOK, OpenRows
    <3>3. QED
      BY <2>1, <3>1, <3>2, NothingSeen
  <2>4. ASSUME NEW e \in Evidence, Expire(e) PROVE Artifacts!Next
    <3>1. /\ ArtifactState(e) = "readable" /\ ArtifactState(e)' = "due"
          /\ \A d \in Evidence \ {e} : ArtifactState(d)' = ArtifactState(d)
      <4>1. /\ e \in committed /\ e \notin expired /\ e \notin deleted /\ file[e] = "present"
            /\ e \in committed' /\ e \in expired' /\ e \notin deleted' /\ file'[e] = "present"
        BY <1>2, <2>4 DEF Expire, Inv, Visits, LiveEvidenceHasFile
      <4>2. ASSUME NEW d \in Evidence \ {e} PROVE ArtifactState(d)' = ArtifactState(d)
        <5>1. UNCHANGED <<committed, deleted, file>> /\ (d \in expired <=> d \in expired')
          BY <2>4 DEF Expire
        <5>2. QED
          BY <5>1 DEF ArtifactState
      <4>3. ArtifactState(e) = "readable" /\ ArtifactState(e)' = "due"
        BY <4>1 DEF ArtifactState
      <4>4. QED
        BY <4>2, <4>3
    <3>2. Artifacts!Expire(e)
      BY <3>1 DEF Artifacts!Expire, Artifacts!Becomes
    <3>3. QED
      BY <3>2 DEF Artifacts!Next
  <2>5. ASSUME NEW p \in Purgers, NEW e \in Evidence, PurgeUnlink(p, e)
        PROVE  Artifacts!Next \/ state' = state
    <3>1. CASE ArtifactState(e)' = ArtifactState(e)
      BY <1>2, <2>1, <2>5, <3>1, PurgeMoves
    <3>2. CASE ArtifactState(e) = "due" /\ ArtifactState(e)' = "removed"
      <4>1. Artifacts!Remove(e)
        BY <1>2, <2>5, <3>2, PurgeMoves DEF Artifacts!Remove, Artifacts!Becomes
      <4>2. QED
        BY <4>1 DEF Artifacts!Next
    <3>3. QED
      BY <1>2, <2>5, <3>1, <3>2, PurgeMoves
  <2>6. ASSUME NEW p \in Purgers, PurgeCommit(p) PROVE Artifacts!Next
    <3>1. done[p] \in SUBSET Evidence
      BY <1>2 DEF Inv, TypeOK
    <3>2. Artifacts!Mark(done[p])
      BY <1>2, <2>6, <3>1, PurgeMarks DEF Artifacts!Mark, Artifacts!Becomes
    <3>3. QED
      BY <3>1, <3>2 DEF Artifacts!Next
  <2>7. ASSUME UNCHANGED <<committed, expired, deleted, file>> PROVE state' = state
    BY <2>1, <2>7, NothingSeen
  <2>8. ASSUME NEW p \in Purgers, PurgeSelect(p) \/ PurgeCrash(p)
                                   \/ \E e \in Evidence : PurgeSkip(p, e)
        PROVE  state' = state
    BY <2>7, <2>8 DEF PurgeSelect, PurgeCrash, PurgeSkip, rows
  <2>9. ASSUME NEW r \in Requests,
               HoldCommit(r) \/ \E e \in Evidence, a \in {"hold", "release"} : HoldRead(r, e, a)
        PROVE  state' = state
    BY <2>7, <2>9 DEF HoldCommit, HoldRead, rows
  <2>10. CASE UNCHANGED vars
    BY <2>7, <2>10 DEF vars, rows
  <2> HIDE DEF state
  <2>11. QED
    BY <1>2, <2>2, <2>3, <2>4, <2>5, <2>6, <2>8, <2>9, <2>10 DEF Next, Write, Purge
<1>3. QED
  BY <1>1, <1>2, InvInit, InvNext, PTL DEF Spec, ArtifactSpec, Artifacts!Spec
=============================================================================
