---------------------------- MODULE EvidenceStore ----------------------------
(***************************************************************************)
(* Evidence is a row in the database and a file on a volume that no        *)
(* transaction covers (bbpipeline/evidence.py), written by workers and by  *)
(* manual verifications, purged by the daily retention job and held or     *)
(* released through the API.                                               *)
(***************************************************************************)
EXTENDS Naturals

CONSTANTS Evidence,   \* evidence ids
          Writers,    \* transactions that store evidence
          Purgers,    \* retention jobs running at the same time
          Requests,   \* concurrent POST /evidence/{id}/action
          MaxFaults,  \* bound on rollbacks, crashes and unlink errors
          NoWriter, NoEvidence

ASSUME EvidenceAssumption ==
  MaxFaults \in Nat /\ NoWriter \notin Writers /\ NoEvidence \notin Evidence

VARIABLES
  committed,   \* ids whose row is committed
  hold, expired, deleted,   \* ids with hold, expires_at < now, deleted_at set
  file,        \* id -> what is in its directory on the volume
  author,      \* id -> the open transaction that has inserted its row
  writing,     \* writer -> the id inside write_bytes
  used,        \* ids generated so far
  batch, done, \* purger -> rows still to visit, rows visited and unlinked
  ppc,         \* purger: "idle" or "purging"
  rpc, rid,    \* request: "idle" or the action past its guard; its evidence
  rseen,       \* request: the hold it loaded
  faults

rows == <<committed, hold, expired, deleted>>
writers == <<author, writing, used>>
purgers == <<batch, done, ppc>>
requests == <<rpc, rid, rseen>>
vars == <<rows, file, writers, purgers, requests, faults>>

TypeOK ==
  /\ committed \subseteq used /\ hold \subseteq committed
  /\ expired \subseteq committed /\ deleted \subseteq committed
  /\ file \in [Evidence -> {"absent", "temporary", "present"}]
  /\ author \in [Evidence -> Writers \union {NoWriter}]
  /\ writing \in [Writers -> Evidence \union {NoEvidence}] /\ used \subseteq Evidence
  /\ batch \in [Purgers -> SUBSET Evidence] /\ done \in [Purgers -> SUBSET Evidence]
  /\ ppc \in [Purgers -> {"idle", "purging"}]
  /\ rpc \in [Requests -> {"idle", "hold", "release"}]
  /\ rid \in [Requests -> Evidence \union {NoEvidence}]
  /\ rseen \in [Requests -> BOOLEAN] /\ faults \in 0 .. MaxFaults

Init ==
  /\ committed = {} /\ hold = {} /\ expired = {} /\ deleted = {} /\ used = {}
  /\ file = [e \in Evidence |-> "absent"] /\ author = [e \in Evidence |-> NoWriter]
  /\ writing = [w \in Writers |-> NoEvidence]
  /\ batch = [p \in Purgers |-> {}] /\ done = [p \in Purgers |-> {}]
  /\ ppc = [p \in Purgers |-> "idle"]
  /\ rpc = [r \in Requests |-> "idle"] /\ rid = [r \in Requests |-> NoEvidence]
  /\ rseen = [r \in Requests |-> FALSE] /\ faults = 0

Fault == faults < MaxFaults /\ faults' = faults + 1
Written(w) == {e \in Evidence : author[e] = w}

-----------------------------------------------------------------------------
(* write_bytes: the row goes in first, under the relative_path "pending".    *)
(* That column is unique, so a second transaction waits until the first has  *)
(* ended, even after the first has replaced the value.                       *)
InsertRow(w, e) ==
  /\ e \notin used /\ writing[w] = NoEvidence
  /\ \A v \in Writers \ {w} : Written(v) = {}
  /\ used' = used \union {e} /\ author' = [author EXCEPT ![e] = w]
  /\ writing' = [writing EXCEPT ![w] = e]
  /\ UNCHANGED <<rows, file, purgers, requests, faults>>

WriteTemporary(w) ==
  /\ writing[w] # NoEvidence /\ file[writing[w]] = "absent"
  /\ file' = [file EXCEPT ![writing[w]] = "temporary"]
  /\ UNCHANGED <<rows, writers, purgers, requests, faults>>

(* os.replace, and the row gets its real path. *)
ReplaceFile(w) ==
  /\ writing[w] # NoEvidence /\ file[writing[w]] = "temporary"
  /\ file' = [file EXCEPT ![writing[w]] = "present"]
  /\ writing' = [writing EXCEPT ![w] = NoEvidence]
  /\ UNCHANGED <<rows, author, used, purgers, requests, faults>>

CommitReady_Early(w) == TRUE
CommitReady(w) == writing[w] = NoEvidence

(* The caller's transaction, which may have stored several artifacts. *)
CommitRows(w) ==
  /\ Written(w) # {} /\ CommitReady(w)
  /\ committed' = committed \union Written(w)
  /\ author' = [e \in Evidence |-> IF author[e] = w THEN NoWriter ELSE author[e]]
  /\ UNCHANGED <<hold, expired, deleted, file, writing, used, purgers, requests, faults>>

(* The job fails after storing evidence, inside write_bytes or later, or the *)
(* worker dies: the rows vanish, files that were replaced stay, and the      *)
(* finally clause removes a temporary file unless the process died.          *)
AbandonRows(w) ==
  /\ Written(w) # {} /\ Fault
  /\ author' = [e \in Evidence |-> IF author[e] = w THEN NoWriter ELSE author[e]]
  /\ writing' = [writing EXCEPT ![w] = NoEvidence]
  /\ \E died \in BOOLEAN :
       file' = [e \in Evidence |->
                  IF ~died /\ e = writing[w] /\ file[e] = "temporary" THEN "absent"
                  ELSE file[e]]
  /\ UNCHANGED <<rows, used, purgers, requests>>

-----------------------------------------------------------------------------
Expire(e) ==
  /\ e \in committed \ expired /\ expired' = expired \union {e}
  /\ UNCHANGED <<committed, hold, deleted, file, writers, purgers, requests, faults>>

Purgeable == (committed \intersect expired) \ (hold \union deleted)

(* purge_expired: the rows are selected once, without a lock. *)
PurgeSelect(p) ==
  /\ ppc[p] = "idle" /\ ppc' = [ppc EXCEPT ![p] = "purging"]
  /\ batch' = [batch EXCEPT ![p] = Purgeable] /\ done' = [done EXCEPT ![p] = {}]
  /\ UNCHANGED <<rows, file, writers, requests, faults>>

(* unlink(missing_ok=True) *)
Unlinks_NotMissing(e) == file[e] = "present"
Unlinks(e) == TRUE

PurgeUnlink(p, e) ==
  /\ e \in batch[p] /\ Unlinks(e) /\ batch' = [batch EXCEPT ![p] = @ \ {e}]
  /\ done' = [done EXCEPT ![p] = @ \union {e}]
  /\ file' = [file EXCEPT ![e] = "absent"]
  /\ UNCHANGED <<rows, writers, ppc, requests, faults>>

DoneOnError_Marked(p, e) == done[p] \union {e}
DoneOnError(p, e) == done[p]

(* An OSError leaves the row for the next purge. *)
PurgeSkip(p, e) ==
  /\ e \in batch[p] /\ (IF Unlinks(e) THEN Fault ELSE UNCHANGED faults)
  /\ batch' = [batch EXCEPT ![p] = @ \ {e}]
  /\ done' = [done EXCEPT ![p] = DoneOnError(p, e)]
  /\ UNCHANGED <<rows, file, writers, ppc, requests>>

(* Only deleted_at differs from the loaded rows: hold is not looked at again.*)
PurgeCommit(p) ==
  /\ ppc[p] = "purging" /\ batch[p] = {}
  /\ deleted' = deleted \union done[p]
  /\ ppc' = [ppc EXCEPT ![p] = "idle"] /\ done' = [done EXCEPT ![p] = {}]
  /\ UNCHANGED <<committed, hold, expired, file, writers, batch, requests, faults>>

PurgeCrash(p) ==
  /\ ppc[p] = "purging" /\ Fault
  /\ ppc' = [ppc EXCEPT ![p] = "idle"] /\ done' = [done EXCEPT ![p] = {}]
  /\ batch' = [batch EXCEPT ![p] = {}]
  /\ UNCHANGED <<rows, file, writers, requests>>

-----------------------------------------------------------------------------
(* evidence_action, 409 for holding a deleted row. *)
HoldRead(r, e, action) ==
  /\ rpc[r] = "idle" /\ e \in committed /\ (action = "hold" => e \notin deleted)
  /\ rpc' = [rpc EXCEPT ![r] = action] /\ rid' = [rid EXCEPT ![r] = e]
  /\ rseen' = [rseen EXCEPT ![r] = e \in hold]
  /\ UNCHANGED <<rows, file, writers, purgers, faults>>

HoldCommit(r) ==
  /\ rpc[r] # "idle"
  /\ hold' = IF rseen[r] = (rpc[r] = "hold") THEN hold
             ELSE IF rpc[r] = "hold" THEN hold \union {rid[r]} ELSE hold \ {rid[r]}
  /\ rpc' = [rpc EXCEPT ![r] = "idle"] /\ rid' = [rid EXCEPT ![r] = NoEvidence]
  /\ rseen' = [rseen EXCEPT ![r] = FALSE]
  /\ UNCHANGED <<committed, expired, deleted, file, writers, purgers, faults>>

-----------------------------------------------------------------------------
Write(w) == WriteTemporary(w) \/ ReplaceFile(w) \/ CommitRows(w)
Purge(p) == PurgeCommit(p) \/ \E e \in Evidence : PurgeUnlink(p, e) \/ PurgeSkip(p, e)

Next ==
  \/ \E w \in Writers : Write(w) \/ AbandonRows(w) \/ \E e \in Evidence : InsertRow(w, e)
  \/ \E e \in Evidence : Expire(e)
  \/ \E p \in Purgers : PurgeSelect(p) \/ Purge(p) \/ PurgeCrash(p)
  \/ \E r \in Requests : \/ \E e \in Evidence, a \in {"hold", "release"} : HoldRead(r, e, a)
                         \/ HoldCommit(r)

Spec == Init /\ [][Next]_vars

(* Rows expire, open transactions end, and the retention job runs every day. *)
FairSpec ==
  /\ Spec /\ \A w \in Writers : WF_vars(Write(w))
  /\ \A e \in Evidence : WF_vars(Expire(e))
  /\ \A p \in Purgers : WF_vars(PurgeSelect(p)) /\ WF_vars(Purge(p))
  /\ \A r \in Requests : WF_vars(HoldCommit(r))

-----------------------------------------------------------------------------
(* A committed row that has not expired always has its file, whatever fails  *)
(* while it is written or while other rows are purged.                       *)
LiveEvidenceHasFile == \A e \in committed \ expired : file[e] = "present"

(* A row marked deleted has no file left: the mark can be trusted.           *)
DeletedHasNoFile == \A e \in deleted : file[e] = "absent"

(* The store implements ArtifactLifecycle: an artifact is readable from the  *)
(* commit of its row until it expires, whatever is rolled back or dies while *)
(* it is written; only then does its file go, and for good; and only then,   *)
(* by whichever of the overlapping retention jobs, is the row marked. A row  *)
(* whose file is not as its columns say is "broken", which is no state there.*)
ArtifactState(e) ==
  LET due == (committed \intersect expired) \ deleted
  IN  CASE e \notin committed -> "none"
        [] e \in committed \ (expired \union deleted) /\ file[e] = "present" -> "readable"
        [] e \in due /\ file[e] = "present" -> "due"
        [] e \in due /\ file[e] = "absent" -> "removed"
        [] e \in committed \intersect expired \intersect deleted /\ file[e] = "absent" -> "deleted"
        [] OTHER -> "broken"
Artifacts == INSTANCE ArtifactLifecycle WITH state <- [e \in Evidence |-> ArtifactState(e)]
ArtifactSpec == Artifacts!Spec

(* A row that expires and is left unheld is deleted some day, also after a   *)
(* purge died between the unlink and its commit.                             *)
UnheldIsDeleted ==
  \A e \in Evidence : <>[](e \in committed /\ e \notin hold) => <>(e \in deleted)

(* "The daily retention job ... does not delete ... held evidence".          *)
HeldIsKept == \A e \in hold : file[e] = "present"
=============================================================================
