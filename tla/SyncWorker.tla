------------------------------ MODULE SyncWorker -----------------------------
(****************************************************************************)
(* The background thread of SyncService (src/src/sync.rs, worker_loop): it  *)
(* leases the operation that is due with the lowest id and runs it.  Each   *)
(* process_ function is a sequence of steps, one per critical section and   *)
(* one per network call; what it read before is in w.  A function that      *)
(* returns an error leaves its operation leased (Abandon).                   *)
(****************************************************************************)
EXTENDS SyncState

At(step) == w.pc = step
Goto(step) == w' = [w EXCEPT !.pc = step]
Finish == w' = IdleWorker
Abandon == Finish

Mine == RowOf(db, w.job.file)

(* A call that fails without effect.  Uploads, deletions and the like give  *)
(* the error to retry_or_fail.                                               *)
CallFails ==
    \E kind \in Fault \cap {"retry", "fatal"} :
        w' = [w EXCEPT !.pc = "fail", !.again = (kind = "retry")]

AnswerLost == "lost" \in Fault /\ w' = [w EXCEPT !.pc = "fail", !.again = TRUE]

CallAbandoned == Fault # {} /\ Abandon

Fail ==
    /\ At("fail")
    /\ db' = RetryOrFail(db, w.job, w.again)
    /\ Finish
    /\ UNCHANGED <<cache, born, remote, clock, th, edit, spent>>
-----------------------------------------------------------------------------
(* recover_expired_leases: the worker holds no lease when it runs, so every *)
(* lease it finds is one that an error or a crash left behind.               *)
RecoverLease ==
    /\ At("idle")
    /\ \E o \in db.queue : o.status = "Leased" /\ db' = SetStatus(db, o.id, "Pending")
    /\ UNCHANGED <<cache, born, remote, clock, th, w, edit, spent>>

Lease ==
    /\ At("idle")
    /\ \E o \in Leasable(db) :
          /\ db' = SetStatus(db, o.id, "Leased")
          /\ w' = [w EXCEPT !.pc = "start", !.job = [o EXCEPT !.status = "Leased"]]
    /\ UNCHANGED <<cache, born, remote, clock, th, edit, spent>>

(* lease_next_operation found nothing: sleep until the next poll.            *)
Poll == At("idle") /\ db.queue = {} /\ UNCHANGED vars

FirstStep == [Upload |-> "u_mark", Delete |-> "d_call", Mkdir |-> "m_call",
              Rename |-> "r_probe", RefreshTree |-> "f_list", Download |-> "l_mark"]

(* Where the function starts, and the row it reads there.  process_delete,  *)
(* process_rename and process_refresh_tree read none.                        *)
Start ==
    LET type == w.job.type
        found == IF type \in {"Upload", "Mkdir", "Download"} THEN Mine ELSE {RootRow}
        runs == \A r \in found : type = "Upload" => r.cached
    IN  /\ At("start")
        /\ IF found # {} /\ \E r \in found : r.sync = "Conflict" /\ type = "Upload"
           THEN Goto("u_finish")
           ELSE IF found # {} /\ runs
           THEN w' = [w EXCEPT !.pc = FirstStep[type], !.entry = The(found),
                               !.walk = {RootPath},
                               !.before = IF type = "RefreshTree" THEN spent.other ELSE 0]
           ELSE Abandon
        /\ UNCHANGED <<db, cache, born, remote, clock, th, edit, spent>>
-----------------------------------------------------------------------------
(* process_upload                                                           *)
UploadMark ==
    /\ At("u_mark")
    /\ db' = SetSync(db, w.job.file, "Uploading")
    /\ Goto("u_check")
    /\ UNCHANGED <<cache, born, remote, clock, th, edit, spent>>

UploadCheck ==
    LET found == Meta(remote, w.entry.path)
    IN  /\ At("u_check")
        /\ w' = [w EXCEPT !.meta = found,
                          !.pc = IF w.entry.ver = RemoteVersion(found)
                                 THEN "u_put" ELSE "u_conflict"]
        /\ UNCHANGED <<db, cache, born, remote, clock, th, edit, spent>>

(* handle_conflict: one transaction, rolled back when a statement fails.     *)
UploadConflict ==
    LET f == w.job.file
        from == w.entry.path
    IN  /\ At("u_conflict")
        /\ FileId \ born # {}
        /\ \E cp \in NextConflictPaths(db, from) :
              IF ConflictFails(db, f, from, cp)
              THEN Abandon /\ UNCHANGED <<db, born>>
              ELSE /\ db' = IF w.meta = {} THEN ApplyConflict(db, f, from, cp)
                            ELSE EnsureRemoteRow(ApplyConflict(db, f, from, cp),
                                                 The(w.meta), "Synced", FreshId)
                   /\ born' = IF w.meta = {} THEN born ELSE born \cup {FreshId}
                   /\ Goto("u_finish")
        /\ UNCHANGED <<cache, remote, clock, th, edit, spent>>

UploadFinish ==
    /\ At("u_finish")
    /\ db' = FinishJob(db, w.job.id)
    /\ Finish
    /\ UNCHANGED <<cache, born, remote, clock, th, edit, spent>>

(* resolve_upload_url and upload_file; without the cached file the call      *)
(* fails for good.                                                           *)
UploadPut ==
    LET f == w.job.file
    IN  /\ At("u_put")
        /\ IF cache[f] = NoData
           THEN /\ w' = [w EXCEPT !.pc = "fail", !.again = FALSE]
                /\ UNCHANGED <<remote, clock, edit, spent>>
           ELSE /\ remote' = PutFile(remote, w.entry.path, cache[f], clock + 1)
                /\ Tick
                /\ edit' = [edit EXCEPT ![f] = NoData]
                /\ \/ Goto("u_fetch") /\ UNCHANGED spent
                   \/ AnswerLost /\ Spend("fault")
        /\ UNCHANGED <<db, cache, born, th>>

UploadFetch ==
    LET found == Meta(remote, w.entry.path)
    IN  /\ At("u_fetch")
        /\ w' = IF found = {} THEN [w EXCEPT !.pc = "fail", !.again = FALSE]
                ELSE [w EXCEPT !.pc = "u_commit", !.meta = found]
        /\ UNCHANGED <<db, cache, born, remote, clock, th, edit, spent>>

(* The last critical section of uploads, mkdirs and renames: the row is      *)
(* Synced at the version just fetched and the job is Done.                   *)
CommitSynced ==
    /\ db' = DropOp(IF w.meta = {} THEN db
                    ELSE SetSynced(db, w.job.file, RemoteVersion(w.meta)), w.job.id)
    /\ Finish
    /\ UNCHANGED <<cache, born, remote, clock, th, edit, spent>>

UploadCommit == At("u_commit") /\ CommitSynced
-----------------------------------------------------------------------------
(* process_delete: the path in the payload is removed, whatever is there.    *)
DeleteCall ==
    /\ At("d_call")
    /\ remote' = DeleteTree(remote, w.job.from)
    /\ \/ Goto("d_commit") /\ UNCHANGED spent
       \/ AnswerLost /\ Spend("fault")
    /\ UNCHANGED <<db, cache, born, clock, th, edit>>

DeleteCommit ==
    /\ At("d_commit")
    /\ db' = DeleteRow(DropOp(db, w.job.id), w.job.file)
    /\ Finish
    /\ UNCHANGED <<cache, born, remote, clock, th, edit, spent>>
-----------------------------------------------------------------------------
(* process_mkdir: only the creation goes through retry_or_fail.              *)
MkdirCall ==
    /\ At("m_call")
    /\ remote' = CreateDir(remote, w.entry.path, clock + 1)
    /\ Tick
    /\ \/ Goto("m_fetch") /\ UNCHANGED spent
       \/ AnswerLost /\ Spend("fault")
    /\ UNCHANGED <<db, cache, born, th, edit>>

MkdirFetch ==
    LET found == Meta(remote, w.entry.path)
    IN  /\ At("m_fetch")
        /\ IF found = {} THEN Abandon
           ELSE w' = [w EXCEPT !.pc = "m_commit", !.meta = found]
        /\ UNCHANGED <<db, cache, born, remote, clock, th, edit, spent>>

MkdirSynced == At("m_commit") /\ CommitSynced
-----------------------------------------------------------------------------
(* process_rename: when something is at the new path already, the old one   *)
(* is deleted instead of moved.                                              *)
RenameProbe ==
    /\ At("r_probe")
    /\ Goto(IF Exists(remote, w.job.to) THEN "r_delete" ELSE "r_move")
    /\ UNCHANGED <<db, cache, born, remote, clock, th, edit, spent>>

RenameDelete ==
    /\ At("r_delete")
    /\ remote' = DeleteTree(remote, w.job.from)
    /\ \/ Goto("r_fetch") /\ UNCHANGED spent
       \/ AnswerLost /\ Spend("fault")
    /\ UNCHANGED <<db, cache, born, clock, th, edit>>

RenameMove ==
    /\ At("r_move")
    /\ remote' = MoveTree(remote, w.job.from, w.job.to, clock + 1)
    /\ Tick
    /\ \/ Goto("r_fetch") /\ UNCHANGED spent
       \/ AnswerLost /\ Spend("fault")
    /\ UNCHANGED <<db, cache, born, th, edit>>

RenameFetch ==
    /\ At("r_fetch")
    /\ w' = [w EXCEPT !.pc = "r_commit", !.meta = Meta(remote, w.job.to)]
    /\ UNCHANGED <<db, cache, born, remote, clock, th, edit, spent>>

RenameSynced == At("r_commit") /\ CommitSynced
-----------------------------------------------------------------------------
(* process_download                                                         *)
DownloadMark ==
    /\ At("l_mark")
    /\ db' = SetSync(db, w.job.file, "Downloading")
    /\ Goto("l_get")
    /\ UNCHANGED <<cache, born, remote, clock, th, edit, spent>>

DownloadGet ==
    LET found == Meta(remote, w.entry.path)
    IN  /\ At("l_get")
        /\ w' = IF \E x \in found : x.kind = "File"
                THEN [w EXCEPT !.pc = "l_write", !.data = The(found).data]
                ELSE [w EXCEPT !.pc = "fail", !.again = FALSE]
        /\ UNCHANGED <<db, cache, born, remote, clock, th, edit, spent>>

DownloadWrite ==
    /\ At("l_write")
    /\ cache' = [cache EXCEPT ![w.job.file] = w.data]
    /\ Goto("l_commit")
    /\ UNCHANGED <<db, born, remote, clock, th, edit, spent>>

DownloadCommit ==
    /\ At("l_commit")
    /\ db' = DropOp(SetCached(db, w.job.file, "Synced"), w.job.id)
    /\ Finish
    /\ UNCHANGED <<cache, born, remote, clock, th, edit, spent>>
-----------------------------------------------------------------------------
(* A network call of the running function that fails: where a match sends   *)
(* the error to retry_or_fail, where "?" returns it, and in process_rename   *)
(* where is_ok() takes it for an absent resource.                            *)
NetworkFails ==
    /\ Spend("fault")
    /\ \/ /\ w.pc \in {"u_check", "u_put", "u_fetch", "d_call", "m_call",
                       "r_delete", "r_move", "l_get"}
          /\ CallFails
       \/ w.pc \in {"m_fetch", "r_fetch", "f_list"} /\ CallAbandoned
       \/ At("r_probe") /\ Fault # {} /\ Goto("r_move")
    /\ UNCHANGED <<db, cache, born, remote, clock, th, edit>>

WorkerStep ==
    \/ RecoverLease \/ Lease \/ Poll \/ Start \/ Fail
    \/ UploadMark \/ UploadCheck \/ UploadConflict \/ UploadFinish
    \/ UploadPut \/ UploadFetch \/ UploadCommit
    \/ DeleteCall \/ DeleteCommit
    \/ MkdirCall \/ MkdirFetch \/ MkdirSynced
    \/ RenameProbe \/ RenameDelete \/ RenameMove \/ RenameFetch \/ RenameSynced
    \/ DownloadMark \/ DownloadGet \/ DownloadWrite \/ DownloadCommit
=============================================================================
