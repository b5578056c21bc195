----------------------------- MODULE SyncService -----------------------------
(****************************************************************************)
(* The offline-first sync layer as a whole: programs calling in through the *)
(* FUSE threads (LocalApi), the sync worker (SyncWorker, RemoteRefresh),    *)
(* other clients of the same cloud disk, and a daemon that may be killed.    *)
(****************************************************************************)
EXTENDS LocalApi, RemoteRefresh

(* Another client writes a file, or removes what is at a path.               *)
OtherPut(p) ==
    /\ "put" \in OtherOps /\ Spend("other")
    /\ Exists(remote, Front(p)) /\ \A x \in Meta(remote, p) : x.kind = "File"
    /\ remote' = PutFile(remote, p, clock + 1, clock + 1)
    /\ Tick
    /\ UNCHANGED <<db, cache, born, th, w, edit>>

OtherDelete(p) ==
    /\ "delete" \in OtherOps /\ Spend("other")
    /\ Exists(remote, p)
    /\ remote' = DeleteTree(remote, p)
    /\ UNCHANGED <<db, cache, born, clock, th, w, edit>>

OtherClient == \E p \in OtherPath : OtherPut(p) \/ OtherDelete(p)
-----------------------------------------------------------------------------
(* What a kill between the statements of a critical section leaves in the   *)
(* database: each statement outside a transaction has committed by itself.   *)
(* The last that unlink can leave is the whole, with the cached file.         *)
HalfCall(t) ==
    LET e == th[t].entry
        marked == SetSync(db, e.id, "QueuedDelete")
    IN  CASE th[t].pc \in {"create", "mkdir"} /\ RowAt(db, e.path) = {}
                 -> {Inserted(t)}
          [] th[t].pc = "apply" -> {Written(t)}
          [] th[t].pc = "unlink" /\ e.ver = NoVersion
                 -> {DropOpsOf(db, e.id), DeleteRow(db, e.id)}
          [] th[t].pc = "unlink" /\ e.ver # NoVersion
                 -> {marked, DropOpsOf(marked, e.id),
                     UpsertAlone(marked, e.id, "Delete", e.path, RootPath)}
          [] th[t].pc = "rename"
                 -> {MoveRows(db, M, e.path, th[t].to) : M \in PartsMoved(db, e.path, th[t].to)}
          [] OTHER -> {}

HalfJob ==
    CASE w.pc \in {"u_commit", "m_commit", "r_commit"} /\ w.meta # {}
             -> {SetSynced(db, w.job.file, RemoteVersion(w.meta))}
      [] w.pc = "l_commit" -> {SetCached(db, w.job.file, "Synced")}
      [] w.pc = "d_commit" -> {DropOp(db, w.job.id)}
      [] w.pc = "fail"
             -> {IF w.again THEN SetStatus(db, w.job.id, "Retryable")
                 ELSE DropOp(db, w.job.id)}
      [] OTHER -> {}

LeftBehind == IF Locked THEN {} ELSE HalfJob \cup UNION {HalfCall(t) : t \in Thread}

Reopen(left) == db' = Upsert(left, Root, "RefreshTree", RootPath, RootPath)

(* The daemon is killed and started again (open_at).  Its leases are in the *)
(* database and expire; the bytes in the cache stay.                         *)
CrashRestart ==
    /\ \/ Spend("crash") /\ Reopen(db)
       \/ Spend("half") /\ \E left \in LeftBehind : Reopen(left)
    /\ th' = [t \in Thread |-> IdleThread]
    /\ w' = IdleWorker
    /\ UNCHANGED <<cache, born, remote, clock, edit>>
-----------------------------------------------------------------------------
Next ==
    \/ \E t \in Thread : Call(t) \/ CallStep(t)
    \/ RequestRefresh
    \/ WorkerStep \/ RefreshStep \/ NetworkFails
    \/ OtherClient
    \/ CrashRestart

Spec == Init /\ [][Next]_vars

(* A FUSE thread finishes the call it is in; the worker loop never stops;   *)
(* a lease that was left behind expires.                                     *)
Fairness ==
    /\ \A t \in Thread : WF_vars(CallStep(t))
    /\ WF_vars(WorkerStep \/ RefreshStep)

LiveSpec == Spec /\ Fairness
=============================================================================
