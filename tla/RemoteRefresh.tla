----------------------------- MODULE RemoteRefresh ---------------------------
(****************************************************************************)
(* process_refresh_tree of src/src/sync.rs, run by the sync worker: it      *)
(* walks the remote tree one directory at a time while the tree may change, *)
(* takes a snapshot of the local rows, releases the lock, and then merges   *)
(* the one into the database by the other, in one transaction.               *)
(****************************************************************************)
EXTENDS SyncWorker

(* remote_map: what is listed twice counts as it was listed last.            *)
Listed(seen, page) == {x \in seen : ~Exists(page, x.path)} \cup page

(* collect_remote_tree, by list_directory page after page.  A directory that *)
(* is gone when its turn comes ends the refresh with an error.                *)
RefreshList ==
    /\ At("f_list")
    /\ \E p \in IF w.offset = 0 THEN w.walk ELSE {w.dir} :
          LET page == Page(remote, p, w.offset)
              last == LastPage(remote, p, w.offset)
              walk == (IF last THEN w.walk \ {p} ELSE w.walk)
                         \cup {x.path : x \in {y \in page : y.kind = "Dir"}}
          IN  IF \E x \in Meta(remote, p) : x.kind = "Dir"
              THEN w' = [w EXCEPT !.pc = IF walk = {} THEN "f_snap" ELSE "f_list",
                                  !.walk = walk,
                                  !.dir = IF last THEN RootPath ELSE p,
                                  !.offset = IF last THEN 0 ELSE @ + PageSize,
                                  !.seen = Listed(@, page \cup
                                     IF p = RootPath THEN Meta(remote, p) ELSE {})]
              ELSE Abandon
    /\ UNCHANGED <<db, cache, born, remote, clock, th, edit, spent>>

RefreshSnapshot ==
    /\ At("f_snap")
    /\ w' = [w EXCEPT !.pc = "f_begin", !.snap = db.files]
    /\ UNCHANGED <<db, cache, born, remote, clock, th, edit, spent>>

(* The transaction; "gone" is what its second loop goes through.             *)
RefreshBegin ==
    /\ At("f_begin")
    /\ w' = [w EXCEPT !.pc = "f_apply", !.tx = db, !.todo = w.seen,
                      !.gone = {r \in w.snap : r.path # RootPath
                                               /\ \A x \in w.seen : x.path # r.path}]
    /\ UNCHANGED <<db, cache, born, remote, clock, th, edit, spent>>

Local(res) == {r \in w.snap : r.path = res.path /\ res.path # RootPath}

Conflicting(res) == {r \in Local(res) : r.sync \in Unsynced /\ r.ver # res.ver}

\* Faulty: only files without cached bytes are downloaded again.
OutdatedPlaceholder(res) ==
    {r \in Local(res) : r.ver # res.ver /\ ~r.cached /\ res.kind = "File"}

Outdated(res) == {r \in Local(res) : r.ver # res.ver /\ r.cached /\ res.kind = "File"}

(* The id given to a row that ensure_remote_row inserts.                     *)
BornFor(d, res) == born' = IF RowAt(d, res.path) = {} THEN born \cup {FreshId} ELSE born

(* A resource the local file has diverged from: the local file steps aside.  *)
MergeConflict(res) ==
    \E l \in Conflicting(res) : \E cp \in NextConflictPaths(w.tx, l.path) :
        IF ConflictFails(w.tx, l.id, l.path, cp)
        THEN Abandon /\ UNCHANGED born
        ELSE LET aside == ApplyConflict(w.tx, l.id, l.path, cp)
             IN  /\ w' = [w EXCEPT !.tx = EnsureRemoteRow(aside, res, "Synced", FreshId),
                                   !.todo = @ \ {res}]
                 /\ BornFor(aside, res)

(* A newer version of a file in the cache: the file is to be downloaded.     *)
MergeOutdated(res) ==
    LET merged == EnsureRemoteRow(w.tx, res, "Downloading", FreshId)
        f == The(RowAt(merged, res.path)).id
    IN  /\ Conflicting(res) = {} /\ Outdated(res) # {}
        /\ w' = [w EXCEPT !.tx = Upsert(merged, f, "Download", res.path, RootPath),
                          !.todo = @ \ {res}]
        /\ BornFor(w.tx, res)

MergePlain(res) ==
    /\ Conflicting(res) = {} /\ Outdated(res) = {}
    /\ w' = [w EXCEPT !.tx = EnsureRemoteRow(w.tx, res, "Synced", FreshId),
                      !.todo = @ \ {res}]
    /\ BornFor(w.tx, res)

RefreshMerge ==
    /\ At("f_apply") /\ FileId \ born # {}
    /\ \E res \in w.todo : MergeConflict(res) \/ MergeOutdated(res) \/ MergePlain(res)
    /\ UNCHANGED <<db, cache, remote, clock, th, edit, spent>>

(* A row whose path the server no longer has.                                *)
DropRow(l) ==
    /\ l.sync = "QueuedDelete" \/ (l.sync \notin Unsynced
                                   /\ ~IsConflictCopy(w.tx, l.id, l.path))
    /\ w' = [w EXCEPT !.tx = DeleteRow(w.tx, l.id), !.gone = @ \ {l}]
    /\ cache' = IF l.sync # "QueuedDelete" /\ l.cached
                THEN [cache EXCEPT ![l.id] = NoData] ELSE cache

KeepCopy(l) ==
    /\ l.sync # "QueuedDelete" /\ IsConflictCopy(w.tx, l.id, l.path)
    /\ w' = [w EXCEPT !.gone = @ \ {l}]
    /\ UNCHANGED cache

DropConflict(l) ==
    /\ l.sync \in Unsynced /\ ~IsConflictCopy(w.tx, l.id, l.path)
    /\ \E cp \in NextConflictPaths(w.tx, l.path) :
          IF ConflictFails(w.tx, l.id, l.path, cp) THEN Abandon
          ELSE w' = [w EXCEPT !.tx = ApplyConflict(w.tx, l.id, l.path, cp),
                              !.gone = @ \ {l}]
    /\ UNCHANGED cache

RefreshDrop ==
    /\ At("f_apply") /\ w.todo = {}
    /\ \E l \in w.gone : DropRow(l) \/ KeepCopy(l) \/ DropConflict(l)
    /\ UNCHANGED <<db, born, remote, clock, th, edit, spent>>

RefreshCommit ==
    /\ At("f_apply") /\ w.todo = {} /\ w.gone = {}
    /\ db' = w.tx
    /\ w' = [w EXCEPT !.pc = "f_done", !.tx = NoTx, !.seen = {}, !.snap = {},
                      !.before = 0]
    /\ UNCHANGED <<cache, born, remote, clock, th, edit, spent>>

RefreshDone ==
    /\ At("f_done")
    /\ db' = DropOp(db, w.job.id)
    /\ Finish
    /\ UNCHANGED <<cache, born, remote, clock, th, edit, spent>>

RefreshStep ==
    \/ RefreshList \/ RefreshSnapshot \/ RefreshBegin
    \/ RefreshMerge \/ RefreshDrop \/ RefreshCommit \/ RefreshDone
=============================================================================
