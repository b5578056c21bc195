---------------------------- MODULE SyncProperties ---------------------------
(****************************************************************************)
(* What the sync layer promises, or is said to promise, about the rows, the *)
(* queue, the cached bytes and the remote tree.                             *)
(****************************************************************************)
EXTENDS SyncService

OpsOf(f, types) == {o \in db.queue : o.file = f /\ o.type \in types}

(* A state that announces work is backed by an operation that will do it:    *)
(* otherwise nothing ever moves the file on, and nothing but a new edit or a *)
(* restart from scratch repairs it.  An unlink may overtake a running upload *)
(* or download, which then paints its state over QueuedDelete; the Delete    *)
(* operation is what remains.  Only a kill between the statements of one     *)
(* critical section may break it.                                            *)
Backing(s) == CASE s = "QueuedUpload" -> {"Upload", "Mkdir"}
                [] s = "QueuedDelete" -> {"Delete"}
                [] s = "Uploading"    -> {"Upload", "Delete"}
                [] s = "Downloading"  -> {"Download", "Delete"}

Torn == spent.half > 0

QueueBacked ==
    ~Torn =>
        \A r \in db.files :
            r.sync \in {"QueuedUpload", "QueuedDelete", "Uploading", "Downloading"}
                => OpsOf(r.id, Backing(r.sync)) # {}

(* A file that is QueuedDelete has no Upload left that could bring it back:  *)
(* upsert_operation with replace_all removes even the leased one.  A write   *)
(* after the unlink makes the row QueuedUpload again and queues an Upload    *)
(* beside the Delete (apply_local_file_from_staging looks at no state); of   *)
(* such a row this says nothing.                                              *)
DeleteSupersedes ==
    ~Torn => \A r \in db.files : r.sync = "QueuedDelete" => OpsOf(r.id, {"Upload"}) = {}

(* The state Conflict is never stored: apply_conflict_locked has deleted the *)
(* job by the time finish_job looks it up to mark the file.  This is no      *)
(* promise but what ConflictRecorded runs into.                              *)
NeverConflicted == \A r \in db.files : r.sync # "Conflict"

(* What the worker has leased stays what it is, or goes: no operation takes  *)
(* its id, so that mark_job_done_locked and retry_or_fail, which go by the  *)
(* id alone, never end another file's operation or a later one.              *)
JobKeepsItsId ==
    w.pc # "idle" =>
        \A o \in db.queue : o.id = w.job.id => o.file = w.job.file /\ o.type = w.job.type

(* Bytes that a program has committed and that were not uploaded yet are     *)
(* replaced or removed only by a program's own write or unlink, never by     *)
(* the worker, a read or a refresh.                                          *)
EditSurvives ==
    [][\A f \in FileId :
          edit[f] # NoData /\ (cache'[f] # cache[f] \/ ~HasRow(db', f))
              => \E t \in Thread : th[t].entry.id = f /\ th[t].pc \in {"copy", "unlink"}]_vars

(* The rows, the queue and the cache do what LocalFirst promises: a step of   *)
(* any thread is a step of it.  A file is clean when its row is Synced and    *)
(* no upload of it is queued.  So no thread marks a file as synchronized     *)
(* while an edit of it waits, not even the upload that a newer edit overtook. *)
Promise ==
    INSTANCE LocalFirst WITH
        File    <- FileId,
        Content <- Nat,
        bytes   <- cache,
        owed    <- {f \in FileId : edit[f] # NoData},
        inHand  <- {th[t].entry.id : t \in {u \in Thread : th[u].pc \in {"copy", "unlink"}}},
        clean   <- {r.id : r \in {q \in db.files : q.sync = "Synced"
                                                    /\ OpsOf(q.id, {"Upload"}) = {}}},
        server  <- {x.data : x \in remote}

ImplementsLocalFirst == Promise!Spec

Quiescent ==
    /\ \A o \in db.queue : o.type = "RefreshTree" /\ o.status # "Leased"
    /\ w.pc = "idle" /\ \A t \in Thread : th[t].pc = "idle"

(* A kill between the copy of a write's bytes and the UPDATE of its row      *)
(* leaves new bytes in the cache of a file that is still Synced (sync.rs,     *)
(* apply_local_file_from_staging).                                            *)
Killed == spent.crash + spent.half > 0

(* No other client has changed the remote tree.                              *)
Alone == spent.other = 0

(* Once nothing is queued and nobody is at work, the bytes in the cache of a *)
(* Synced file whose row has the server's version are the server's, whatever *)
(* other clients have written and removed: the file was downloaded again.    *)
(* There may be none: reconcile_remote_tree removes the file of a row that a *)
(* listing in pages has missed before it commits (sync.rs, 1387), and a kill  *)
(* brings the row back.  Two things break it.  process_upload fetches the    *)
(* version after the PUT by a call of its own (sync.rs, 1044), so what a      *)
(* program wrote, or what was set aside as a conflict copy, may take the     *)
(* version of another's write.                                               *)
(* And a kill inside retry_or_fail leaves a row Downloading that the next    *)
(* refresh takes for Synced.                                                 *)
VersionPinsContent ==
    Quiescent /\ spent.user = 0 /\ ~Torn =>
        \A r \in db.files : \A x \in Meta(remote, r.path) :
            /\ r.kind = "File" /\ r.sync = "Synced" /\ r.ver = x.ver /\ r.cached
            /\ \A c \in db.copies : c[1] # r.id
            => cache[r.id] \in {NoData, x.data}

(* With no other client and no kill, what is quiet is also complete: every   *)
(* Synced file exists remotely at the version and with the bytes recorded.   *)
QuietMeansStored ==
    Quiescent /\ Alone /\ ~Killed =>
        \A r \in db.files :
            r.kind = "File" /\ r.sync = "Synced" =>
                \E x \in Meta(remote, r.path) :
                    r.ver = x.ver /\ (r.cached => cache[r.id] = x.data)

(* What a refresh leaves behind, if no other client changed the tree from    *)
(* its first request to its commit and no row changed since its snapshot:    *)
(* the rows are those of the remote tree, with its versions, and beside them *)
(* only conflict copies.  Nothing that waits to be uploaded may hold rows or  *)
(* be a directory of the server's: it takes the rows below it along when it  *)
(* steps aside, and whether the refresh inserts new ones depends on the      *)
(* order of remote_map.                                                      *)
Undisturbed == /\ w.before = spent.other /\ w.snap = db.files
               /\ \A r \in w.snap : r.sync \in Unsynced =>
                     /\ Subtree(db, r.path) = {r}
                     /\ \A x \in w.seen : ~Below(r.path, x.path)

Rooted == {x \in remote : \A k \in 0 .. Len(x.path) - 1 :
                             \E y \in Meta(remote, SubSeq(x.path, 1, k)) : y.kind = "Dir"}

Mirrored(d) ==
    /\ \A x \in Rooted : \E r \in RowAt(d, x.path) : r.kind = x.kind /\ r.ver = x.ver
    /\ \A r \in d.files :
          Exists(Rooted, r.path) \/ IsConflictCopy(d, r.id, r.path)

RefreshMirrors == [][RefreshCommit /\ Undisturbed => Mirrored(db')]_vars

(* In the end every row is Synced and the queue is empty.                    *)
AllSynced == db.queue = {} /\ \A r \in db.files : r.sync = "Synced"

(* In the end nothing is left to do, whatever went wrong on the way.         *)
AllSettled == db.queue = {} /\ \A r \in db.files : r.sync \in {"Synced", "Error"}

(* What the network fails to do is retried until it is done: the uploads of *)
(* every file get through (worker_loop, retry_or_fail, recover_expired_leases). *)
EventuallySynced == <>[]AllSynced

(* The worker comes to rest: no operation is leased, abandoned and leased    *)
(* again for ever.                                                           *)
EventuallySettled == <>[]AllSettled
-----------------------------------------------------------------------------
(* What the repository's documents say and the code does not do.            *)

(* design.md, section 4: "rename/move updates the pending record payload    *)
(* instead of stacking multiple path-only jobs when safe".  Once all renames *)
(* are done, no file that is Synced is on the server under another name.     *)
RenamesReachServer ==
    Quiescent =>
        \A r \in db.files, x \in remote :
            r.kind = "File" /\ x.kind = "File" /\ r.sync = "Synced" /\ r.ver = x.ver
                => r.path = x.path

(* spec.md: rename "updates future lookups to the new path immediately and   *)
(* queues the corresponding remote rename": a file that waits for its rename *)
(* is neither unlinked by the layer itself nor does it get its old path back. *)
RenameKept ==
    [][\A r \in db.files :
          OpsOf(r.id, {"Rename"}) # {} => \E q \in RowOf(db', r.id) : q.path = r.path]_vars

(* yandex-disk-readonly-fuse, "Remote overwrite conflict is detected": the   *)
(* daemon "records the file as conflicted".  When process_upload has set the *)
(* file aside and ends its job as a conflict, the file is in that state.     *)
ConflictRecorded ==
    [][UploadFinish => \E r \in RowOf(db', w.job.file) : r.sync = "Conflict"]_vars
=============================================================================
