------------------------------- MODULE LocalApi ------------------------------
(****************************************************************************)
(* The functions of SyncService that a FUSE thread calls (src/src/fs.rs),   *)
(* and request_refresh.  A call looks things up, does its file operations   *)
(* without the lock, then takes the lock once for its statements, so each   *)
(* is a step that begins it and one or more that carry it on.  A call that  *)
(* is refused changes nothing and is not a step.                            *)
(****************************************************************************)
EXTENDS SyncState

(* The kernel holds the directories of a namespace operation locked for as  *)
(* long as its request runs, so that two of them never meet in a directory.  *)
DirsHeld(t) ==
    CASE th[t].pc \in {"create", "mkdir"} -> {Front(th[t].entry.path)}
      [] th[t].pc = "unlink" -> {Front(th[t].entry.path), th[t].entry.path}
      [] th[t].pc = "rename" -> {Front(th[t].entry.path), Front(th[t].to),
                                 th[t].entry.path}
      [] OTHER -> {}

Unheld(p) == \A t \in Thread : p \notin DirsHeld(t)

MayCall(t, call) == /\ th[t].pc = "idle"
                    /\ call \in UserOps
                    /\ ~Locked
                    /\ Spend("user")

Begin(t, step, entry, to) ==
    th' = [th EXCEPT ![t] = [pc |-> step, entry |-> entry, to |-> to, data |-> NoData]]

Advance(t, step, data) == th' = [th EXCEPT ![t].pc = step, ![t].data = data]

Return(t) == th' = [th EXCEPT ![t] = IdleThread]

IsDir(p) == \E r \in RowAt(db, p) : r.kind = "Dir"
-----------------------------------------------------------------------------
(* create_file, first half: the parent is a directory, nothing has the      *)
(* path, and the new file's empty content goes to the cache.                 *)
CreateFile(t, p) ==
    /\ MayCall(t, "create")
    /\ Unheld(Front(p)) /\ IsDir(Front(p)) /\ RowAt(db, p) = {}
    /\ FileId \ born # {}
    /\ born' = born \cup {FreshId}
    /\ cache' = [cache EXCEPT ![FreshId] = clock + 1]
    /\ Tick
    /\ Begin(t, "create", [id |-> FreshId, path |-> p, kind |-> "File",
                           sync |-> "QueuedUpload", ver |-> NoVersion, cached |-> TRUE],
             RootPath)
    /\ UNCHANGED <<db, remote, w, edit>>

(* mkdir, first half.                                                        *)
MakeDir(t, p) ==
    /\ MayCall(t, "mkdir")
    /\ Unheld(Front(p)) /\ IsDir(Front(p)) /\ RowAt(db, p) = {}
    /\ FileId \ born # {}
    /\ born' = born \cup {FreshId}
    /\ Begin(t, "mkdir", [id |-> FreshId, path |-> p, kind |-> "Dir",
                          sync |-> "QueuedUpload", ver |-> NoVersion, cached |-> FALSE],
             RootPath)
    /\ UNCHANGED <<db, cache, remote, clock, w, edit>>

(* The statements of the second half.  The INSERT fails when a refresh has   *)
(* given the path to another row since.                                      *)
Inserted(t) == InsertRow(db, th[t].entry)

Created(t, type) ==
    IF RowAt(db, th[t].entry.path) # {} THEN db
    ELSE Upsert(Inserted(t), th[t].entry.id, type, th[t].entry.path, RootPath)

CreateCommit(t) ==
    /\ th[t].pc = "create" /\ ~Locked
    /\ db' = Created(t, "Upload")
    /\ edit' = [edit EXCEPT ![th[t].entry.id] =
                   IF RowAt(db, th[t].entry.path) = {} THEN cache[th[t].entry.id] ELSE @]
    /\ Return(t)
    /\ UNCHANGED <<cache, born, remote, clock, w, spent>>

MkdirCommit(t) ==
    /\ th[t].pc = "mkdir" /\ ~Locked
    /\ db' = Created(t, "Mkdir")
    /\ Return(t)
    /\ UNCHANGED <<cache, born, remote, clock, w, edit, spent>>
-----------------------------------------------------------------------------
(* apply_local_file_from_staging: read the entry, copy the staged bytes over *)
(* the cached ones, update the row and queue the upload.  fs.rs gets here    *)
(* when a written handle is flushed, synced or released.                     *)
WriteFile(t, p) ==
    /\ MayCall(t, "write")
    /\ \E r \in RowAt(db, p) : r.kind = "File" /\ Begin(t, "copy", r, RootPath)
    /\ UNCHANGED <<db, cache, born, remote, clock, w, edit>>

WriteCopy(t) ==
    /\ th[t].pc = "copy"
    /\ cache' = [cache EXCEPT ![th[t].entry.id] = clock + 1]
    /\ Tick
    /\ Advance(t, "apply", clock + 1)
    /\ UNCHANGED <<db, born, remote, w, edit, spent>>

Written(t) == SetCached(db, th[t].entry.id, "QueuedUpload")

\* Faulty: the row is updated, the upload is not queued.
WriteCommitUnqueued(t) ==
    /\ th[t].pc = "apply" /\ ~Locked
    /\ db' = Written(t)
    /\ edit' = [edit EXCEPT ![th[t].entry.id] = th[t].data]
    /\ Return(t)
    /\ UNCHANGED <<cache, born, remote, clock, w, spent>>

(* A write to a file that was unlinked meanwhile is no edit to be kept.      *)
WriteCommit(t) ==
    LET f == th[t].entry.id
    IN  /\ th[t].pc = "apply" /\ ~Locked
        /\ db' = Upsert(Written(t), f, "Upload", th[t].entry.path, RootPath)
        /\ edit' = [edit EXCEPT ![f] =
                       IF \E r \in RowOf(db, f) : r.sync # "QueuedDelete"
                       THEN th[t].data ELSE @]
        /\ Return(t)
        /\ UNCHANGED <<cache, born, remote, clock, w, spent>>
-----------------------------------------------------------------------------
(* unlink, first half: the entry, and for a directory that it is empty.      *)
Unlink(t, p) ==
    /\ MayCall(t, "unlink")
    /\ Unheld(Front(p)) /\ Unheld(p)
    /\ \E r \in RowAt(db, p) :
          /\ r.kind = "Dir" => Children(db, p) = {}
          /\ Begin(t, "unlink", r, RootPath)
    /\ UNCHANGED <<db, cache, born, remote, clock, w, edit>>

(* The second half decides by the version read in the first.                 *)
UnlinkCommit(t) ==
    LET f == th[t].entry.id
    IN  /\ th[t].pc = "unlink" /\ ~Locked
        /\ db' = IF th[t].entry.ver = NoVersion
                 THEN DeleteRow(db, f)
                 ELSE UpsertAlone(SetSync(db, f, "QueuedDelete"), f, "Delete",
                                  th[t].entry.path, RootPath)
        /\ cache' = IF \/ th[t].entry.cached /\ th[t].entry.ver = NoVersion
                       \/ th[t].entry.cached /\ HasRow(db, f)
                    THEN [cache EXCEPT ![f] = NoData] ELSE cache
        /\ edit' = [edit EXCEPT ![f] = NoData]
        /\ Return(t)
        /\ UNCHANGED <<born, remote, clock, w, spent>>
-----------------------------------------------------------------------------
(* rename, first half.  The kernel refuses to move a directory into itself.  *)
Rename(t, from, to) ==
    /\ MayCall(t, "rename")
    /\ ~IsPrefix(from, to)
    /\ Unheld(Front(from)) /\ Unheld(Front(to)) /\ Unheld(from)
    /\ RowAt(db, to) = {} /\ IsDir(Front(to))
    /\ \E r \in RowAt(db, from) : Begin(t, "rename", r, to)
    /\ UNCHANGED <<db, cache, born, remote, clock, w, edit>>

Renamed(t) == RenameSubtree(db, th[t].entry.path, th[t].to)

(* A row that the server knows is also renamed there.                        *)
RenameCommit(t) ==
    LET e == th[t].entry
    IN  /\ th[t].pc = "rename" /\ ~Locked
        /\ db' = IF e.ver = NoVersion \/ Clash(db, e.path, th[t].to) # {}
                 THEN Renamed(t)
                 ELSE Upsert(Renamed(t), e.id, "Rename", e.path, th[t].to)
        /\ Return(t)
        /\ UNCHANGED <<cache, born, remote, clock, w, edit, spent>>
-----------------------------------------------------------------------------
(* ensure_hydrated, for read_range and load_local_bytes: a file that is not *)
(* in the cache is downloaded, stored and then marked.                       *)
ReadFile(t, p) ==
    /\ MayCall(t, "read")
    /\ \E r \in RowAt(db, p) :
          /\ r.kind = "File"
          /\ ~(r.cached /\ cache[r.id] # NoData)
          /\ Begin(t, "download", r, RootPath)
    /\ UNCHANGED <<db, cache, born, remote, clock, w, edit>>

(* No retry here: without the bytes the call fails.                          *)
ReadDownload(t) ==
    LET found == Meta(remote, th[t].entry.path)
    IN  /\ th[t].pc = "download"
        /\ IF \E x \in found : x.kind = "File"
           THEN Advance(t, "store", The(found).data)
           ELSE Return(t)
        /\ UNCHANGED <<db, cache, born, remote, clock, w, edit, spent>>

ReadDownloadFails(t) ==
    /\ th[t].pc = "download" /\ Fault # {} /\ Spend("fault")
    /\ Return(t)
    /\ UNCHANGED <<db, cache, born, remote, clock, w, edit>>

ReadStore(t) ==
    /\ th[t].pc = "store"
    /\ cache' = [cache EXCEPT ![th[t].entry.id] = th[t].data]
    /\ Advance(t, "hydrated", NoData)
    /\ UNCHANGED <<db, born, remote, clock, w, edit, spent>>

ReadCommit(t) ==
    LET f == th[t].entry.id
    IN  /\ th[t].pc = "hydrated" /\ ~Locked
        /\ db' = [db EXCEPT !.files =
                    {IF r.id = f
                     THEN [r EXCEPT !.cached = TRUE,
                                    !.sync = IF @ = "Placeholder" THEN "Synced" ELSE @]
                     ELSE r : r \in @}]
        /\ Return(t)
        /\ UNCHANGED <<cache, born, remote, clock, w, edit, spent>>
-----------------------------------------------------------------------------
(* request_refresh: at startup, every 30 seconds, on a read of a stale file  *)
(* and on a D-Bus call.                                                      *)
RequestRefresh ==
    /\ ~Locked /\ Spend("refresh")
    /\ db' = Upsert(db, Root, "RefreshTree", RootPath, RootPath)
    /\ UNCHANGED <<cache, born, remote, clock, th, w, edit>>

CallStep(t) ==
    \/ CreateCommit(t) \/ MkdirCommit(t)
    \/ WriteCopy(t) \/ WriteCommit(t)
    \/ UnlinkCommit(t) \/ RenameCommit(t)
    \/ ReadDownload(t) \/ ReadDownloadFails(t) \/ ReadStore(t) \/ ReadCommit(t)

Call(t) ==
    \/ \E p \in UserPath : CreateFile(t, p) \/ MakeDir(t, p) \/ WriteFile(t, p)
                             \/ Unlink(t, p) \/ ReadFile(t, p)
    \/ \E p \in UserPath, q \in UserPath : Rename(t, p, q)
=============================================================================
