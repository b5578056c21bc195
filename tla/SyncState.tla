------------------------------ MODULE SyncState ------------------------------
(****************************************************************************)
(* The state that the threads of the sync layer share: SyncService of       *)
(* src/src/sync.rs, the cache directory, the remote tree, and the local     *)
(* variables of every thread that runs SyncService's functions.             *)
(*                                                                          *)
(* The connection is behind one Mutex and every statement outside a         *)
(* transaction commits by itself, so a step of this specification is one    *)
(* critical section, one network call or one file operation.  Only the     *)
(* transaction of reconcile_remote_tree spans several steps: it works on    *)
(* w.tx and keeps the lock (Locked) until it commits.                       *)
(****************************************************************************)
EXTENDS RemoteDisk

CONSTANTS Thread,     \* the FUSE threads that call into SyncService
          UserPath,   \* the paths that programs using the mount name
          OtherPath,  \* the paths that other clients change
          UserOps,    \* the file system calls those programs make
          OtherOps,   \* what other clients do to the remote tree
          Fault,      \* how a network call may fail
          Limits,     \* how many of each event a behaviour may contain
          InitTree    \* what is on the disk when the daemon starts

UserOp  == {"create", "write", "mkdir", "unlink", "rename", "read"}
OtherOp == {"put", "delete"}

(* retry: an error that retry_or_fail retries; fatal: one that it does not; *)
(* lost: the call takes effect and the answer is a retryable error.          *)
FaultKind == {"retry", "fatal", "lost"}

(* What a restarted daemon finds: resources it has never seen, resources it *)
(* has a row for, and files it also has in the cache.                        *)
InitEntry == [path : Path, kind : Kind, local : {"unknown", "known", "cached"},
              id : FileId \ {Root}]

(* Calls of programs, changes by other clients, network faults, refreshes   *)
(* after the first, kills, and kills in the middle of a critical section.    *)
EventKind == {"user", "other", "fault", "refresh", "crash", "half"}
Events == [EventKind -> Nat]

ASSUME StateAssumption ==
    /\ UserPath \subseteq Path \ {RootPath}
    /\ OtherPath \subseteq Path \ {RootPath}
    /\ UserOps \subseteq UserOp
    /\ OtherOps \subseteq OtherOp
    /\ Fault \subseteq FaultKind
    /\ Limits \subseteq Events
    /\ InitTree \subseteq InitEntry
    /\ IsFiniteSet(InitTree)
    /\ \A e, g \in InitTree :
          e.path # RootPath /\ (e.path = g.path \/ e.id = g.id => e = g)

VARIABLES db,      \* the database, behind SyncService.db
          cache,   \* the cache directory: the content of each file, or NoData
          born,    \* the file ids in use so far
          remote,  \* the remote tree
          clock,   \* the last content or version handed out
          th,      \* the call each FUSE thread is in
          w,       \* the operation the sync worker is in
          edit,    \* history: the content last committed to a file by a
                   \* program and not uploaded since, or NoData
          spent    \* the events there were

vars == <<db, cache, born, remote, clock, th, w, edit, spent>>
-----------------------------------------------------------------------------
RootRow == [id |-> Root, path |-> RootPath, kind |-> "Dir",
            sync |-> "Placeholder", ver |-> NoVersion, cached |-> FALSE]

RootResource == [path |-> RootPath, kind |-> "Dir", ver |-> 1, data |-> NoData]

NullOp == [id |-> 0, file |-> Root, type |-> "RefreshTree", status |-> "Leased",
           from |-> RootPath, to |-> RootPath]

ThreadPc == {"idle", "create", "mkdir", "copy", "apply", "unlink", "rename",
             "download", "store", "hydrated"}

(* The local variables of a call: the entry it read, its second path (the   *)
(* target of a rename) and the bytes it holds.                              *)
ThreadState == [pc : ThreadPc, entry : Row, to : Path, data : Nat]

IdleThread == [pc |-> "idle", entry |-> RootRow, to |-> RootPath, data |-> NoData]

WorkerPc == {"idle", "start",
             "u_mark", "u_check", "u_conflict", "u_finish", "u_put", "u_fetch", "u_commit",
             "d_call", "d_commit", "m_call", "m_fetch", "m_commit",
             "r_probe", "r_delete", "r_move", "r_fetch", "r_commit",
             "f_list", "f_snap", "f_begin", "f_apply", "f_done",
             "l_mark", "l_get", "l_write", "l_commit", "fail"}

(* The local variables of worker_loop and of the process_ function it is in: *)
(* entry is the row as first read, meta the resource last fetched, again     *)
(* whether the error is retryable, walk the directories still to be listed,  *)
(* dir and offset the one being listed and how far, seen the resources       *)
(* collected, todo and gone what the two loops of reconcile_remote_tree have *)
(* left, snap its snapshot of the rows and tx its open transaction.  before  *)
(* is history: how many changes by other clients there were at its start.    *)
WorkerState == [pc : WorkerPc, job : Op, entry : Row, meta : SUBSET Resource,
                data : Nat, again : BOOLEAN, walk : SUBSET Path,
                dir : Path, offset : Nat, before : Nat,
                seen : SUBSET Resource, todo : SUBSET Resource,
                snap : SUBSET Row, gone : SUBSET Row, tx : Database]

NoTx == [files |-> {}, queue |-> {}, copies |-> {}, nextOp |-> 0]

IdleWorker == [pc |-> "idle", job |-> NullOp, entry |-> RootRow, meta |-> {},
               data |-> NoData, again |-> FALSE, walk |-> {}, dir |-> RootPath,
               offset |-> 0, before |-> 0, seen |-> {}, todo |-> {},
               snap |-> {}, gone |-> {}, tx |-> NoTx]

TypeOK ==
    /\ db \in Database
    /\ cache \in [FileId -> Nat]
    /\ born \subseteq FileId
    /\ remote \subseteq Resource
    /\ clock \in Nat
    /\ th \in [Thread -> ThreadState]
    /\ w \in WorkerState
    /\ edit \in [FileId -> Nat]
    /\ spent \in Events
-----------------------------------------------------------------------------
(* The transaction of reconcile_remote_tree holds the connection's mutex.    *)
Locked == w.pc = "f_apply"

(* new_id never repeats an id.                                               *)
FreshId == CHOOSE f \in FileId \ born : TRUE

Spend(kind) ==
    LET now == [spent EXCEPT ![kind] = @ + 1]
    IN  /\ \E limit \in Limits : \A k \in EventKind : now[k] <= limit[k]
        /\ spent' = now

Tick == clock' = clock + 1
-----------------------------------------------------------------------------
(* open_at on the state a previous session left behind: the root row exists *)
(* (ensure_root_entry) and a refresh of the tree is queued.                  *)
Init ==
    /\ remote = {RootResource} \cup
                {[path |-> e.path, kind |-> e.kind, ver |-> 1,
                  data |-> IF e.kind = "File" THEN 1 ELSE NoData] : e \in InitTree}
    /\ cache = [f \in FileId |->
                  IF \E e \in InitTree : e.id = f /\ e.local = "cached"
                  THEN 1 ELSE NoData]
    /\ born = {Root} \cup {e.id : e \in InitTree}
    /\ clock = 1
    /\ db = Upsert([files |-> {RootRow} \cup
                       {[id |-> e.id, path |-> e.path, kind |-> e.kind, sync |-> "Synced",
                         ver |-> 1, cached |-> e.local = "cached"] :
                            e \in {x \in InitTree : x.local # "unknown"}},
                    queue |-> {}, copies |-> {}, nextOp |-> 1],
                   Root, "RefreshTree", RootPath, RootPath)
    /\ th = [t \in Thread |-> IdleThread]
    /\ w = IdleWorker
    /\ edit = [f \in FileId |-> NoData]
    /\ spent = [k \in EventKind |-> 0]
=============================================================================
