------------------------------ MODULE SyncStore ------------------------------
(****************************************************************************)
(* The SQLite metadata store of src/src/sync.rs as values and functions on  *)
(* them.  A database value has three tables, each a set of records:         *)
(*   files      one row per file, "file_id" and "path" unique               *)
(*   queue      the rows of operations_queue that can still run             *)
(*   copies     the rows of conflicts, as <<file_id, conflict_path>>        *)
(* and the AUTOINCREMENT counter of operations_queue.  Every operator is    *)
(* the effect of the SQL statements of one function on such a value: an     *)
(* UPDATE or DELETE whose WHERE matches nothing leaves the table as it is.  *)
(*                                                                          *)
(* Rows whose status is Done, PermanentError or Conflict are dropped from   *)
(* queue: no statement of the program reads them again.                     *)
(****************************************************************************)
EXTENDS Naturals, FiniteSets, SequencesExt

CONSTANTS FileId,   \* the file ids, drawn at random by new_id
          Root,     \* the file id of the root row
          Stem,     \* what remains of a file name without its numeric suffix
          Alike     \* the pairs of stems of which the first, as a LIKE pattern,
                    \* matches the second: by "_" or by the case of letters

ASSUME RootAssumption == Root \in FileId /\ Alike \subseteq Stem \X Stem
-----------------------------------------------------------------------------
(* "file.txt" is the name with n = 1, "file (2).txt" the one with n = 2.     *)
Name == [stem : Stem, n : Nat \ {0}]
Path == Seq(Name)
RootPath == <<>>

Kind      == {"File", "Dir"}
SyncState == {"Synced", "QueuedUpload", "Uploading", "Downloading",
              "Conflict", "QueuedDelete", "Error", "Placeholder"}
OpType    == {"Upload", "Delete", "Mkdir", "Rename", "RefreshTree", "Download"}
OpStatus  == {"Pending", "Leased", "Retryable"}
Runnable  == {"Pending", "Retryable"}

(* Versions and contents are numbers handed out by one clock; 0 stands for  *)
(* "remote_version IS NULL" and for "no such file in the cache directory".  *)
NoVersion == 0
NoData    == 0

Row == [id : FileId, path : Path, kind : Kind, sync : SyncState,
        ver : Nat, cached : BOOLEAN]

(* from is the payload's path (or old_path), to its new_path.                *)
Op == [id : Nat, file : FileId, type : OpType, status : OpStatus,
       from : Path, to : Path]

Database == [files : SUBSET Row, queue : SUBSET Op,
             copies : SUBSET (FileId \X Path), nextOp : Nat]

\* Faulty: what failed to upload is not counted as unsynced.
UnsyncedButError == {"QueuedUpload", "Uploading"}

(* The states that ensure_remote_row leaves alone, and those for which      *)
(* has_unsynced_local_changes answers true.                                 *)
Protected == {"QueuedUpload", "Uploading", "QueuedDelete", "Conflict", "Error"}
Unsynced  == {"QueuedUpload", "Uploading", "Error"}
-----------------------------------------------------------------------------
RowAt(d, p) == {r \in d.files : r.path = p}
RowOf(d, f) == {r \in d.files : r.id = f}
HasRow(d, f) == RowOf(d, f) # {}
The(S) == CHOOSE x \in S : TRUE

(* query_children: a row on its way out is not listed.                       *)
Children(d, p) ==
    {r \in d.files : /\ r.path # RootPath
                     /\ Front(r.path) = p
                     /\ r.sync # "QueuedDelete"}

SetSync(d, f, s) ==
    [d EXCEPT !.files = {IF r.id = f THEN [r EXCEPT !.sync = s] ELSE r : r \in @}]

SetSynced(d, f, v) ==
    [d EXCEPT !.files = {IF r.id = f THEN [r EXCEPT !.sync = "Synced", !.ver = v]
                                     ELSE r : r \in @}]

SetCached(d, f, s) ==
    [d EXCEPT !.files = {IF r.id = f THEN [r EXCEPT !.sync = s, !.cached = TRUE]
                                     ELSE r : r \in @}]

InsertRow(d, row) == [d EXCEPT !.files = @ \cup {row}]

(* DELETE FROM files; both foreign keys cascade.                             *)
DeleteRow(d, f) ==
    [d EXCEPT !.files  = {r \in @ : r.id # f},
              !.queue  = {o \in @ : o.file # f},
              !.copies = {c \in @ : c[1] # f}]

(* The job is Done, in PermanentError or deleted: it never runs again.       *)
DropOp(d, id) == [d EXCEPT !.queue = {o \in @ : o.id # id}]

DropOpsOf(d, f) == [d EXCEPT !.queue = {o \in @ : o.file # f}]

SetStatus(d, id, s) ==
    [d EXCEPT !.queue = {IF o.id = id THEN [o EXCEPT !.status = s] ELSE o : o \in @}]
-----------------------------------------------------------------------------
\* Faulty: a leased operation is taken for one that can still be changed.
CoalescedWithLeased(d, f, type) ==
    {o \in d.queue :
        /\ o.file = f /\ o.type = type
        /\ \A q \in d.queue : q.file = f /\ q.type = type => o.id <= q.id}

\* Faulty: without AUTOINCREMENT the id of a deleted operation is used again.
ReusedOpId(d) == 1 + Max({0} \cup {o.id : o \in d.queue})

(* AUTOINCREMENT: an id that was in the table once is never used again.      *)
NewOpId(d) == d.nextOp

(* upsert_operation: the runnable operation of the same file and type with  *)
(* the lowest id takes the new payload, otherwise a row is appended.  The   *)
(* INSERT fails on the foreign key when the file's row is gone.              *)
Coalesced(d, f, type) ==
    {o \in d.queue :
        /\ o.file = f /\ o.type = type /\ o.status \in Runnable
        /\ \A q \in d.queue :
              q.file = f /\ q.type = type /\ q.status \in Runnable => o.id <= q.id}

Upsert(d, f, type, from, to) ==
    IF ~HasRow(d, f) THEN d
    ELSE IF Coalesced(d, f, type) # {}
    THEN [d EXCEPT !.queue =
            {IF o \in Coalesced(d, f, type)
             THEN [o EXCEPT !.status = "Pending", !.from = from, !.to = to]
             ELSE o : o \in @}]
    ELSE [d EXCEPT !.queue = @ \cup {[id |-> NewOpId(d), file |-> f, type |-> type,
                                      status |-> "Pending", from |-> from, to |-> to]},
                   !.nextOp = @ + 1]

\* Faulty: the operation the worker has leased is left.
UpsertBesideLeased(d, f, type, from, to) ==
    Upsert([d EXCEPT !.queue = {o \in @ : o.file # f \/ o.status = "Leased"}],
           f, type, from, to)

(* The same with replace_all: every live operation of the file goes first.   *)
UpsertAlone(d, f, type, from, to) == Upsert(DropOpsOf(d, f), f, type, from, to)
-----------------------------------------------------------------------------
(* rename_subtree selects the rows whose path is "from" or LIKE "from/%" and *)
(* updates them one by one, a shorter path first.  A row that only matches   *)
(* the pattern does not have the prefix to be replaced, so its new path is   *)
(* "to" itself.  The first row whose new path is taken, by a row that has not *)
(* moved yet or by one that has, ends the function with an error: Clash is   *)
(* where it stops.                                                           *)
Matches(m, n) == m = n \/ (m.n = n.n /\ <<m.stem, n.stem>> \in Alike)

Below(from, p) ==
    Len(from) < Len(p) /\ \A k \in 1 .. Len(from) : Matches(from[k], p[k])

Subtree(d, from) == {r \in d.files : r.path = from \/ Below(from, r.path)}

Moved(p, from, to) == to \o SubSeq(p, Len(from) + 1, Len(p))

Target(p, from, to) == IF IsPrefix(from, p) THEN Moved(p, from, to) ELSE to

Clash(d, from, to) ==
    LET before(q, r) == q \in Subtree(d, from) /\ Len(q.path) < Len(r.path)
        beside(q, r) == q \in Subtree(d, from) /\ Len(q.path) <= Len(r.path)
        target(r) == Target(r.path, from, to)
    IN  {r \in Subtree(d, from) :
            \E q \in d.files \ {r} : \/ ~before(q, r) /\ q.path = target(r)
                                     \/ beside(q, r) /\ target(q) = target(r)}

Reached(d, from, to) ==
    {r \in Subtree(d, from) : \A c \in Clash(d, from, to) : Len(r.path) < Len(c.path)}

MoveRows(d, M, from, to) ==
    [d EXCEPT !.files = {IF r \in M THEN [r EXCEPT !.path = Target(r.path, from, to)]
                                    ELSE r : r \in @}]

RenameSubtree(d, from, to) == MoveRows(d, Reached(d, from, to), from, to)

(* The rows that have moved when the loop is somewhere on its way.           *)
PartsMoved(d, from, to) ==
    {M \in SUBSET Reached(d, from, to) :
        \A r \in M, q \in Reached(d, from, to) : Len(q.path) < Len(r.path) => q \in M}

(* next_conflict_path and next_conflict_name: the first numeric suffix past *)
(* the name's own that no listed sibling uses.  The set has one element.     *)
UsedNames(d, p) == {Last(r.path) : r \in Children(d, Front(p))}

WithSuffix(p, k) == [p EXCEPT ![Len(p)].n = k]

NextConflictPaths(d, p) ==
    LET from == Last(p).n + 1
        Taken(k) == [stem |-> Last(p).stem, n |-> k] \in UsedNames(d, p)
    IN  {WithSuffix(p, k) :
            k \in {i \in from .. from + Cardinality(UsedNames(d, p)) :
                      ~Taken(i) /\ \A j \in from .. i - 1 : Taken(j)}}
-----------------------------------------------------------------------------
(* ensure_remote_row: an upsert keyed by path.  A protected row keeps its   *)
(* state but takes the remote version; id is used for a row that is new.     *)
EnsureRemoteRow(d, res, s, id) ==
    IF RowAt(d, res.path) = {}
    THEN InsertRow(d, [id |-> id, path |-> res.path, kind |-> res.kind,
                       sync |-> s, ver |-> res.ver, cached |-> FALSE])
    ELSE [d EXCEPT !.files =
            {IF r.path = res.path
             THEN [r EXCEPT !.kind = res.kind, !.ver = res.ver,
                            !.sync = IF r.sync \in Protected THEN r.sync ELSE s]
             ELSE r : r \in @}]

(* apply_conflict_locked for the file f last seen at path "from": the row is *)
(* moved aside to cp, loses its version and all its operations, and is      *)
(* queued for upload.  It fails, and the transaction with it, when a path   *)
(* of the subtree is taken or when the file's row is gone (foreign key).     *)
ConflictFails(d, f, from, cp) == Clash(d, from, cp) # {} \/ ~HasRow(d, f)

ForgetVersion(d, f) ==
    [d EXCEPT !.files = {IF r.id = f
                         THEN [r EXCEPT !.sync = "QueuedUpload", !.ver = NoVersion]
                         ELSE r : r \in @}]

ApplyConflict(d, f, from, cp) ==
    LET aside == ForgetVersion(RenameSubtree(d, from, cp), f)
        queued == UpsertAlone(aside, f, "Upload", cp, RootPath)
    IN  [queued EXCEPT !.copies = @ \cup {<<f, cp>>}]

IsConflictCopy(d, f, p) == <<f, p>> \in d.copies

(* finish_job(Conflict): the row is marked only when the job still exists.   *)
FinishJob(d, id) ==
    LET mine == {o \in d.queue : o.id = id}
    IN  IF mine = {} THEN d
        ELSE SetSync(DropOp(d, id), The(mine).file, "Conflict")

\* Faulty: the file's state is written into the operation's status.
RetryOrFailWrongEnum(d, o, retryable) ==
    SetSync(IF retryable THEN SetStatus(d, o.id, "Error") ELSE DropOp(d, o.id),
            o.file, "Error")

\* Faulty: an error that could be retried is final.
RetryOrFailAlways(d, o, retryable) == SetSync(DropOp(d, o.id), o.file, "Error")

RetryOrFail(d, o, retryable) ==
    SetSync(IF retryable THEN SetStatus(d, o.id, "Retryable") ELSE DropOp(d, o.id),
            o.file, "Error")

(* lease_next_operation: the lowest id among what is due.  A pending        *)
(* operation is always due, one in backoff may or may not be.               *)
Leasable(d) ==
    {o \in d.queue : /\ o.status \in Runnable
                     /\ \A q \in d.queue : q.status = "Pending" => o.id <= q.id}
=============================================================================
