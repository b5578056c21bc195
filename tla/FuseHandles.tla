----------------------------- MODULE FuseHandles -----------------------------
(****************************************************************************)
(* src/src/fs.rs: the FUSE threads over one FsState, the table of inodes and *)
(* the table of write handles, each handle with a staging copy of its file.  *)
(* A thread takes the state lock for a moment at a time, and calls the sync  *)
(* layer and touches staging files without it; a step here is one such       *)
(* stretch, together with the reads around it.                               *)
(*                                                                          *)
(* A path is a sequence of letters, for what the code does with prefixes of  *)
(* paths; the root's is empty and "/" stands between two names.  The bytes   *)
(* of a file are the set of the writes in it, each at an offset of its own.   *)
(****************************************************************************)
EXTENDS Integers, FiniteSets, Sequences, SequencesExt

CONSTANTS Thread,    \* FUSE worker threads
          Letter,    \* what names are spelled with
          Alike,     \* the pairs of a letter of a LIKE pattern and one that it
                     \* matches: ASCII case is ignored, "_" matches any letter
          Name,      \* the names that programs use
          Tree,      \* the rows at the start: a set of [path, kind]
          Limits,    \* how many of each event a behaviour may contain
          NameOps    \* the calls on names that programs make

Path  == Seq(Letter \cup {"/"})
Kind  == {"File", "Dir"}
Limit == [look : Nat, open : Nat, name : Nat, write : Nat, flush : Nat, fault : Nat]

ASSUME HandlesAssumption ==
    /\ IsFiniteSet(Tree) /\ Tree \subseteq [path : Path \ {<<>>}, kind : Kind]
    /\ \A r, s \in Tree : r.path = s.path => r = s
    /\ "/" \notin Letter /\ Name \subseteq Seq(Letter)
    /\ Alike \subseteq Letter \X Letter
    /\ Limits \subseteq Limit
    /\ NameOps \subseteq {"lookup", "readdir", "create", "mkdir", "unlink", "rmdir", "rename"}

VARIABLES disk,    \* the sync layer's rows, by file_id, but for the root's
          table,   \* entries, path_to_ino, dir_children, next_ino
          handles, \* write_handles
          nextFh,
          th,      \* the request that each thread is in
          clock,   \* numbers the writes and the new rows
          allow    \* the events that are left

vars == <<disk, table, handles, nextFh, th, clock, allow>>

(* Whether the Delete of a row is queued, and whether a later commit has put *)
(* it back on view (sync_state is QueuedUpload again, the Delete remains).   *)
RowState == {"kept", "deleting", "revived"}
Row == [path : Path, kind : Kind, data : SUBSET Nat, remote : BOOLEAN, state : RowState]

Entry == [path : Path, kind : Kind, size : Nat, parent : Nat]

(* Of a WriteHandleState's fields, and in addition: the row the handle was   *)
(* opened on, whether the kernel holds the handle, and whether nothing has   *)
(* come between the handle and its file since (see Steady).                  *)
Handle == [ino : Nat, parent : Nat, path : Path, data : SUBSET Nat, dirty : BOOLEAN,
           file : Nat, held : BOOLEAN, steady : BOOLEAN]

(* The local variables of a request: parent and name, newparent and newname, *)
(* the inode it is about, the one being refreshed (at), the path it was found *)
(* at, the path to be given, the rows just read; then its handle's.  moved is *)
(* history: the handles whose files its rename has moved in the sync layer.   *)
Idle == [op |-> "none", pc |-> "idle", dir |-> 0, name |-> <<>>, newDir |-> 0, newName |-> <<>>,
         locks |-> {}, ino |-> 0, at |-> 0, path |-> <<>>, to |-> <<>>, rows |-> {},
         fh |-> 0, data |-> {}, cut |-> FALSE, file |-> 0, moved |-> {}]
-----------------------------------------------------------------------------
Root == 1

Join(p, n) == IF p = <<>> THEN n ELSE p \o <<"/">> \o n

LastSlash(p) == Max({0} \cup {k \in DOMAIN p : p[k] = "/"})
ParentPath(p) == SubSeq(p, 1, LastSlash(p) - 1)
NameOf(p) == SubSeq(p, LastSlash(p) + 1, Len(p))

Under(p, q) == q = p \/ IsPrefix(p \o <<"/">>, q)

(* Every row is in the root or in a directory that has a row.                 *)
ASSUME TreeAssumption ==
    \A r \in Tree : \/ ParentPath(r.path) = <<>>
                    \/ \E s \in Tree : s.path = ParentPath(r.path) /\ s.kind = "Dir"

\* Faulty: the size is the offset of the last byte.
SizeToLast(data) == Cardinality(data) - 1

Size(data) == Cardinality(data)

(* Everything in Tree has been looked up.                                     *)
Init ==
    LET row == SetToSeq(Tree)
        all == 1 .. Len(row)
        inoOf(p) == IF p = <<>> THEN Root ELSE 1 + CHOOSE k \in all : row[k].path = p
        folders == {Root} \cup {k + 1 : k \in {j \in all : row[j].kind = "Dir"}}
        inside(d) == {k \in all : inoOf(ParentPath(row[k].path)) = d}
    IN  /\ disk = [k \in all |->
                      [path |-> row[k].path, kind |-> row[k].kind, remote |-> TRUE, state |-> "kept",
                       data |-> IF row[k].kind = "File" THEN {0} ELSE {}]]
        /\ table = [entries  |-> [i \in 1 .. Len(row) + 1 |->
                                     IF i = Root
                                     THEN [path |-> <<>>, kind |-> "Dir", size |-> 0, parent |-> Root]
                                     ELSE [path |-> row[i - 1].path, kind |-> row[i - 1].kind,
                                           size |-> IF row[i - 1].kind = "File" THEN 1 ELSE 0,
                                           parent |-> inoOf(ParentPath(row[i - 1].path))]],
                    byPath   |-> [p \in {<<>>} \cup {r.path : r \in Tree} |-> inoOf(p)],
                    children |-> [d \in folders |-> [n \in {NameOf(row[k].path) : k \in inside(d)} |->
                                     1 + CHOOSE k \in inside(d) : NameOf(row[k].path) = n]],
                    nextIno  |-> Len(row) + 2]
        /\ handles = <<>> /\ nextFh = 1
        /\ th = [t \in Thread |-> Idle]
        /\ clock = Len(row)
        /\ allow \in Limits
-----------------------------------------------------------------------------
(* The sync layer: get_entry finds every row, list_children leaves out those *)
(* that are being deleted.                                                    *)
At(p) == {f \in DOMAIN disk : disk[f].path = p}
FileAt(p) == CHOOSE f \in At(p) : TRUE

IsFolder(p) == p = <<>> \/ \E f \in At(p) : disk[f].kind = "Dir"
IsFile(p) == \E f \in At(p) : disk[f].kind = "File"

Stored(f) == [path |-> disk[f].path, kind |-> disk[f].kind, size |-> Size(disk[f].data)]

Listing(p) ==
    {Stored(f) : f \in {g \in DOMAIN disk : /\ ParentPath(disk[g].path) = p
                                            /\ disk[g].state # "deleting"}}

Less(f, S) == [x \in DOMAIN f \ S |-> f[x]]
With(f, x, y) == [z \in DOMAIN f \cup {x} |-> IF z = x THEN y ELSE f[z]]

Using(f) == {h \in DOMAIN handles : handles[h].file = f}

(* FsState, whose methods work under the state lock.                          *)
HasHandle(i) == \E h \in DOMAIN handles : handles[h].ino = i

Stale(tab, d) == [tab EXCEPT !.children = Less(@, {d})]

(* upsert_stored_entry of each row: a path that is known keeps its inode.     *)
Numbers(S, from) == CHOOSE f \in [S -> from .. from + Cardinality(S) - 1] : IsInjective(f)

Upserted(tab, d, rows) ==
    LET paths == {r.path : r \in rows}
        fresh == Numbers(paths \ DOMAIN tab.byPath, tab.nextIno)
        inoOf == [p \in paths \cup DOMAIN tab.byPath |->
                     IF p \in DOMAIN tab.byPath THEN tab.byPath[p] ELSE fresh[p]]
        row(i) == {r \in rows : inoOf[r.path] = i}
    IN  [tab EXCEPT
            !.entries = [i \in DOMAIN tab.entries \cup {inoOf[p] : p \in paths} |->
                            IF row(i) = {} THEN tab.entries[i]
                            ELSE LET r == CHOOSE r \in row(i) : TRUE
                                 IN  [path |-> r.path, kind |-> r.kind, size |-> r.size, parent |-> d]],
            !.byPath  = inoOf,
            !.nextIno = @ + Cardinality(paths \ DOMAIN tab.byPath)]

(* replace_directory_children_from_stored.                                   *)
Replaced(tab, d, rows) ==
    LET up == Upserted(tab, d, rows)
        known == [n \in {NameOf(r.path) : r \in rows} |->
                     up.byPath[CHOOSE p \in {r.path : r \in rows} : NameOf(p) = n]]
    IN  [up EXCEPT !.children = With(@, d, known)]

\* Faulty: the old path still leads to the inode (as in apply_committed_resource).
UpdatedKeepingOld(tab, i, r, d) ==
    [tab EXCEPT !.entries[i] = [path |-> r.path, kind |-> r.kind, size |-> r.size, parent |-> d],
                !.byPath = With(@, r.path, i)]

(* What refresh_entry_from_stored and apply_committed_stored do to an entry. *)
Updated(tab, i, r, d) ==
    LET old == tab.entries[i].path
    IN  [tab EXCEPT
            !.entries[i] = [path |-> r.path, kind |-> r.kind, size |-> r.size, parent |-> d],
            !.byPath = IF old = r.path THEN @ ELSE With(Less(@, {old}), r.path, i)]

(* collect_subtree: what the loaded listings lead to, and no more.           *)
Subtree(tab, i) ==
    LET reach[n \in Nat] ==
            IF n = 0 THEN {i}
            ELSE LET s == reach[n - 1]
                 IN  s \cup UNION {{tab.children[d][x] : x \in DOMAIN tab.children[d]} :
                                      d \in s \cap DOMAIN tab.children}
    IN  reach[Cardinality(DOMAIN tab.children)]

(* remove_entry_recursive.                                                    *)
Removed(tab, i) ==
    LET gone == Subtree(tab, i) \cap DOMAIN tab.entries
    IN  [tab EXCEPT !.entries  = Less(@, gone),
                    !.byPath   = Less(@, {tab.entries[j].path : j \in gone}),
                    !.children = Less(@, Subtree(tab, i))]

(* update_entry_size, which fails when the inode is gone.                     *)
Resized(tab, i, n) ==
    IF i \in DOMAIN tab.entries THEN [tab EXCEPT !.entries[i].size = n] ELSE tab
-----------------------------------------------------------------------------
(* Requests, and what the kernel keeps apart by locking inodes: lookups and  *)
(* listings of a directory from changes to it, and writes, truncations and   *)
(* fsyncs of a file from each other.  Flushes, opens and getattrs run freely; *)
(* a handle is released when no other request on it is left.                  *)
Pc(t) == th[t].pc
Become(t, r) == th' = [th EXCEPT ![t] = r]
Return(t) == Become(t, Idle)
Go(t, step) == th' = [th EXCEPT ![t].pc = step]

Use(kind) == /\ allow[kind] > 0
             /\ allow' = [allow EXCEPT ![kind] = @ - 1]

Changes == {"create", "mkdir", "unlink", "rmdir", "rename"}

DirLockFree(op, dirs) ==
    \A t \in Thread : th[t].locks \cap dirs # {} => op \notin Changes /\ th[t].op \notin Changes

InodeLockFree(i) ==
    \A t \in Thread : th[t].op \in {"write", "fsync", "setattr"} => th[t].ino # i

OnHandle(h) == {t \in Thread : th[t].fh = h}
Held(h) == handles[h].held /\ \A t \in OnHandle(h) : th[t].op # "release"
-----------------------------------------------------------------------------
(* What a thread with local variables r does when ensure_entry_fresh of the  *)
(* step it is in answers with the entry e of inode i: of a directory to be   *)
(* loaded the listing is read, of a child the call goes on by its kind, of a *)
(* parent the new path is made.                                               *)
Onward(r, step, i, e) ==
    CASE step = "r_dir" /\ e.kind = "Dir"
             -> [r EXCEPT !.pc = "replace", !.rows = Listing(e.path)]
      [] step = "r_child" /\ r.op \in {"unlink", "open", "setattr"} /\ e.kind = "File"
             -> [r EXCEPT !.pc = IF r.op = "unlink" THEN "unlink" ELSE "load",
                          !.ino = i, !.path = e.path, !.rows = {e}]
      [] step = "r_child" /\ r.op = "rmdir" /\ e.kind = "Dir"
             -> [r EXCEPT !.pc = "unlink", !.ino = i, !.path = e.path, !.rows = {}]
      [] step = "r_child" /\ r.op = "rename"
             -> [r EXCEPT !.pc = "parent", !.ino = i, !.path = e.path, !.rows = {}]
      [] step = "r_parent" /\ e.kind = "Dir"
             -> [r EXCEPT !.pc = IF r.op = "rename" THEN "rename" ELSE "create", !.rows = {},
                          !.to = Join(e.path, IF r.op = "rename" THEN r.newName ELSE r.name)]
      [] OTHER -> Idle

(* ensure_entry_fresh up to the read of the sync layer's row: an entry with  *)
(* a write handle is returned as it is.  (So is the root's, whose row does    *)
(* not change.)                                                               *)
Freshened(r, step, i) ==
    IF i \notin DOMAIN table.entries THEN Idle
    ELSE LET e == table.entries[i]
         IN  IF HasHandle(i) \/ i = Root THEN Onward(r, step, i, e)
             ELSE IF At(e.path) = {} THEN Idle
             ELSE [r EXCEPT !.pc = step, !.at = i, !.rows = {Stored(FileAt(e.path))}]

(* And from there on.                                                         *)
Refresh(t) ==
    LET i == th[t].at
        r == CHOOSE r \in th[t].rows : TRUE
    IN  /\ Pc(t) \in {"r_dir", "r_child", "r_parent"}
        /\ IF i \in DOMAIN table.entries
           THEN LET d == table.entries[i].parent
                    tab == Updated(table, i, r, d)
                IN  table' = tab /\ Become(t, Onward(th[t], Pc(t), i, tab.entries[i]))
           ELSE UNCHANGED table /\ Return(t)
        /\ UNCHANGED <<disk, handles, nextFh, clock, allow>>

(* Every call on a name begins with ensure_directory_loaded.  The kernel    *)
(* moves no directory into itself and locks the one that goes, too.           *)
Folders == {i \in DOMAIN table.entries : table.entries[i].kind = "Dir"}

Locks(op, d, n, e) ==
    LET p == Join(table.entries[d].path, n)
    IN  {d, e} \cup IF op \in {"rmdir", "rename"} /\ p \in DOMAIN table.byPath
                    THEN {table.byPath[p]} ELSE {}

NameRequest(op, d, n, e, m) ==
    [Idle EXCEPT !.op = op, !.locks = Locks(op, d, n, e),
                 !.dir = d, !.name = n, !.newDir = e, !.newName = m]

NameCall(t) ==
    \E op \in NameOps, d, e \in Folders, n, m \in Name :
        /\ Pc(t) = "idle"
        /\ op = "rename" <=> <<d, n>> # <<e, m>>
        /\ op = "readdir" => n = CHOOSE x \in Name : TRUE
        /\ ~Under(Join(table.entries[d].path, n), table.entries[e].path)
        /\ ~Under(Join(table.entries[e].path, m), table.entries[d].path)
        /\ DirLockFree(op, Locks(op, d, n, e))
        /\ Use(IF op \in Changes THEN "name" ELSE "look")
        /\ Become(t, Freshened(NameRequest(op, d, n, e, m), "r_dir", d))
        /\ UNCHANGED <<disk, table, handles, nextFh, clock>>

ReplaceChildren(t) ==
    LET r == th[t]
        next == CASE r.op = "readdir" -> Idle
                  [] r.op \in {"create", "mkdir"} -> [r EXCEPT !.pc = "parent", !.rows = {}]
                  [] OTHER -> [r EXCEPT !.pc = "child", !.rows = {}]
    IN  /\ Pc(t) = "replace"
        /\ table' = Replaced(table, r.dir, r.rows)
        /\ Become(t, next)
        /\ UNCHANGED <<disk, handles, nextFh, clock, allow>>

(* lookup_entry, after the listing: lookup_cached_child, getattr_entry.       *)
FindChild(t) ==
    LET r == th[t]
        found == r.dir \in DOMAIN table.children /\ r.name \in DOMAIN table.children[r.dir]
    IN  /\ Pc(t) = "child"
        /\ IF found THEN Become(t, Freshened(r, "r_child", table.children[r.dir][r.name]))
           ELSE Return(t)
        /\ UNCHANGED <<disk, table, handles, nextFh, clock, allow>>

(* getattr_entry of the directory that a name is to be put in.                *)
FindParent(t) ==
    /\ Pc(t) = "parent"
    /\ Become(t, Freshened(th[t], "r_parent",
                           IF th[t].op = "rename" THEN th[t].newDir ELSE th[t].dir))
    /\ UNCHANGED <<disk, table, handles, nextFh, clock, allow>>

(* getattr (or opendir), open and setattr with a size come with an inode.     *)
InodeCall(t) ==
    \E i \in DOMAIN table.entries \ {Root}, op \in {"getattr", "open", "setattr"} :
        /\ Pc(t) = "idle"
        /\ op # "getattr" => table.entries[i].kind = "File"
        /\ op = "setattr" => InodeLockFree(i)
        /\ Use(IF op = "getattr" THEN "look" ELSE "open")
        /\ Become(t, Freshened([Idle EXCEPT !.op = op, !.ino = i], "r_child", i))
        /\ UNCHANGED <<disk, table, handles, nextFh, clock>>
-----------------------------------------------------------------------------
(* SyncService::create_file and mkdir; then create_pending_file makes the    *)
(* handle of a new file.                                                      *)
MakeRow(t) ==
    LET r == th[t]
        kind == IF r.op = "mkdir" THEN "Dir" ELSE "File"
    IN  /\ Pc(t) = "create"
        /\ IF ~IsFolder(ParentPath(r.to)) \/ At(r.to) # {}
           THEN Return(t) /\ UNCHANGED <<disk, clock>>
           ELSE /\ clock' = clock + 1
                /\ disk' = With(disk, clock + 1, [path |-> r.to, kind |-> kind, data |-> {},
                                                  remote |-> FALSE, state |-> "kept"])
                /\ Become(t, [r EXCEPT !.pc = "enter", !.file = clock + 1,
                                       !.rows = {[path |-> r.to, kind |-> kind, size |-> 0]}])
        /\ UNCHANGED <<table, handles, nextFh, allow>>

(* Steady: when the handle appears it has the bytes of its file, at the path *)
(* it knows, and is the only one; from then on no other handle of the file   *)
(* appears, nobody unlinks the file, no commit of another handle hits it, no *)
(* commit of its own fails, meets a write or meets a rename of the file; a    *)
(* rename finds the inode under the path that it gave to the sync layer,      *)
(* before the next one moves the file; and none that does not move the file   *)
(* takes the handle along, because the name it renames begins the handle's.   *)
Unsteady(hs, S) == [h \in DOMAIN hs |-> [hs[h] EXCEPT !.steady = @ /\ h \notin S]]

Kept(p) == {f \in At(p) : disk[f].kind = "File" /\ disk[f].state = "kept"}

Opened(new) == With(Unsteady(handles, Using(new.file)), nextFh, new)

Enter(t) ==
    LET r == th[t]
        up == Upserted(table, r.dir, r.rows)
    IN  /\ Pc(t) = "enter"
        /\ table' = Stale(up, r.dir)
        /\ IF r.op = "mkdir" THEN UNCHANGED <<handles, nextFh>>
           ELSE /\ handles' = Opened([ino |-> up.byPath[r.to], parent |-> r.dir, path |-> r.to,
                                      data |-> {}, dirty |-> FALSE, file |-> r.file, held |-> TRUE,
                                      steady |-> r.file \in Kept(r.to) /\ Using(r.file) = {}
                                                /\ disk[r.file].data = {}])
                /\ nextFh' = nextFh + 1
        /\ Return(t)
        /\ UNCHANGED <<disk, clock, allow>>

(* open_file_handle for writing: the staging copy of a file that is not      *)
(* empty comes from the sync layer; with O_TRUNC it is emptied.  open for     *)
(* reading has no handle.                                                      *)
Load(t) ==
    LET r == th[t]
        e == CHOOSE e \in r.rows : TRUE
    IN  /\ Pc(t) = "load"
        /\ IF e.size > 0 /\ ~IsFile(r.path) THEN Return(t)
           ELSE \E cut \in {FALSE, r.op = "open"} :
                   Become(t, [r EXCEPT
                       !.pc = "insert", !.cut = cut,
                       !.file = IF At(r.path) = {} THEN 0 ELSE FileAt(r.path),
                       !.data = IF cut \/ e.size = 0 THEN {} ELSE disk[FileAt(r.path)].data])
        /\ UNCHANGED <<disk, table, handles, nextFh, clock, allow>>

(* When update_entry_size fails the handle stays, and the kernel does not    *)
(* know of it.                                                                 *)
Insert(t) ==
    LET r == th[t]
        e == CHOOSE e \in r.rows : TRUE
    IN  /\ Pc(t) = "insert"
        /\ handles' = Opened([ino |-> r.ino, parent |-> e.parent, path |-> r.path, data |-> r.data,
                              dirty |-> r.cut, file |-> r.file,
                              held |-> r.op = "open" /\ (r.cut => r.ino \in DOMAIN table.entries),
                              steady |-> r.file \in Kept(r.path) /\ Using(r.file) = {}
                                         /\ (r.cut \/ disk[r.file].data = r.data)])
        /\ table' = IF r.cut THEN Resized(table, r.ino, 0) ELSE table
        /\ nextFh' = nextFh + 1
        /\ IF r.op = "open" THEN Return(t)
           ELSE Become(t, [r EXCEPT !.pc = "stage", !.fh = nextFh, !.rows = {}])
        /\ UNCHANGED <<disk, clock, allow>>
-----------------------------------------------------------------------------
(* unlink_entry: SyncService::unlink, by the path; then the entry goes.      *)
UnlinkRow(t) ==
    LET p == th[t].path
        f == FileAt(p)
    IN  /\ Pc(t) = "unlink"
        /\ IF IF th[t].op = "rmdir" THEN IsFile(p) \/ At(p) = {} \/ Listing(p) # {} ELSE ~IsFile(p)
           THEN Return(t) /\ UNCHANGED <<disk, handles>>
           ELSE /\ disk' = IF disk[f].remote THEN [disk EXCEPT ![f].state = "deleting"]
                           ELSE Less(disk, {f})
                /\ handles' = Unsteady(handles, Using(f))
                /\ Go(t, "remove")
        /\ UNCHANGED <<table, nextFh, clock, allow>>

RemoveEntry(t) ==
    /\ Pc(t) = "remove"
    /\ table' = Stale(Removed(table, th[t].ino), th[t].dir)
    /\ Return(t)
    /\ UNCHANGED <<disk, handles, nextFh, clock, allow>>

(* The sync worker has deleted the file remotely and removes the row.         *)
DeleteDone ==
    \E f \in DOMAIN disk :
        /\ disk[f].state # "kept"
        /\ disk' = Less(disk, {f})
        /\ UNCHANGED <<table, handles, nextFh, th, clock, allow>>

(* rename_entry: SyncService::rename refuses a target that exists, and moves *)
(* the rows below the path, shorter paths first, until one meets a row that   *)
(* has not moved before.  A row that is only LIKE one below it ends the loop, *)
(* too: without the prefix it is to get the new path itself, which is taken.  *)
InPlace(old, new, p) == new \o SubSeq(p, Len(old) + 1, Len(p))

LikeUnder(p, q) ==
    /\ Len(p) + 1 < Len(q) /\ q[Len(p) + 1] = "/" /\ ~Under(p, q)
    /\ \A k \in 1 .. Len(p) : q[k] = p[k] \/ <<p[k], q[k]>> \in Alike

Committing(h) == \E t \in OnHandle(h) : Pc(t) \in {"apply", "record"}

(* A rename has moved the file in the sync layer, and not yet the handle.     *)
Midway(h) == \E t \in Thread : Pc(t) = "rekey" /\ h \in th[t].moved

RenameRow(t) ==
    LET old == th[t].path
        new == th[t].to
        below == {f \in DOMAIN disk : Under(old, disk[f].path)}
        clash == {f \in below : \E g \in At(InPlace(old, new, disk[f].path)) :
                                  g \in below => Len(disk[f].path) <= Len(disk[g].path)}
                 \cup {f \in DOMAIN disk : LikeUnder(old, disk[f].path)}
        moved == {f \in below : \A g \in clash : Len(disk[f].path) < Len(disk[g].path)}
        taken == UNION {Using(f) : f \in moved}
    IN  /\ Pc(t) = "rename"
        /\ IF At(old) = {} \/ At(new) # {} \/ ~IsFolder(ParentPath(new))
           THEN Return(t) /\ UNCHANGED <<disk, handles>>
           ELSE /\ disk' = [f \in DOMAIN disk |->
                               IF f \in moved THEN [disk[f] EXCEPT !.path = InPlace(old, new, @)]
                               ELSE disk[f]]
                /\ handles' = Unsteady(handles, {h \in taken : \/ clash # {}
                                                              \/ Committing(h) \/ Midway(h)})
                /\ IF clash = {} THEN Become(t, [th[t] EXCEPT !.pc = "rekey", !.moved = taken])
                   ELSE Return(t)
        /\ UNCHANGED <<table, nextFh, clock, allow>>

\* Faulty: the handles of files in the directory keep the old path.
RekeyedOwn(i, old, new, d) ==
    [h \in DOMAIN handles |-> IF handles[h].ino = i
                              THEN [handles[h] EXCEPT !.path = new, !.parent = d]
                              ELSE handles[h]]

(* rename_entry_subtree: the paths of the entries of the subtree, and those  *)
(* of the handles by the prefix alone.                                        *)
Rekeyed(i, old, new, d) ==
    [h \in DOMAIN handles |->
        IF IsPrefix(old, handles[h].path)
        THEN [handles[h] EXCEPT !.path = InPlace(old, new, @),
                                !.parent = IF handles[h].ino = i THEN d ELSE @]
        ELSE handles[h]]

Moved(tab, i, new, d) ==
    LET old == tab.entries[i].path
        tree == Subtree(tab, i) \cap DOMAIN tab.entries
        to == [j \in tree |-> LET p == tab.entries[j].path
                              IN  IF IsPrefix(old, p) THEN InPlace(old, new, p) ELSE new]
        last(p) == CHOOSE j \in tree : to[j] = p /\ (j = i => \A k \in tree : to[k] = p => k = i)
        news == {to[j] : j \in tree}
        rest == Less(tab.byPath, {tab.entries[j].path : j \in tree})
    IN  [tab EXCEPT
            !.entries = [j \in DOMAIN @ |->
                            IF j \notin tree THEN tab.entries[j]
                            ELSE [tab.entries[j] EXCEPT !.path = to[j],
                                                        !.parent = IF j = i THEN d ELSE @]],
            !.byPath  = [p \in DOMAIN rest \cup news |-> IF p \in news THEN last(p) ELSE rest[p]]]

RenameEntry(t) ==
    LET r == th[t]
        taken == {table.byPath[p] : p \in {r.to} \cap DOMAIN table.byPath} \ {r.ino}
        tab == IF taken = {} THEN table ELSE Removed(table, CHOOSE j \in taken : TRUE)
        known == r.ino \in DOMAIN tab.entries
        sure == known /\ tab.entries[r.ino].path = r.path
        found == {h \in DOMAIN handles :
                     known /\ IsPrefix(tab.entries[r.ino].path, handles[h].path)}
        lost == (found \ r.moved) \cup (IF sure THEN {} ELSE r.moved)
    IN  /\ Pc(t) = "rekey"
        /\ table' = Stale(Stale(IF known THEN Moved(tab, r.ino, r.to, r.newDir) ELSE tab, r.dir),
                          r.newDir)
        /\ handles' = Unsteady(IF known
                               THEN Rekeyed(r.ino, tab.entries[r.ino].path, r.to, r.newDir)
                               ELSE handles, lost)
        /\ Return(t)
        /\ UNCHANGED <<disk, nextFh, clock, allow>>
-----------------------------------------------------------------------------
(* write_handle_data and truncate_handle (to zero): the staging file, then   *)
(* the dirty flag and the entry's size.                                       *)
Staged(h, cut) == [handles EXCEPT ![h].data = IF cut THEN {} ELSE @ \cup {clock + 1}]

WriteCall(t) ==
    \E h \in DOMAIN handles, cut \in BOOLEAN :
        /\ Pc(t) = "idle"
        /\ Held(h) /\ InodeLockFree(handles[h].ino)
        /\ Use("write")
        /\ handles' = Staged(h, cut)
        /\ clock' = clock + 1
        /\ Become(t, [Idle EXCEPT !.op = "write", !.pc = "mark", !.fh = h, !.ino = handles[h].ino])
        /\ UNCHANGED <<disk, table, nextFh>>

(* truncate_entry without a handle truncates its temporary one.               *)
TruncateTemp(t) ==
    /\ Pc(t) = "stage"
    /\ handles' = Staged(th[t].fh, TRUE)
    /\ Go(t, "mark")
    /\ UNCHANGED <<disk, table, nextFh, clock, allow>>

MarkDirty(t) ==
    LET h == th[t].fh
        i == handles[h].ino
        commits == th[t].op = "setattr" /\ i \in DOMAIN table.entries
        crossed == \/ \E u \in OnHandle(h) : Pc(u) = "record"
                   \/ commits /\ Midway(h)
    IN  /\ Pc(t) = "mark"
        /\ handles' = Unsteady([handles EXCEPT ![h].dirty = TRUE],
                               IF crossed THEN {h} ELSE {})
        /\ table' = Resized(table, i, Size(handles[h].data))
        /\ IF commits THEN Become(t, [th[t] EXCEPT !.pc = "apply", !.path = handles[h].path])
           ELSE Return(t)
        /\ UNCHANGED <<disk, nextFh, clock, allow>>

(* flush, fsync and release: commit_write_handle, with the path as it is now. *)
CommitCall(t) ==
    \E h \in DOMAIN handles, op \in {"flush", "fsync", "release"} :
        /\ Pc(t) = "idle"
        /\ Held(h)
        /\ handles[h].dirty \/ op = "release"
        /\ op = "release" => OnHandle(h) = {}
        /\ op = "fsync" => InodeLockFree(handles[h].ino)
        /\ IF op = "release" THEN UNCHANGED allow ELSE Use("flush")
        /\ Become(t, [Idle EXCEPT !.op = op, !.pc = IF handles[h].dirty THEN "apply" ELSE "finish",
                                  !.fh = h, !.ino = handles[h].ino, !.path = handles[h].path])
        /\ handles' = Unsteady(handles, IF handles[h].dirty /\ Midway(h) THEN {h} ELSE {})
        /\ UNCHANGED <<disk, table, nextFh, clock>>

(* The error path: release gives the handle up, setattr forgets it.           *)
CommitFailed(t) == IF th[t].op = "release" THEN Go(t, "drop") ELSE Return(t)

(* apply_local_file_from_staging, by the path.                                *)
Apply(t) ==
    LET h == th[t].fh
        p == th[t].path
        f == FileAt(p)
    IN  /\ Pc(t) = "apply"
        /\ IF ~IsFile(p) THEN CommitFailed(t) /\ UNCHANGED <<disk, handles>>
           ELSE /\ disk' = [disk EXCEPT ![f].data = handles[h].data,
                                       ![f].state = IF @ = "kept" THEN @ ELSE "revived"]
                /\ handles' = Unsteady(handles, Using(f) \ {h})
                /\ Become(t, [th[t] EXCEPT !.pc = "record", !.rows =
                                 {[path |-> p, kind |-> "File", size |-> Size(handles[h].data)]}])
        /\ UNCHANGED <<table, nextFh, clock, allow>>

(* apply_committed_stored.                                                     *)
Record(t) ==
    LET h == th[t].fh
        i == handles[h].ino
        d == handles[h].parent
        r == CHOOSE r \in th[t].rows : TRUE
    IN  /\ Pc(t) = "record"
        /\ IF i \in DOMAIN table.entries
           THEN /\ table' = Stale(Updated(table, i, r, d), d)
                /\ handles' = [handles EXCEPT ![h].path = r.path, ![h].dirty = FALSE]
                /\ IF th[t].op \in {"flush", "fsync"} THEN Return(t) ELSE Go(t, "finish")
           ELSE CommitFailed(t) /\ UNCHANGED <<table, handles>>
        /\ UNCHANGED <<disk, nextFh, clock, allow>>

(* finish_write_handle, after a commit that succeeded or failed.              *)
Finish(t) ==
    /\ Pc(t) \in {"finish", "drop"}
    /\ handles' = Less(handles, {th[t].fh})
    /\ Return(t)
    /\ UNCHANGED <<disk, table, nextFh, clock, allow>>

(* A call of the sync layer or on a staging file fails: a new file then has  *)
(* a row and no handle, and what a write has staged does not count as dirty.  *)
Fail(t) ==
    /\ \/ Pc(t) \in {"load", "create", "unlink", "rename", "stage", "mark", "apply"}
       \/ Pc(t) = "enter" /\ th[t].op = "create"
    /\ Use("fault")
    /\ IF Pc(t) = "apply" THEN CommitFailed(t) ELSE Return(t)
    /\ handles' = IF Pc(t) \in {"mark", "apply"} THEN Unsteady(handles, {th[t].fh}) ELSE handles
    /\ UNCHANGED <<disk, table, nextFh, clock>>
-----------------------------------------------------------------------------
Next ==
    \/ DeleteDone
    \/ \E t \in Thread :
          \/ NameCall(t) \/ InodeCall(t) \/ WriteCall(t) \/ CommitCall(t)
          \/ ReplaceChildren(t) \/ FindChild(t) \/ FindParent(t) \/ Refresh(t)
          \/ MakeRow(t) \/ Enter(t) \/ Load(t) \/ Insert(t)
          \/ UnlinkRow(t) \/ RemoveEntry(t) \/ RenameRow(t) \/ RenameEntry(t)
          \/ TruncateTemp(t) \/ MarkDirty(t) \/ Apply(t) \/ Record(t) \/ Finish(t)
          \/ Fail(t)

Spec == Init /\ [][Next]_vars
-----------------------------------------------------------------------------
TypeOK ==
    /\ \A f \in DOMAIN disk : disk[f] \in Row
    /\ \A i \in DOMAIN table.entries : table.entries[i] \in Entry
    /\ \A h \in DOMAIN handles : handles[h] \in Handle
    /\ \A t \in Thread : th[t].fh # 0 => th[t].fh \in DOMAIN handles
    /\ allow \in Limit

(* path_to_ino leads to the inode that has the path, so that every lookup of *)
(* a name answers with an entry of that name, whatever refreshes, renames of *)
(* files and of whole directories, commits and removals overlap: none of     *)
(* them leaves an old path behind.                                            *)
PathsResolve ==
    \A p \in DOMAIN table.byPath :
        LET i == table.byPath[p]
        IN  i \in DOMAIN table.entries /\ table.entries[i].path = p

(* A close leaves the file with the bytes of the handle: all that was        *)
(* written through it is stored, wherever the file and the directories above *)
(* it were renamed to in the meantime, and whichever lookups, listings,      *)
(* refreshes and other files' requests the writes, truncations, flushes and   *)
(* commits overlapped with (see Steady for what a handle is not safe from).   *)
CloseKeeps ==
    [][\A t \in Thread :
          Pc(t) \in {"finish", "drop"} /\ th'[t].pc = "idle" =>
              LET h == handles[th[t].fh]
              IN  h.steady => h.file \in DOMAIN disk /\ disk[h.file].data = h.data]_vars

(* A commit goes to the file its handle was opened on, and to no other.  The *)
(* scenario "Overwrite an existing file" of the specification of the file     *)
(* system: after the save, a read of that path returns the updated bytes.     *)
CommitsReachTheirFile ==
    [][\A f \in DOMAIN disk \cap DOMAIN disk' :
          disk'[f].data # disk[f].data
              => \E t \in Thread : Pc(t) = "apply" /\ handles[th[t].fh].file = f]_vars
=============================================================================
