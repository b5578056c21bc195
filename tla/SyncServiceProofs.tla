--------------------------- MODULE SyncServiceProofs --------------------------
(****************************************************************************)
(* Theorems about the sync layer, for every value of the constants: the     *)
(* state is well-typed, no row is ever in the state Conflict, and the job   *)
(* the worker holds keeps its id.  All three follow from one inductive      *)
(* invariant, Inv.                                                          *)
(*                                                                          *)
(* First, what every statement of the metadata store keeps: a sound         *)
(* database stays sound, and an operation of the queue that is there        *)
(* afterwards was there before or has a new id.                             *)
(****************************************************************************)
EXTENDS SyncProperties, SequenceTheorems, TLAPS

(* No row is in Conflict, and an id stands for one file and one type.        *)
Sound(d) ==
    /\ d \in Database
    /\ \A r \in d.files : r.sync # "Conflict"
    /\ \A o \in d.queue : o.id < d.nextOp
    /\ \A o, q \in d.queue : o.id = q.id => o.file = q.file /\ o.type = q.type

(* e may come after d: what it has in the queue is new or is in d.           *)
Grows(d, e) ==
    /\ d.nextOp <= e.nextOp
    /\ \A q \in e.queue :
          \/ q.id >= d.nextOp
          \/ \E o \in d.queue : o.id = q.id /\ o.file = q.file /\ o.type = q.type

Follows(d, e) == Sound(e) /\ Grows(d, e)
-----------------------------------------------------------------------------
(* A database follows itself, and what follows it is followed on.            *)
LEMMA FollowsSelf == ASSUME NEW d, Sound(d) PROVE Follows(d, d)
BY DEF Follows, Sound, Grows, Database

LEMMA FollowsOn ==
    ASSUME NEW d, NEW e, NEW g, Sound(d), Follows(d, e), Follows(e, g)
    PROVE  Follows(d, g)
<1>1. d.nextOp \in Nat /\ e.nextOp \in Nat /\ g.nextOp \in Nat
  BY DEF Follows, Sound, Database
<1>2. \A q \in g.queue : q.id \in Nat
  BY DEF Follows, Sound, Database, Op
<1>3. d.nextOp <= g.nextOp
  BY <1>1 DEF Follows, Grows
<1>4. ASSUME NEW q \in g.queue, ~(q.id >= d.nextOp)
      PROVE  \E o \in d.queue : o.id = q.id /\ o.file = q.file /\ o.type = q.type
  <2>1. ~(q.id >= e.nextOp)
    BY <1>1, <1>2, <1>4 DEF Follows, Grows
  <2>2. PICK p \in e.queue : p.id = q.id /\ p.file = q.file /\ p.type = q.type
    BY <2>1 DEF Follows, Grows
  <2>3. QED
    BY <1>4, <2>2 DEF Follows, Grows
<1>5. QED
  BY <1>3, <1>4 DEF Follows, Grows

(* A statement on the table files alone: it may do anything but store the    *)
(* state Conflict.                                                           *)
LEMMA FilesOnly ==
    ASSUME NEW d, Sound(d), NEW F \in SUBSET Row, \A r \in F : r.sync # "Conflict"
    PROVE  Follows(d, [d EXCEPT !.files = F])
BY DEF Follows, Sound, Grows, Database

(* A statement on the queue that changes neither ids nor files nor types.    *)
LEMMA QueueOnly ==
    ASSUME NEW d, Sound(d), NEW Q \in SUBSET Op,
           \A q \in Q : \E o \in d.queue :
               o.id = q.id /\ o.file = q.file /\ o.type = q.type
    PROVE  Follows(d, [d EXCEPT !.queue = Q])
<1> DEFINE e == [d EXCEPT !.queue = Q]
<1>1. e \in Database /\ e.files = d.files /\ e.queue = Q /\ e.nextOp = d.nextOp
  BY DEF Sound, Database
<1>2. \A o \in e.queue : o.id < e.nextOp
  BY <1>1 DEF Sound
<1>3. \A o, q \in e.queue : o.id = q.id => o.file = q.file /\ o.type = q.type
  BY <1>1 DEF Sound
<1>4. Sound(e)
  BY <1>1, <1>2, <1>3 DEF Sound
<1>5. Grows(d, e)
  BY <1>1 DEF Grows, Sound, Database
<1>6. QED
  BY <1>4, <1>5 DEF Follows
-----------------------------------------------------------------------------
(* The UPDATEs of one row of files.                                          *)
LEMMA SetSyncFollows ==
    ASSUME NEW d, NEW f, NEW s \in SyncState \ {"Conflict"}, Sound(d)
    PROVE  Follows(d, SetSync(d, f, s))
<1> DEFINE F == {IF r.id = f THEN [r EXCEPT !.sync = s] ELSE r : r \in d.files}
<1>1. F \in SUBSET Row /\ \A r \in F : r.sync # "Conflict"
  BY DEF Sound, Database, Row
<1>2. QED
  BY <1>1, FilesOnly DEF SetSync

LEMMA SetSyncedFollows ==
    ASSUME NEW d, NEW f, NEW v \in Nat, Sound(d)
    PROVE  Follows(d, SetSynced(d, f, v))
<1> DEFINE F == {IF r.id = f THEN [r EXCEPT !.sync = "Synced", !.ver = v] ELSE r :
                    r \in d.files}
<1>1. F \in SUBSET Row /\ \A r \in F : r.sync # "Conflict"
  BY DEF Sound, Database, Row, SyncState
<1>2. QED
  BY <1>1, FilesOnly DEF SetSynced

LEMMA SetCachedFollows ==
    ASSUME NEW d, NEW f, NEW s \in SyncState \ {"Conflict"}, Sound(d)
    PROVE  Follows(d, SetCached(d, f, s))
<1> DEFINE F == {IF r.id = f THEN [r EXCEPT !.sync = s, !.cached = TRUE] ELSE r :
                    r \in d.files}
<1>1. F \in SUBSET Row /\ \A r \in F : r.sync # "Conflict"
  BY DEF Sound, Database, Row
<1>2. QED
  BY <1>1, FilesOnly DEF SetCached

LEMMA ForgetVersionFollows ==
    ASSUME NEW d, NEW f, Sound(d)
    PROVE  Follows(d, ForgetVersion(d, f))
<1> DEFINE F == {IF r.id = f THEN [r EXCEPT !.sync = "QueuedUpload", !.ver = NoVersion]
                            ELSE r : r \in d.files}
<1>1. \A r \in Row : /\ [r EXCEPT !.sync = "QueuedUpload", !.ver = NoVersion] \in Row
                     /\ [r EXCEPT !.sync = "QueuedUpload", !.ver = NoVersion].sync # "Conflict"
  BY DEF Row, SyncState, NoVersion
<1>2. F \in SUBSET Row /\ \A r \in F : r.sync # "Conflict"
  BY <1>1 DEF Sound, Database
<1>3. QED
  BY <1>2, FilesOnly DEF ForgetVersion

LEMMA InsertRowFollows ==
    ASSUME NEW d, NEW row \in Row, row.sync # "Conflict", Sound(d)
    PROVE  Follows(d, InsertRow(d, row))
<1>1. d.files \cup {row} \in SUBSET Row /\ \A r \in d.files \cup {row} : r.sync # "Conflict"
  BY DEF Sound, Database
<1>2. QED
  BY <1>1, FilesOnly DEF InsertRow
-----------------------------------------------------------------------------
(* The UPDATEs and DELETEs of the queue.                                     *)
LEMMA DropOpFollows ==
    ASSUME NEW d, NEW i, Sound(d) PROVE Follows(d, DropOp(d, i))
<1> DEFINE Q == {o \in d.queue : o.id # i}
<1>1. Q \in SUBSET Op
  BY DEF Sound, Database
<1>2. QED
  BY <1>1, QueueOnly DEF DropOp

LEMMA DropOpsOfFollows ==
    ASSUME NEW d, NEW f, Sound(d) PROVE Follows(d, DropOpsOf(d, f))
<1> DEFINE Q == {o \in d.queue : o.file # f}
<1>1. Q \in SUBSET Op
  BY DEF Sound, Database
<1>2. QED
  BY <1>1, QueueOnly DEF DropOpsOf

LEMMA SetStatusFollows ==
    ASSUME NEW d, NEW i, NEW s \in OpStatus, Sound(d)
    PROVE  Follows(d, SetStatus(d, i, s))
<1> DEFINE Q == {IF o.id = i THEN [o EXCEPT !.status = s] ELSE o : o \in d.queue}
<1>1. Q \in SUBSET Op
  BY DEF Sound, Database, Op
<1>2. \A q \in Q : \E o \in d.queue : o.id = q.id /\ o.file = q.file /\ o.type = q.type
  BY DEF Sound, Database, Op
<1>3. QED
  BY <1>1, <1>2, QueueOnly DEF SetStatus

LEMMA DeleteRowFollows ==
    ASSUME NEW d, NEW f, Sound(d) PROVE Follows(d, DeleteRow(d, f))
<1> DEFINE C == {c \in d.copies : c[1] # f}
           e == DeleteRow(d, f)
<1>1. C \in SUBSET (FileId \X Path)
  BY DEF Sound, Database
<1>2. /\ e.files = {r \in d.files : r.id # f}
      /\ e.queue = {o \in d.queue : o.file # f}
      /\ e.nextOp = d.nextOp
      /\ e.copies = C
      /\ e \in Database
  BY <1>1 DEF DeleteRow, Sound, Database
<1>3. Sound(e) /\ Grows(d, e)
  BY <1>2 DEF Sound, Grows, Database
<1>4. QED
  BY <1>3 DEF Follows
-----------------------------------------------------------------------------
(* An operation that takes a new payload is one.                             *)
LEMMA CoalesceType ==
    ASSUME NEW o \in Op, NEW from \in Path, NEW to \in Path
    PROVE  [o EXCEPT !.status = "Pending", !.from = from, !.to = to] \in Op
BY DEF Op, OpStatus

(* upsert_operation keeps the store sound.                                   *)
LEMMA UpsertFollows ==
    ASSUME NEW d, NEW f, NEW type \in OpType, NEW from \in Path, NEW to \in Path, Sound(d)
    PROVE  Follows(d, Upsert(d, f, type, from, to))
<1> DEFINE Q == {IF o \in Coalesced(d, f, type)
                 THEN [o EXCEPT !.status = "Pending", !.from = from, !.to = to]
                 ELSE o : o \in d.queue}
           new == [id |-> NewOpId(d), file |-> f, type |-> type,
                   status |-> "Pending", from |-> from, to |-> to]
           e == [d EXCEPT !.queue = @ \cup {new}, !.nextOp = @ + 1]
<1>1. CASE ~HasRow(d, f)
  BY <1>1, FollowsSelf DEF Upsert
<1>2. CASE HasRow(d, f) /\ Coalesced(d, f, type) # {}
  <2>1. \A o \in Op : [o EXCEPT !.status = "Pending", !.from = from, !.to = to] \in Op
    BY CoalesceType
  <2>2. Q \in SUBSET Op
    BY <2>1 DEF Sound, Database
  <2>3. \A q \in Q : \E o \in d.queue : o.id = q.id /\ o.file = q.file /\ o.type = q.type
    BY DEF Sound, Database, Op
  <2>4. Follows(d, [d EXCEPT !.queue = Q])
    BY <2>2, <2>3, QueueOnly
  <2>5. QED
    BY <1>2, <2>4 DEF Upsert
<1>3. CASE HasRow(d, f) /\ Coalesced(d, f, type) = {}
  <2>1. f \in FileId
    BY <1>3 DEF HasRow, RowOf, Sound, Database, Row
  <2>2. d.nextOp \in Nat /\ new \in Op /\ new.id = d.nextOp
    BY <2>1 DEF Sound, Database, Op, OpStatus, NewOpId
  <2> HIDE DEF new
  <2>3. /\ e \in Database /\ e.files = d.files
        /\ e.queue = d.queue \cup {new} /\ e.nextOp = d.nextOp + 1
    <3>1. d.queue \cup {new} \in SUBSET Op /\ d.nextOp + 1 \in Nat /\ d \in Database
      BY <2>2 DEF Sound, Database
    <3>2. QED
      BY <3>1 DEF Database
  <2>4. \A o \in d.queue : o.id \in Nat /\ o.id < d.nextOp
    BY DEF Sound, Database, Op
  <2>5. Sound(e)
    BY <2>2, <2>3, <2>4 DEF Sound
  <2>6. Grows(d, e)
    BY <2>2, <2>3, <2>4 DEF Grows
  <2>7. QED
    BY <1>3, <2>5, <2>6 DEF Upsert, Follows, new
<1>4. QED
  BY <1>1, <1>2, <1>3

LEMMA UpsertAloneFollows ==
    ASSUME NEW d, NEW f, NEW type \in OpType, NEW from \in Path, NEW to \in Path, Sound(d)
    PROVE  Follows(d, UpsertAlone(d, f, type, from, to))
<1>1. Follows(d, DropOpsOf(d, f))
  BY DropOpsOfFollows
<1>2. Follows(DropOpsOf(d, f), Upsert(DropOpsOf(d, f), f, type, from, to))
  BY <1>1, UpsertFollows DEF Follows
<1>3. QED
  BY <1>1, <1>2, FollowsOn DEF UpsertAlone

(* After replace_all what the file has in the queue is new.                  *)
LEMMA UpsertAloneReplaces ==
    ASSUME NEW d, NEW f, NEW type \in OpType, NEW from \in Path, NEW to \in Path, Sound(d),
           NEW q \in UpsertAlone(d, f, type, from, to).queue
    PROVE  q.file # f \/ q.id = d.nextOp
<1> DEFINE c == DropOpsOf(d, f)
<1>1. c.queue = {o \in d.queue : o.file # f} /\ c.nextOp = d.nextOp
  BY DEF DropOpsOf, Sound, Database
<1>2. Coalesced(c, f, type) = {}
  BY <1>1 DEF Coalesced
<1>3. CASE ~HasRow(c, f)
  BY <1>1, <1>3 DEF UpsertAlone, Upsert
<1>4. CASE HasRow(c, f)
  <2>1. c \in Database
    BY DropOpsOfFollows DEF Follows, Sound
  <2>2. UpsertAlone(d, f, type, from, to).queue =
            c.queue \cup {[id |-> NewOpId(c), file |-> f, type |-> type,
                           status |-> "Pending", from |-> from, to |-> to]}
    BY <1>2, <1>4, <2>1 DEF UpsertAlone, Upsert, Database
  <2>3. QED
    BY <1>1, <2>2 DEF NewOpId
<1>5. QED
  BY <1>3, <1>4
-----------------------------------------------------------------------------
(* Paths stay paths.                                                         *)
LEMMA MovedType ==
    ASSUME NEW p \in Path, NEW from \in Path, NEW to \in Path
    PROVE  Moved(p, from, to) \in Path
<1>1. Len(p) \in Nat /\ Len(from) \in Nat
  BY LenProperties DEF Path
<1>2. \A i \in Len(from) + 1 .. Len(p) : p[i] \in Name
  BY <1>1, ElementOfSeq DEF Path
<1>3. SubSeq(p, Len(from) + 1, Len(p)) \in Seq(Name)
  BY <1>1, <1>2, SubSeqProperties
<1>4. QED
  BY <1>3, ConcatProperties DEF Moved, Path

LEMMA WithSuffixType ==
    ASSUME NEW p \in Path, NEW k \in Nat \ {0} PROVE WithSuffix(p, k) \in Path
<1>1. CASE p = <<>>
  <2>1. WithSuffix(p, k) = <<>>
    BY <1>1 DEF WithSuffix
  <2>2. QED
    BY <2>1, EmptySeq DEF Path
<1>2. CASE p # <<>>
  <2>1. Len(p) \in 1 .. Len(p) /\ p[Len(p)] \in Name
    BY <1>2, EmptySeq, ElementOfSeq DEF Path
  <2>2. [p[Len(p)] EXCEPT !.n = k] \in Name
    BY <2>1 DEF Name
  <2>3. QED
    BY <2>1, <2>2, ExceptSeq DEF WithSuffix, Path
<1>3. QED
  BY <1>1, <1>2

LEMMA NextConflictPathsType ==
    ASSUME NEW d, NEW p \in Path, NEW cp \in NextConflictPaths(d, p)
    PROVE  cp \in Path
<1>1. PICK k \in Last(p).n + 1 .. Last(p).n + 1 + Cardinality(UsedNames(d, p)) :
         cp = WithSuffix(p, k)
  BY DEF NextConflictPaths
<1>2. CASE p = <<>>
  <2>1. cp = <<>>
    BY <1>1, <1>2 DEF WithSuffix
  <2>2. QED
    BY <2>1, EmptySeq DEF Path
<1>3. CASE p # <<>>
  <2>1. Last(p) \in Name
    BY <1>3, EmptySeq, ElementOfSeq DEF Path, Last
  <2>2. k \in Nat \ {0}
    BY <1>1, <2>1 DEF Name
  <2>3. QED
    BY <1>1, <2>2, WithSuffixType
<1>4. QED
  BY <1>2, <1>3
-----------------------------------------------------------------------------
(* The functions made of several statements.                                 *)
LEMMA MoveRowsFollows ==
    ASSUME NEW d, NEW M, NEW from \in Path, NEW to \in Path, Sound(d)
    PROVE  Follows(d, MoveRows(d, M, from, to))
<1> DEFINE moves(r) == r \in M
           F == {IF moves(r) THEN [r EXCEPT !.path = Target(r.path, from, to)] ELSE r :
                    r \in d.files}
<1>1. \A r \in d.files : r \in Row /\ r.path \in Path /\ r.sync # "Conflict"
  BY DEF Sound, Database, Row
<1>2. \A r \in d.files : Target(r.path, from, to) \in Path
  BY <1>1, MovedType DEF Target
<1>3. \A r \in d.files : /\ [r EXCEPT !.path = Target(r.path, from, to)] \in Row
                         /\ [r EXCEPT !.path = Target(r.path, from, to)].sync # "Conflict"
  BY <1>1, <1>2 DEF Row
<1> HIDE DEF moves
<1>4. F \in SUBSET Row /\ \A r \in F : r.sync # "Conflict"
  BY <1>1, <1>3
<1>5. Follows(d, [d EXCEPT !.files = F])
  BY <1>4, FilesOnly
<1>6. QED
  BY <1>5 DEF MoveRows, moves

LEMMA RenameSubtreeFollows ==
    ASSUME NEW d, NEW from \in Path, NEW to \in Path, Sound(d)
    PROVE  Follows(d, RenameSubtree(d, from, to))
BY MoveRowsFollows DEF RenameSubtree

LEMMA EnsureRemoteRowFollows ==
    ASSUME NEW d, NEW res \in Resource, NEW s \in SyncState \ {"Conflict"},
           NEW id \in FileId, Sound(d)
    PROVE  Follows(d, EnsureRemoteRow(d, res, s, id))
<1> DEFINE row == [id |-> id, path |-> res.path, kind |-> res.kind,
                   sync |-> s, ver |-> res.ver, cached |-> FALSE]
           kept(r) == IF r.sync \in Protected THEN r.sync ELSE s
           taken(r) == [r EXCEPT !.kind = res.kind, !.ver = res.ver, !.sync = kept(r)]
           F == {IF r.path = res.path THEN taken(r) ELSE r : r \in d.files}
<1>1. CASE RowAt(d, res.path) = {}
  <2>1. row \in Row /\ row.sync # "Conflict"
    BY DEF Row, Resource
  <2>2. QED
    BY <1>1, <2>1, InsertRowFollows DEF EnsureRemoteRow
<1>2. CASE RowAt(d, res.path) # {}
  <2>1. \A r \in d.files : r \in Row /\ r.sync \in SyncState /\ r.sync # "Conflict"
    BY DEF Sound, Database, Row
  <2>2. \A r \in d.files : kept(r) \in SyncState \ {"Conflict"}
    BY <2>1
  <2> HIDE DEF kept
  <2>3. \A r \in d.files : taken(r) \in Row /\ taken(r).sync # "Conflict"
    BY <2>1, <2>2 DEF Row, Resource
  <2> HIDE DEF taken
  <2>4. F \in SUBSET Row /\ \A r \in F : r.sync # "Conflict"
    BY <2>1, <2>3
  <2>5. Follows(d, [d EXCEPT !.files = F])
    BY <2>4, FilesOnly
  <2>6. QED
    BY <1>2, <2>5 DEF EnsureRemoteRow, taken, kept
<1>3. QED
  BY <1>1, <1>2

(* The row moved aside, before anything is queued for it.                    *)
LEMMA AsideFollows ==
    ASSUME NEW d, NEW f, NEW from \in Path, NEW cp \in Path, Sound(d)
    PROVE  /\ Follows(d, ForgetVersion(RenameSubtree(d, from, cp), f))
           /\ ForgetVersion(RenameSubtree(d, from, cp), f).nextOp = d.nextOp
<1> DEFINE e == RenameSubtree(d, from, cp)
<1>1. Follows(d, e)
  BY RenameSubtreeFollows
<1>2. Follows(e, ForgetVersion(e, f))
  BY <1>1, ForgetVersionFollows DEF Follows
<1>3. e.nextOp = d.nextOp /\ ForgetVersion(e, f).nextOp = e.nextOp
  BY <1>1 DEF RenameSubtree, MoveRows, ForgetVersion, Follows, Sound, Database
<1>4. QED
  BY <1>1, <1>2, <1>3, FollowsOn

(* apply_conflict_locked, with what it leaves in the queue for the file.     *)
LEMMA ApplyConflictFollows ==
    ASSUME NEW d, NEW f \in FileId, NEW from \in Path, NEW cp \in Path, Sound(d)
    PROVE  /\ Follows(d, ApplyConflict(d, f, from, cp))
           /\ \A q \in ApplyConflict(d, f, from, cp).queue : q.file # f \/ q.id = d.nextOp
<1> DEFINE aside == ForgetVersion(RenameSubtree(d, from, cp), f)
           queued == UpsertAlone(aside, f, "Upload", cp, RootPath)
           e == [queued EXCEPT !.copies = @ \cup {<<f, cp>>}]
<1>1. Follows(d, aside) /\ aside.nextOp = d.nextOp
  BY AsideFollows
<1>2. "Upload" \in OpType /\ RootPath \in Path
  BY EmptySeq DEF OpType, RootPath, Path
<1>3. Follows(aside, queued)
  BY <1>1, <1>2, UpsertAloneFollows DEF Follows
<1>4. Follows(d, queued)
  BY <1>1, <1>3, FollowsOn
<1>5. \A q \in queued.queue : q.file # f \/ q.id = d.nextOp
  BY <1>1, <1>2, UpsertAloneReplaces DEF Follows
<1>6. e = ApplyConflict(d, f, from, cp)
  BY DEF ApplyConflict
<1> HIDE DEF queued
<1>7. /\ e \in Database /\ e.files = queued.files
      /\ e.queue = queued.queue /\ e.nextOp = queued.nextOp
  <2>1. queued \in Database /\ queued.copies \cup {<<f, cp>>} \in SUBSET (FileId \X Path)
    BY <1>4 DEF Follows, Sound, Database
  <2>2. QED
    BY <2>1 DEF Database
<1>8. Follows(d, e)
  BY <1>4, <1>7 DEF Follows, Sound, Grows
<1>9. QED
  BY <1>5, <1>6, <1>7, <1>8

(* finish_job changes nothing when the job is gone.                          *)
LEMMA FinishJobFollows ==
    ASSUME NEW d, NEW i, Sound(d), \A o \in d.queue : o.id # i
    PROVE  FinishJob(d, i) = d
BY DEF FinishJob

LEMMA RetryOrFailFollows ==
    ASSUME NEW d, NEW o, NEW retryable \in BOOLEAN, Sound(d)
    PROVE  Follows(d, RetryOrFail(d, o, retryable))
<1> DEFINE e == IF retryable THEN SetStatus(d, o.id, "Retryable") ELSE DropOp(d, o.id)
<1>1. Follows(d, e)
  BY SetStatusFollows, DropOpFollows DEF OpStatus
<1>2. Follows(e, SetSync(e, o.file, "Error"))
  BY <1>1, SetSyncFollows DEF Follows, SyncState
<1>3. QED
  BY <1>1, <1>2, FollowsOn DEF RetryOrFail
-----------------------------------------------------------------------------
(* The remote tree stays one.                                                *)
LEMMA PutFileType ==
    ASSUME NEW tree \in SUBSET Resource, NEW p \in Path, NEW data \in Nat, NEW v \in Nat
    PROVE  PutFile(tree, p, data, v) \in SUBSET Resource
BY DEF PutFile, Meta, Resource, Kind

LEMMA CreateDirType ==
    ASSUME NEW tree \in SUBSET Resource, NEW p \in Path, NEW v \in Nat
    PROVE  CreateDir(tree, p, v) \in SUBSET Resource
BY DEF CreateDir, Resource, Kind, NoData

LEMMA DeleteTreeType ==
    ASSUME NEW tree \in SUBSET Resource, NEW p
    PROVE  DeleteTree(tree, p) \in SUBSET Resource
BY DEF DeleteTree

LEMMA MoveTreeType ==
    ASSUME NEW tree \in SUBSET Resource, NEW from \in Path, NEW to \in Path, NEW v \in Nat
    PROVE  MoveTree(tree, from, to, v) \in SUBSET Resource
<1>1. \A x \in tree : x \in Resource /\ x.path \in Path
  BY DEF Resource
<1>2. \A x \in tree : Moved(x.path, from, to) \in Path
  BY <1>1, MovedType
<1>3. \A x \in tree : [x EXCEPT !.path = Moved(x.path, from, to), !.ver = v] \in Resource
  BY <1>1, <1>2 DEF Resource
<1>4. QED
  BY <1>3 DEF MoveTree

LEMMA MetaType ==
    ASSUME NEW tree \in SUBSET Resource, NEW p
    PROVE  /\ Meta(tree, p) \in SUBSET Resource
           /\ Meta(tree, p) # {} => The(Meta(tree, p)) \in Resource
BY DEF Meta, The

LEMMA RemoteVersionType ==
    ASSUME NEW found \in SUBSET Resource
    PROVE  RemoteVersion(found) \in Nat
<1>1. found # {} => The(found) \in Resource
  BY DEF The
<1>2. QED
  BY <1>1 DEF RemoteVersion, NoVersion, Resource
-----------------------------------------------------------------------------
(* The id of job is taken in d, by job itself or by an operation that is gone. *)
Held(d, job) ==
    /\ job.id < d.nextOp
    /\ \A o \in d.queue : o.id = job.id => o.file = job.file /\ o.type = job.type

JobHeld == w.pc # "idle" => Held(db, w.job)

(* The conflict that leads to finish_job has deleted the job.                *)
FinishedJobGone == w.pc = "u_finish" => \A o \in db.queue : o.id # w.job.id

(* What is true of the database is true of the transaction on it.            *)
TxSound == w.pc = "f_apply" => Sound(w.tx) /\ Held(w.tx, w.job)

(* The row that create_file or mkdir is about to insert.                     *)
NewRowsQueued ==
    \A t \in Thread :
        th[t].pc \in {"create", "mkdir"} => th[t].entry.sync = "QueuedUpload"

Inv ==
    /\ TypeOK
    /\ Sound(db)
    /\ JobHeld
    /\ FinishedJobGone
    /\ TxSound
    /\ NewRowsQueued
-----------------------------------------------------------------------------
(* Types of the parts of the state, for the proofs below.                    *)
LEMMA RootTypes ==
    /\ RootPath \in Path
    /\ RootRow \in Row
    /\ IdleThread \in ThreadState
    /\ IdleWorker \in WorkerState
    /\ IdleWorker.pc = "idle"
<1>1. RootPath \in Path
  BY EmptySeq DEF RootPath, Path
<1>2. RootRow \in Row
  BY <1>1, RootAssumption DEF RootRow, Row, Kind, SyncState, NoVersion
<1>3. IdleThread \in ThreadState
  BY <1>1, <1>2 DEF IdleThread, ThreadState, ThreadPc, NoData
<1>4. NullOp \in Op /\ NoTx \in Database
  BY <1>1, RootAssumption DEF NullOp, Op, OpType, OpStatus, NoTx, Database
<1>5. IdleWorker \in WorkerState /\ IdleWorker.pc = "idle"
  BY <1>1, <1>2, <1>4 DEF IdleWorker, WorkerState, WorkerPc, NoData
<1>6. QED
  BY <1>1, <1>2, <1>3, <1>5

LEMMA FreshIdType == ASSUME FileId \ born # {} PROVE FreshId \in FileId
BY DEF FreshId

LEMMA SpendType ==
    ASSUME TypeOK, NEW kind, Spend(kind)
    PROVE  spent' \in Events
<1>1. spent \in Events
  BY DEF TypeOK
<1>2. spent' = [spent EXCEPT ![kind] = @ + 1]
  BY DEF Spend
<1>3. spent' = [k \in EventKind |-> IF k = kind THEN spent[k] + 1 ELSE spent[k]]
  BY <1>1, <1>2 DEF Events
<1>4. QED
  BY <1>1, <1>3 DEF Events
-----------------------------------------------------------------------------
(* The three ways in which a step keeps the invariant: it leaves the worker  *)
(* alone, it ends the worker's job, or it carries the job on.                *)
LEMMA HeldFollows ==
    ASSUME NEW d, NEW e, NEW job \in Op, Sound(d), Follows(d, e), Held(d, job)
    PROVE  Held(e, job)
<1>1. d.nextOp \in Nat /\ e.nextOp \in Nat /\ job.id \in Nat /\ job.id < e.nextOp
  BY DEF Follows, Sound, Grows, Database, Held, Op
<1>2. ASSUME NEW q \in e.queue, q.id = job.id
      PROVE  q.file = job.file /\ q.type = job.type
  <2>1. PICK o \in d.queue : o.id = q.id /\ o.file = q.file /\ o.type = q.type
    BY <1>1, <1>2 DEF Follows, Grows, Held
  <2>2. QED
    BY <1>2, <2>1 DEF Held
<1>3. QED
  BY <1>1, <1>2 DEF Held

LEMMA GoneStaysGone ==
    ASSUME NEW d, NEW e, NEW job \in Op, Sound(d), Follows(d, e), Held(d, job),
           \A o \in d.queue : o.id # job.id
    PROVE  \A o \in e.queue : o.id # job.id
BY DEF Follows, Grows, Sound, Database, Held, Op

LEMMA JobType == ASSUME TypeOK PROVE w.job \in Op
BY DEF TypeOK, WorkerState

LEMMA CallKeeps ==
    ASSUME Inv, TypeOK', w' = w, Follows(db, db'), NewRowsQueued'
    PROVE  Inv'
<1>1. w.job \in Op
  BY JobType DEF Inv
<1>2. Sound(db')
  BY DEF Follows
<1>3. JobHeld'
  BY <1>1, HeldFollows DEF Inv, JobHeld, Held
<1>4. FinishedJobGone'
  BY <1>1, GoneStaysGone DEF Inv, JobHeld, FinishedJobGone
<1>5. TxSound'
  BY DEF Inv, TxSound, Held
<1>6. QED
  BY <1>2, <1>3, <1>4, <1>5 DEF Inv

LEMMA EndKeeps ==
    ASSUME Inv, TypeOK', w'.pc = "idle", Follows(db, db'), th' = th
    PROVE  Inv'
BY DEF Inv, Follows, JobHeld, FinishedJobGone, TxSound, NewRowsQueued

LEMMA StepKeeps ==
    ASSUME Inv, TypeOK', w.pc # "idle", w'.job = w.job,
           w'.pc \notin {"u_finish", "f_apply"}, Follows(db, db'), th' = th
    PROVE  Inv'
<1>1. w.job \in Op
  BY JobType DEF Inv
<1>2. Sound(db') /\ Held(db, w.job)
  BY DEF Follows, Inv, JobHeld
<1>3. Held(db', w'.job)
  BY <1>1, <1>2, HeldFollows DEF Inv, Held
<1>4. QED
  BY <1>2, <1>3 DEF Inv, JobHeld, FinishedJobGone, TxSound, NewRowsQueued
-----------------------------------------------------------------------------
(* The steps of a FUSE thread: its own variables.                            *)
LEMMA BeginKeeps ==
    ASSUME Inv, NEW t \in Thread, NEW step \in ThreadPc, NEW entry \in Row, NEW to \in Path,
           Begin(t, step, entry, to),
           step \in {"create", "mkdir"} => entry.sync = "QueuedUpload"
    PROVE  th' \in [Thread -> ThreadState] /\ NewRowsQueued'
<1> DEFINE new == [pc |-> step, entry |-> entry, to |-> to, data |-> NoData]
<1>1. new \in ThreadState /\ new.pc = step /\ new.entry = entry
  BY DEF ThreadState, NoData
<1>2. th \in [Thread -> ThreadState] /\ th' = [th EXCEPT ![t] = new]
  BY DEF Inv, TypeOK, Begin
<1> HIDE DEF new
<1>3. QED
  BY <1>1, <1>2 DEF Inv, NewRowsQueued

LEMMA AdvanceKeeps ==
    ASSUME Inv, NEW t \in Thread, NEW step \in ThreadPc \ {"create", "mkdir"},
           NEW data \in Nat, Advance(t, step, data)
    PROVE  th' \in [Thread -> ThreadState] /\ NewRowsQueued'
<1> DEFINE new == [th[t] EXCEPT !.pc = step, !.data = data]
<1>1. th \in [Thread -> ThreadState]
  BY DEF Inv, TypeOK
<1>2. new \in ThreadState /\ new.pc = step
  BY <1>1 DEF ThreadState
<1>3. th' = [th EXCEPT ![t] = new]
  BY <1>1 DEF Advance
<1> HIDE DEF new
<1>4. QED
  BY <1>1, <1>2, <1>3 DEF Inv, NewRowsQueued

LEMMA ReturnKeeps ==
    ASSUME Inv, NEW t \in Thread, Return(t)
    PROVE  th' \in [Thread -> ThreadState] /\ NewRowsQueued'
<1>1. th \in [Thread -> ThreadState] /\ th' = [th EXCEPT ![t] = IdleThread]
  BY DEF Inv, TypeOK, Return
<1>2. IdleThread \in ThreadState /\ IdleThread.pc = "idle"
  BY RootTypes DEF IdleThread
<1>3. QED
  BY <1>1, <1>2 DEF Inv, NewRowsQueued

(* What a call has in its variables.                                         *)
LEMMA CallTypes ==
    ASSUME TypeOK, NEW t \in Thread
    PROVE  /\ th[t].entry \in Row /\ th[t].entry.id \in FileId /\ th[t].entry.path \in Path
           /\ th[t].to \in Path /\ th[t].data \in Nat
BY DEF TypeOK, ThreadState, Row

LEMMA RowTypes ==
    ASSUME TypeOK, NEW r \in db.files PROVE r \in Row /\ r.path \in Path /\ r.id \in FileId
BY DEF TypeOK, Database, Row

LEMMA UserPathType == ASSUME NEW p \in UserPath PROVE p \in Path
BY StateAssumption

(* A call begins: the database is as it was.                                 *)
LEMMA CreateFileKeeps ==
    ASSUME Inv, NEW t \in Thread, NEW p \in UserPath, CreateFile(t, p) PROVE Inv'
<1> DEFINE row == [id |-> FreshId, path |-> p, kind |-> "File", sync |-> "QueuedUpload",
                   ver |-> NoVersion, cached |-> TRUE]
<1>1. FreshId \in FileId
  BY FreshIdType DEF CreateFile
<1>2. row \in Row /\ row.sync = "QueuedUpload" /\ RootPath \in Path
  BY <1>1, UserPathType, RootTypes DEF Row, Kind, SyncState, NoVersion
<1> HIDE DEF row
<1>3. th' \in [Thread -> ThreadState] /\ NewRowsQueued'
  BY <1>2, BeginKeeps DEF CreateFile, row, ThreadPc
<1>4. spent' \in Events
  BY SpendType DEF Inv, CreateFile, MayCall
<1>5. TypeOK'
  BY <1>1, <1>3, <1>4 DEF Inv, TypeOK, CreateFile, Tick
<1>6. w' = w /\ Follows(db, db')
  BY FollowsSelf DEF Inv, CreateFile
<1>7. QED
  BY <1>3, <1>5, <1>6, CallKeeps

LEMMA MakeDirKeeps ==
    ASSUME Inv, NEW t \in Thread, NEW p \in UserPath, MakeDir(t, p) PROVE Inv'
<1> DEFINE row == [id |-> FreshId, path |-> p, kind |-> "Dir", sync |-> "QueuedUpload",
                   ver |-> NoVersion, cached |-> FALSE]
<1>1. FreshId \in FileId
  BY FreshIdType DEF MakeDir
<1>2. row \in Row /\ row.sync = "QueuedUpload" /\ RootPath \in Path
  BY <1>1, UserPathType, RootTypes DEF Row, Kind, SyncState, NoVersion
<1> HIDE DEF row
<1>3. th' \in [Thread -> ThreadState] /\ NewRowsQueued'
  BY <1>2, BeginKeeps DEF MakeDir, row, ThreadPc
<1>4. spent' \in Events
  BY SpendType DEF Inv, MakeDir, MayCall
<1>5. TypeOK'
  BY <1>1, <1>3, <1>4 DEF Inv, TypeOK, MakeDir
<1>6. w' = w /\ Follows(db, db')
  BY FollowsSelf DEF Inv, MakeDir
<1>7. QED
  BY <1>3, <1>5, <1>6, CallKeeps

(* The calls that begin with an entry they find.                             *)
LEMMA LookupKeeps ==
    ASSUME Inv, NEW t \in Thread, NEW r \in db.files, NEW to \in Path,
           NEW step \in ThreadPc \ {"create", "mkdir"}, Begin(t, step, r, to),
           Spend("user"), UNCHANGED <<db, cache, born, remote, clock, w, edit>>
    PROVE  Inv'
<1>1. r \in Row
  BY RowTypes DEF Inv
<1>2. th' \in [Thread -> ThreadState] /\ NewRowsQueued'
  BY <1>1, BeginKeeps
<1>3. spent' \in Events
  BY SpendType DEF Inv
<1>4. TypeOK'
  BY <1>2, <1>3 DEF Inv, TypeOK
<1>5. QED
  BY <1>2, <1>4, CallKeeps, FollowsSelf DEF Inv

LEMMA CallBegins ==
    ASSUME Inv, NEW t \in Thread, Call(t) PROVE Inv'
<1> USE DEF Inv
<1>1. ASSUME NEW p \in UserPath, WriteFile(t, p) PROVE Inv'
  BY <1>1, LookupKeeps, RootTypes DEF WriteFile, MayCall, RowAt, ThreadPc
<1>2. ASSUME NEW p \in UserPath, Unlink(t, p) PROVE Inv'
  BY <1>2, LookupKeeps, RootTypes DEF Unlink, MayCall, RowAt, ThreadPc
<1>3. ASSUME NEW p \in UserPath, ReadFile(t, p) PROVE Inv'
  BY <1>3, LookupKeeps, RootTypes DEF ReadFile, MayCall, RowAt, ThreadPc
<1>4. ASSUME NEW p \in UserPath, NEW q \in UserPath, Rename(t, p, q) PROVE Inv'
  BY <1>4, LookupKeeps, UserPathType DEF Rename, MayCall, RowAt, ThreadPc
<1>5. QED
  BY <1>1, <1>2, <1>3, <1>4, CreateFileKeeps, MakeDirKeeps DEF Call
-----------------------------------------------------------------------------
(* A call goes on: the statements of its critical section.                   *)
LEMMA CreatedFollows ==
    ASSUME Inv, NEW t \in Thread, th[t].pc \in {"create", "mkdir"}, NEW type \in OpType
    PROVE  Follows(db, Created(t, type)) /\ Follows(db, Inserted(t))
<1>1. th[t].entry \in Row /\ th[t].entry.path \in Path /\ th[t].entry.sync = "QueuedUpload"
  BY CallTypes DEF Inv, NewRowsQueued
<1>2. Sound(db) /\ Follows(db, Inserted(t))
  BY <1>1, InsertRowFollows DEF Inv, Inserted
<1>3. Follows(Inserted(t), Upsert(Inserted(t), th[t].entry.id, type, th[t].entry.path, RootPath))
  BY <1>1, <1>2, UpsertFollows, RootTypes DEF Follows
<1>4. QED
  BY <1>2, <1>3, FollowsOn, FollowsSelf DEF Created

LEMMA WrittenFollows ==
    ASSUME Inv, NEW t \in Thread
    PROVE  /\ Follows(db, Written(t))
           /\ Follows(db, Upsert(Written(t), th[t].entry.id, "Upload", th[t].entry.path, RootPath))
<1>1. th[t].entry.path \in Path /\ Sound(db) /\ Follows(db, Written(t))
  BY CallTypes, SetCachedFollows DEF Inv, Written, SyncState
<1>2. Follows(Written(t), Upsert(Written(t), th[t].entry.id, "Upload", th[t].entry.path, RootPath))
  BY <1>1, UpsertFollows, RootTypes DEF Follows, OpType
<1>3. QED
  BY <1>1, <1>2, FollowsOn

LEMMA MarkedFollows ==
    ASSUME Inv, NEW t \in Thread
    PROVE  LET f == th[t].entry.id
               marked == SetSync(db, f, "QueuedDelete")
           IN  /\ Follows(db, marked)
               /\ Follows(db, DropOpsOf(marked, f))
               /\ Follows(db, UpsertAlone(marked, f, "Delete", th[t].entry.path, RootPath))
<1> DEFINE f == th[t].entry.id
           marked == SetSync(db, f, "QueuedDelete")
<1>1. th[t].entry.path \in Path /\ Sound(db) /\ Follows(db, marked)
  BY CallTypes, SetSyncFollows DEF Inv, SyncState
<1>2. Follows(marked, DropOpsOf(marked, f))
  BY <1>1, DropOpsOfFollows DEF Follows
<1>3. Follows(marked, UpsertAlone(marked, f, "Delete", th[t].entry.path, RootPath))
  BY <1>1, UpsertAloneFollows, RootTypes DEF Follows, OpType
<1>4. QED
  BY <1>1, <1>2, <1>3, FollowsOn

LEMMA RenamedFollows ==
    ASSUME Inv, NEW t \in Thread
    PROVE  LET e == th[t].entry
           IN  /\ Follows(db, Renamed(t))
               /\ Follows(db, Upsert(Renamed(t), e.id, "Rename", e.path, th[t].to))
<1> DEFINE e == th[t].entry
<1>1. e.path \in Path /\ th[t].to \in Path /\ Sound(db) /\ Follows(db, Renamed(t))
  BY CallTypes, RenameSubtreeFollows DEF Inv, Renamed
<1>2. Follows(Renamed(t), Upsert(Renamed(t), e.id, "Rename", e.path, th[t].to))
  BY <1>1, UpsertFollows DEF Follows, OpType
<1>3. QED
  BY <1>1, <1>2, FollowsOn

LEMMA ReadCommitFollows ==
    ASSUME Inv, NEW t \in Thread, ReadCommit(t)
    PROVE  Follows(db, db')
<1> DEFINE f == th[t].entry.id
           read(r) == [r EXCEPT !.cached = TRUE,
                                !.sync = IF @ = "Placeholder" THEN "Synced" ELSE @]
           F == {IF r.id = f THEN read(r) ELSE r : r \in db.files}
<1>1. \A r \in db.files : r \in Row /\ r.sync # "Conflict"
  BY DEF Inv, Sound, Database
<1>2. \A r \in db.files : read(r) \in Row /\ read(r).sync # "Conflict"
  BY <1>1 DEF Row, SyncState
<1>3. db' = [db EXCEPT !.files = F]
  BY DEF ReadCommit
<1> HIDE DEF read
<1>4. F \in SUBSET Row /\ \A r \in F : r.sync # "Conflict"
  BY <1>1, <1>2
<1>5. QED
  BY <1>3, <1>4, FilesOnly DEF Inv

LEMMA CallGoesOn ==
    ASSUME Inv, NEW t \in Thread, CallStep(t) PROVE Inv'
<1> USE DEF Inv
<1>0. /\ th[t].entry.id \in FileId /\ th[t].data \in Nat
      /\ clock \in Nat /\ cache \in [FileId -> Nat] /\ edit \in [FileId -> Nat]
  BY CallTypes DEF TypeOK
<1>1. CASE CreateCommit(t)
  <2>1. Follows(db, db')
    BY <1>1, CreatedFollows DEF CreateCommit, OpType
  <2>2. th' \in [Thread -> ThreadState] /\ NewRowsQueued'
    BY <1>1, ReturnKeeps DEF CreateCommit
  <2>3. TypeOK'
    BY <1>0, <1>1, <2>1, <2>2 DEF CreateCommit, TypeOK, Follows, Sound
  <2>4. QED
    BY <1>1, <2>1, <2>2, <2>3, CallKeeps DEF CreateCommit
<1>2. CASE MkdirCommit(t)
  <2>1. Follows(db, db')
    BY <1>2, CreatedFollows DEF MkdirCommit, OpType
  <2>2. th' \in [Thread -> ThreadState] /\ NewRowsQueued'
    BY <1>2, ReturnKeeps DEF MkdirCommit
  <2>3. TypeOK'
    BY <1>2, <2>1, <2>2 DEF MkdirCommit, TypeOK, Follows, Sound
  <2>4. QED
    BY <1>2, <2>1, <2>2, <2>3, CallKeeps DEF MkdirCommit
<1>3. CASE WriteCopy(t)
  <2>1. th' \in [Thread -> ThreadState] /\ NewRowsQueued'
    <3>1. Advance(t, "apply", clock + 1) /\ clock + 1 \in Nat
      BY <1>0, <1>3 DEF WriteCopy
    <3>2. "apply" \in ThreadPc \ {"create", "mkdir"}
      BY DEF ThreadPc
    <3>3. QED
      BY <3>1, <3>2, AdvanceKeeps
  <2>2. TypeOK'
    BY <1>0, <1>3, <2>1 DEF WriteCopy, TypeOK, Tick
  <2>3. QED
    BY <1>3, <2>1, <2>2, CallKeeps, FollowsSelf DEF WriteCopy
<1>4. CASE WriteCommit(t)
  <2>1. Follows(db, db')
    BY <1>4, WrittenFollows DEF WriteCommit
  <2>2. th' \in [Thread -> ThreadState] /\ NewRowsQueued'
    BY <1>4, ReturnKeeps DEF WriteCommit
  <2>3. TypeOK'
    BY <1>0, <1>4, <2>1, <2>2 DEF WriteCommit, TypeOK, Follows, Sound
  <2>4. QED
    BY <1>4, <2>1, <2>2, <2>3, CallKeeps DEF WriteCommit
<1>5. CASE UnlinkCommit(t)
  <2>1. Follows(db, db')
    BY <1>5, MarkedFollows, DeleteRowFollows DEF UnlinkCommit
  <2>2. th' \in [Thread -> ThreadState] /\ NewRowsQueued'
    BY <1>5, ReturnKeeps DEF UnlinkCommit
  <2>3. TypeOK'
    BY <1>0, <1>5, <2>1, <2>2 DEF UnlinkCommit, TypeOK, Follows, Sound, NoData
  <2>4. QED
    BY <1>5, <2>1, <2>2, <2>3, CallKeeps DEF UnlinkCommit
<1>6. CASE RenameCommit(t)
  <2>1. Follows(db, db')
    BY <1>6, RenamedFollows DEF RenameCommit
  <2>2. th' \in [Thread -> ThreadState] /\ NewRowsQueued'
    BY <1>6, ReturnKeeps DEF RenameCommit
  <2>3. TypeOK'
    BY <1>6, <2>1, <2>2 DEF RenameCommit, TypeOK, Follows, Sound
  <2>4. QED
    BY <1>6, <2>1, <2>2, <2>3, CallKeeps DEF RenameCommit
<1>7. CASE ReadDownload(t)
  <2>1. \A x \in remote : x.data \in Nat
    BY DEF TypeOK, Resource
  <2>2. \A x \in Meta(remote, th[t].entry.path) : The(Meta(remote, th[t].entry.path)).data \in Nat
    BY <2>1 DEF Meta, The
  <2>3. th' \in [Thread -> ThreadState] /\ NewRowsQueued'
    <3> DEFINE found == Meta(remote, th[t].entry.path)
    <3>1. CASE \E x \in found : x.kind = "File"
      <4>1. Advance(t, "store", The(found).data) /\ The(found).data \in Nat
        BY <1>7, <2>2, <3>1 DEF ReadDownload
      <4>2. "store" \in ThreadPc \ {"create", "mkdir"}
        BY DEF ThreadPc
      <4>3. QED
        BY <4>1, <4>2, AdvanceKeeps
    <3>2. CASE ~\E x \in found : x.kind = "File"
      BY <1>7, <3>2, ReturnKeeps DEF ReadDownload
    <3>3. QED
      BY <3>1, <3>2
  <2>4. TypeOK'
    BY <1>7, <2>3 DEF ReadDownload, TypeOK
  <2>5. QED
    BY <1>7, <2>3, <2>4, CallKeeps, FollowsSelf DEF ReadDownload
<1>8. CASE ReadDownloadFails(t)
  <2>1. th' \in [Thread -> ThreadState] /\ NewRowsQueued'
    BY <1>8, ReturnKeeps DEF ReadDownloadFails
  <2>2. TypeOK'
    BY <1>8, <2>1, SpendType DEF ReadDownloadFails, TypeOK
  <2>3. QED
    BY <1>8, <2>1, <2>2, CallKeeps, FollowsSelf DEF ReadDownloadFails
<1>9. CASE ReadStore(t)
  <2>1. th' \in [Thread -> ThreadState] /\ NewRowsQueued'
    BY <1>9, AdvanceKeeps DEF ReadStore, ThreadPc, NoData
  <2>2. TypeOK'
    BY <1>0, <1>9, <2>1 DEF ReadStore, TypeOK
  <2>3. QED
    BY <1>9, <2>1, <2>2, CallKeeps, FollowsSelf DEF ReadStore
<1>10. CASE ReadCommit(t)
  <2>1. Follows(db, db')
    BY <1>10, ReadCommitFollows
  <2>2. th' \in [Thread -> ThreadState] /\ NewRowsQueued'
    BY <1>10, ReturnKeeps DEF ReadCommit
  <2>3. TypeOK'
    BY <1>10, <2>1, <2>2 DEF ReadCommit, TypeOK, Follows, Sound
  <2>4. QED
    BY <1>10, <2>1, <2>2, <2>3, CallKeeps DEF ReadCommit
<1>11. QED
  BY <1>1, <1>2, <1>3, <1>4, <1>5, <1>6, <1>7, <1>8, <1>9, <1>10 DEF CallStep

LEMMA RequestRefreshFollows ==
    ASSUME NEW d, Sound(d)
    PROVE  Follows(d, Upsert(d, Root, "RefreshTree", RootPath, RootPath))
BY UpsertFollows, RootTypes DEF OpType

LEMMA RequestRefreshKeeps == ASSUME Inv, RequestRefresh PROVE Inv'
<1>1. Follows(db, db')
  BY RequestRefreshFollows DEF Inv, RequestRefresh
<1>2. TypeOK'
  BY <1>1, SpendType DEF Inv, RequestRefresh, TypeOK, Follows, Sound
<1>3. QED
  BY <1>1, <1>2, CallKeeps DEF Inv, RequestRefresh, NewRowsQueued
-----------------------------------------------------------------------------
(* The steps of the worker: what it has in its variables, and the two ways  *)
(* in which most of its steps leave them.                                    *)
LEMMA WorkerTypes ==
    ASSUME TypeOK
    PROVE  /\ w \in WorkerState /\ w.job \in Op /\ w.job.id \in Nat /\ w.job.file \in FileId
           /\ w.job.type \in OpType /\ w.job.from \in Path /\ w.job.to \in Path
           /\ w.entry \in Row /\ w.entry.path \in Path
           /\ w.meta \in SUBSET Resource /\ w.data \in Nat /\ w.again \in BOOLEAN
BY DEF TypeOK, WorkerState, Op, Row

(* All of the state but the store, the threads and the worker.               *)
OutsideOK ==
    /\ cache \in [FileId -> Nat]
    /\ born \subseteq FileId
    /\ remote \subseteq Resource
    /\ clock \in Nat
    /\ edit \in [FileId -> Nat]
    /\ spent \in Events

LEMMA OutsideSame ==
    ASSUME Inv, UNCHANGED <<cache, born, remote, clock, edit, spent>> PROVE OutsideOK'
BY DEF Inv, TypeOK, OutsideOK

LEMMA JobEnds ==
    ASSUME Inv, Finish, Follows(db, db'), th' = th, OutsideOK'
    PROVE  Inv'
<1>1. w' \in WorkerState /\ w'.pc = "idle"
  BY RootTypes DEF Finish
<1>2. TypeOK'
  BY <1>1 DEF Inv, TypeOK, OutsideOK, Follows, Sound
<1>3. QED
  BY <1>1, <1>2, EndKeeps

LEMMA JobGoesOn ==
    ASSUME Inv, w.pc # "idle", w' \in WorkerState, w'.job = w.job,
           w'.pc \notin {"u_finish", "f_apply"}, Follows(db, db'), th' = th, OutsideOK'
    PROVE  Inv'
<1>1. TypeOK'
  BY DEF Inv, TypeOK, OutsideOK, Follows, Sound
<1>2. QED
  BY <1>1, StepKeeps

LEMMA GotoTypes ==
    ASSUME TypeOK, NEW step \in WorkerPc, Goto(step)
    PROVE  w' \in WorkerState /\ w'.job = w.job /\ w'.pc = step
BY DEF TypeOK, Goto, WorkerState

LEMMA GotoKeeps ==
    ASSUME Inv, w.pc # "idle", NEW step \in WorkerPc \ {"u_finish", "f_apply"}, Goto(step),
           Follows(db, db'), th' = th, OutsideOK'
    PROVE  Inv'
BY GotoTypes, JobGoesOn DEF Inv

(* Into retry_or_fail.                                                       *)
LEMMA FailKeeps ==
    ASSUME Inv, w.pc # "idle", NEW b \in BOOLEAN,
           w' = [w EXCEPT !.pc = "fail", !.again = b],
           Follows(db, db'), th' = th, OutsideOK'
    PROVE  Inv'
<1>1. w' \in WorkerState /\ w'.job = w.job /\ w'.pc = "fail"
  BY WorkerTypes DEF Inv, WorkerState, WorkerPc
<1>2. QED
  BY <1>1, JobGoesOn

(* The resource just fetched.                                                *)
LEMMA MetaKeeps ==
    ASSUME Inv, w.pc # "idle", NEW step \in WorkerPc \ {"u_finish", "f_apply"},
           NEW found \in SUBSET Resource,
           w' = [w EXCEPT !.pc = step, !.meta = found],
           Follows(db, db'), th' = th, OutsideOK'
    PROVE  Inv'
<1>1. w' \in WorkerState /\ w'.job = w.job /\ w'.pc = step
  BY WorkerTypes DEF Inv, WorkerState
<1>2. QED
  BY <1>1, JobGoesOn
-----------------------------------------------------------------------------
(* worker_loop.                                                              *)
LEMMA RecoverLeaseKeeps == ASSUME Inv, RecoverLease PROVE Inv'
<1>1. Follows(db, db')
  BY SetStatusFollows DEF Inv, RecoverLease, OpStatus
<1>2. TypeOK' /\ NewRowsQueued'
  BY <1>1 DEF Inv, RecoverLease, TypeOK, Follows, Sound, NewRowsQueued
<1>3. QED
  BY <1>1, <1>2, CallKeeps DEF RecoverLease

LEMMA LeaseKeeps == ASSUME Inv, Lease PROVE Inv'
<1>1. PICK o \in Leasable(db) :
         /\ db' = SetStatus(db, o.id, "Leased")
         /\ w' = [w EXCEPT !.pc = "start", !.job = [o EXCEPT !.status = "Leased"]]
  BY DEF Lease
<1>2. o \in db.queue /\ o \in Op
  BY DEF Leasable, Inv, TypeOK, Database
<1> DEFINE job == [o EXCEPT !.status = "Leased"]
<1>3. job \in Op /\ job.id = o.id /\ job.file = o.file /\ job.type = o.type
  BY <1>2 DEF Op, OpStatus
<1>4. Follows(db, db')
  BY <1>1, SetStatusFollows DEF Inv, OpStatus
<1>5. Held(db, job)
  BY <1>2, <1>3 DEF Inv, Sound, Held
<1> HIDE DEF job
<1>6. w' \in WorkerState /\ w'.job = job /\ w'.pc = "start"
  BY <1>1, <1>3, WorkerTypes DEF Inv, WorkerState, WorkerPc, job
<1>7. Held(db', w'.job)
  BY <1>3, <1>4, <1>5, <1>6, HeldFollows DEF Inv
<1>8. TypeOK' /\ NewRowsQueued'
  BY <1>4, <1>6 DEF Inv, Lease, TypeOK, Follows, Sound, NewRowsQueued
<1>9. QED
  BY <1>4, <1>6, <1>7, <1>8 DEF Inv, Follows, JobHeld, FinishedJobGone, TxSound

(* The state Conflict, which would lead to finish_job at once, is not found. *)
LEMMA StartKeeps == ASSUME Inv, Start PROVE Inv'
<1> DEFINE type == w.job.type
           found == IF type \in {"Upload", "Mkdir", "Download"} THEN Mine ELSE {RootRow}
           start == IF type = "RefreshTree" THEN spent.other ELSE 0
<1>0. Follows(db, db') /\ th' = th /\ OutsideOK' /\ w.pc # "idle"
  BY FollowsSelf, OutsideSame DEF Inv, Start, At
<1>1. \A r \in found : r \in Row /\ r.sync # "Conflict"
  <2>1. RootRow.sync # "Conflict"
    BY DEF RootRow
  <2>2. \A r \in db.files : r \in Row /\ r.sync # "Conflict"
    BY DEF Inv, Sound, Database
  <2>3. QED
    BY <2>1, <2>2, RootTypes DEF Mine, RowOf
<1>2. CASE Abandon
  BY <1>0, <1>2, JobEnds DEF Abandon
<1>3. CASE /\ found # {}
           /\ w' = [w EXCEPT !.pc = FirstStep[type], !.entry = The(found),
                             !.walk = {RootPath}, !.before = start]
  <2>1. FirstStep[type] \in WorkerPc \ {"u_finish", "f_apply"}
    BY WorkerTypes DEF Inv, FirstStep, OpType, WorkerPc
  <2>2. The(found) \in Row
    BY <1>1, <1>3 DEF The
  <2>3. {RootPath} \in SUBSET Path /\ start \in Nat
    BY RootTypes DEF Inv, TypeOK, Events, EventKind
  <2> HIDE DEF type, found, start
  <2>4. w' \in WorkerState /\ w'.job = w.job /\ w'.pc = FirstStep[type]
    BY <1>3, <2>1, <2>2, <2>3, WorkerTypes DEF Inv, WorkerState
  <2>5. QED
    BY <1>0, <2>1, <2>4, JobGoesOn
<1>4. QED
  BY <1>1, <1>2, <1>3 DEF Start

LEMMA FailStepKeeps == ASSUME Inv, Fail PROVE Inv'
<1>1. Follows(db, db')
  BY WorkerTypes, RetryOrFailFollows DEF Inv, Fail
<1>2. QED
  BY <1>1, JobEnds, OutsideSame DEF Fail
-----------------------------------------------------------------------------
(* process_upload.                                                           *)
LEMMA UploadMarkKeeps == ASSUME Inv, UploadMark PROVE Inv'
<1>1. Follows(db, db')
  BY SetSyncFollows DEF Inv, UploadMark, SyncState
<1>2. QED
  BY <1>1, GotoKeeps, OutsideSame DEF UploadMark, At, WorkerPc

LEMMA UploadCheckKeeps == ASSUME Inv, UploadCheck PROVE Inv'
<1> DEFINE found == Meta(remote, w.entry.path)
           step == IF w.entry.ver = RemoteVersion(found) THEN "u_put" ELSE "u_conflict"
<1>1. found \in SUBSET Resource
  BY MetaType DEF Inv, TypeOK
<1>2. step \in WorkerPc \ {"u_finish", "f_apply"}
  BY DEF WorkerPc
<1>3. w.pc # "idle" /\ Follows(db, db') /\ th' = th /\ OutsideOK'
  BY FollowsSelf, OutsideSame DEF Inv, UploadCheck, At
<1>4. w' = [w EXCEPT !.pc = step, !.meta = found]
  BY WorkerTypes DEF Inv, UploadCheck, WorkerState
<1> HIDE DEF found, step
<1>5. QED
  BY <1>1, <1>2, <1>3, <1>4, MetaKeeps

(* handle_conflict deletes the job: finish_job will not find it.             *)
LEMMA UploadConflictKeeps == ASSUME Inv, UploadConflict PROVE Inv'
<1> DEFINE f == w.job.file
           from == w.entry.path
<1>1. FreshId \in FileId /\ f \in FileId /\ from \in Path /\ w.job \in Op
  BY FreshIdType, WorkerTypes DEF Inv, UploadConflict
<1>2. w.pc # "idle" /\ th' = th /\ Held(db, w.job) /\ Sound(db)
  BY DEF UploadConflict, At, Inv, JobHeld
<1>3. PICK cp \in NextConflictPaths(db, from) :
         IF ConflictFails(db, f, from, cp)
         THEN Abandon /\ UNCHANGED <<db, born>>
         ELSE /\ db' = IF w.meta = {} THEN ApplyConflict(db, f, from, cp)
                       ELSE EnsureRemoteRow(ApplyConflict(db, f, from, cp),
                                            The(w.meta), "Synced", FreshId)
              /\ born' = IF w.meta = {} THEN born ELSE born \cup {FreshId}
              /\ Goto("u_finish")
  BY DEF UploadConflict
<1>4. cp \in Path
  BY <1>1, NextConflictPathsType
<1>5. OutsideOK'
  BY <1>1, <1>3 DEF UploadConflict, Inv, TypeOK, OutsideOK
<1>6. CASE ConflictFails(db, f, from, cp)
  BY <1>2, <1>3, <1>5, <1>6, JobEnds, FollowsSelf DEF Abandon
<1>7. CASE ~ConflictFails(db, f, from, cp)
  <2> DEFINE aside == ApplyConflict(db, f, from, cp)
  <2>1. /\ Follows(db, aside)
        /\ \A q \in aside.queue : q.file # f \/ q.id = db.nextOp
    BY <1>1, <1>2, <1>4, ApplyConflictFollows
  <2>2. ASSUME w.meta # {} PROVE Follows(db, db') /\ db'.queue = aside.queue
    <3>1. The(w.meta) \in Resource /\ "Synced" \in SyncState \ {"Conflict"}
      BY <2>2, WorkerTypes DEF Inv, The, SyncState
    <3> HIDE DEF aside
    <3>2. Follows(aside, EnsureRemoteRow(aside, The(w.meta), "Synced", FreshId))
      BY <1>1, <2>1, <3>1, EnsureRemoteRowFollows DEF Follows
    <3>3. EnsureRemoteRow(aside, The(w.meta), "Synced", FreshId).queue = aside.queue
      BY <2>1 DEF EnsureRemoteRow, InsertRow, Follows, Sound, Database
    <3>4. Follows(db, db') /\ db'.queue = aside.queue
      BY <1>2, <1>3, <1>7, <2>1, <2>2, <3>2, <3>3, FollowsOn DEF aside
    <3>5. QED
      BY <3>4
  <2>3. Follows(db, db') /\ db'.queue = aside.queue
    BY <1>3, <1>7, <2>1, <2>2
  <2> HIDE DEF aside
  <2>4. w' \in WorkerState /\ w'.job = w.job /\ w'.pc = "u_finish"
    BY <1>3, <1>7, GotoTypes DEF Inv, WorkerPc
  <2>5. Held(db', w'.job)
    BY <1>1, <1>2, <2>3, <2>4, HeldFollows
  <2>6. \A q \in db'.queue : q.id # w.job.id
    <3>1. \A q \in db'.queue : q.id = w.job.id => q.file = f
      BY <2>4, <2>5 DEF Held
    <3>2. w.job.id # db.nextOp
      BY <1>1, <1>2 DEF Held, Sound, Database, Op
    <3>3. QED
      BY <2>1, <2>3, <3>1, <3>2
  <2>7. TypeOK' /\ NewRowsQueued'
    BY <1>2, <1>5, <2>3, <2>4 DEF Inv, TypeOK, OutsideOK, Follows, Sound, NewRowsQueued
  <2>8. QED
    BY <2>3, <2>4, <2>5, <2>6, <2>7 DEF Inv, Follows, JobHeld, FinishedJobGone, TxSound
<1>8. QED
  BY <1>6, <1>7

LEMMA UploadFinishKeeps == ASSUME Inv, UploadFinish PROVE Inv'
<1>1. db' = db
  BY FinishJobFollows DEF Inv, UploadFinish, At, FinishedJobGone
<1>2. QED
  BY <1>1, FollowsSelf, JobEnds, OutsideSame DEF Inv, UploadFinish

LEMMA UploadPutKeeps == ASSUME Inv, UploadPut PROVE Inv'
<1>1. /\ w.pc # "idle" /\ Follows(db, db') /\ th' = th
      /\ w.job.file \in FileId /\ w.entry.path \in Path /\ clock + 1 \in Nat
      /\ cache[w.job.file] \in Nat
  BY FollowsSelf, WorkerTypes DEF Inv, UploadPut, At, TypeOK
<1>2. PutFile(remote, w.entry.path, cache[w.job.file], clock + 1) \in SUBSET Resource
  BY <1>1, PutFileType DEF Inv, TypeOK
<1>3. CASE /\ w' = [w EXCEPT !.pc = "fail", !.again = FALSE]
           /\ UNCHANGED <<remote, clock, edit, spent>>
  BY <1>1, <1>3, FailKeeps, OutsideSame DEF UploadPut
<1>4. CASE /\ remote' = PutFile(remote, w.entry.path, cache[w.job.file], clock + 1)
           /\ Tick
           /\ edit' = [edit EXCEPT ![w.job.file] = NoData]
           /\ \/ Goto("u_fetch") /\ UNCHANGED spent
              \/ AnswerLost /\ Spend("fault")
  <2>1. spent' \in Events
    BY <1>4, SpendType DEF Inv, TypeOK
  <2>2. OutsideOK'
    BY <1>1, <1>2, <1>4, <2>1 DEF Inv, TypeOK, OutsideOK, UploadPut, Tick, NoData
  <2>3. CASE Goto("u_fetch")
    BY <1>1, <2>2, <2>3, GotoKeeps DEF WorkerPc
  <2>4. CASE AnswerLost
    BY <1>1, <2>2, <2>4, FailKeeps DEF AnswerLost
  <2>5. QED
    BY <1>4, <2>3, <2>4
<1>5. QED
  BY <1>3, <1>4 DEF UploadPut

LEMMA UploadFetchKeeps == ASSUME Inv, UploadFetch PROVE Inv'
<1> DEFINE found == Meta(remote, w.entry.path)
<1>1. w.pc # "idle" /\ Follows(db, db') /\ th' = th /\ OutsideOK'
  BY FollowsSelf, OutsideSame DEF Inv, UploadFetch, At
<1>2. found \in SUBSET Resource /\ "u_commit" \in WorkerPc \ {"u_finish", "f_apply"}
  BY MetaType DEF Inv, TypeOK, WorkerPc
<1>3. \/ w' = [w EXCEPT !.pc = "fail", !.again = FALSE]
      \/ w' = [w EXCEPT !.pc = "u_commit", !.meta = found]
  BY DEF UploadFetch
<1> HIDE DEF found
<1>4. QED
  BY <1>1, <1>2, <1>3, FailKeeps, MetaKeeps

LEMMA CommitSyncedKeeps == ASSUME Inv, CommitSynced PROVE Inv'
<1> DEFINE e == IF w.meta = {} THEN db
                ELSE SetSynced(db, w.job.file, RemoteVersion(w.meta))
<1>1. RemoteVersion(w.meta) \in Nat /\ Sound(db)
  BY RemoteVersionType, WorkerTypes DEF Inv
<1>2. Follows(db, e)
  BY <1>1, SetSyncedFollows, FollowsSelf
<1>3. Follows(e, DropOp(e, w.job.id))
  BY <1>2, DropOpFollows DEF Follows
<1>4. Follows(db, db')
  BY <1>1, <1>2, <1>3, FollowsOn DEF CommitSynced
<1>5. QED
  BY <1>4, JobEnds, OutsideSame DEF CommitSynced
-----------------------------------------------------------------------------
(* A call that changes the remote tree and may lose its answer.              *)
LEMMA RemoteCallKeeps ==
    ASSUME Inv, w.pc # "idle", NEW step \in WorkerPc \ {"u_finish", "f_apply"},
           remote' \in SUBSET Resource, clock' \in Nat,
           \/ Goto(step) /\ UNCHANGED spent
           \/ AnswerLost /\ Spend("fault"),
           UNCHANGED <<db, cache, born, th, edit>>
    PROVE  Inv'
<1>1. spent' \in Events
  BY SpendType DEF Inv, TypeOK
<1>2. OutsideOK' /\ Follows(db, db')
  BY <1>1, FollowsSelf DEF Inv, TypeOK, OutsideOK
<1>3. CASE Goto(step)
  BY <1>2, <1>3, GotoKeeps
<1>4. CASE AnswerLost
  BY <1>2, <1>4, FailKeeps DEF AnswerLost
<1>5. QED
  BY <1>3, <1>4

LEMMA DeletionKeeps == ASSUME Inv, DeleteCall \/ DeleteCommit PROVE Inv'
<1>1. CASE DeleteCall
  <2>1. remote' \in SUBSET Resource /\ clock' \in Nat
    BY <1>1, DeleteTreeType DEF Inv, TypeOK, DeleteCall
  <2>2. QED
    BY <1>1, <2>1, RemoteCallKeeps DEF DeleteCall, At, WorkerPc
<1>2. CASE DeleteCommit
  <2>1. Follows(db, DropOp(db, w.job.id)) /\ Sound(db)
    BY DropOpFollows DEF Inv
  <2>2. Follows(db, db')
    BY <1>2, <2>1, DeleteRowFollows, FollowsOn DEF DeleteCommit, Follows
  <2>3. QED
    BY <1>2, <2>2, JobEnds, OutsideSame DEF DeleteCommit
<1>3. QED
  BY <1>1, <1>2

LEMMA MakingKeeps == ASSUME Inv, MkdirCall \/ MkdirFetch \/ MkdirSynced PROVE Inv'
<1>1. CASE MkdirCall
  <2>1. clock' \in Nat /\ clock + 1 \in Nat
    BY <1>1 DEF Inv, TypeOK, MkdirCall, Tick
  <2>2. remote' \in SUBSET Resource
    BY <1>1, <2>1, CreateDirType, WorkerTypes DEF Inv, TypeOK, MkdirCall
  <2>3. QED
    BY <1>1, <2>1, <2>2, RemoteCallKeeps DEF MkdirCall, At, WorkerPc
<1>2. CASE MkdirFetch
  <2> DEFINE found == Meta(remote, w.entry.path)
  <2>1. w.pc # "idle" /\ Follows(db, db') /\ th' = th /\ OutsideOK'
    BY <1>2, FollowsSelf, OutsideSame DEF Inv, MkdirFetch, At
  <2>2. found \in SUBSET Resource /\ "m_commit" \in WorkerPc \ {"u_finish", "f_apply"}
    BY MetaType DEF Inv, TypeOK, WorkerPc
  <2>3. Abandon \/ w' = [w EXCEPT !.pc = "m_commit", !.meta = found]
    BY <1>2 DEF MkdirFetch
  <2> HIDE DEF found
  <2>4. QED
    BY <2>1, <2>2, <2>3, JobEnds, MetaKeeps DEF Abandon
<1>3. CASE MkdirSynced
  BY <1>3, CommitSyncedKeeps DEF MkdirSynced
<1>4. QED
  BY <1>1, <1>2, <1>3

LEMMA RenamingKeeps ==
    ASSUME Inv, RenameProbe \/ RenameDelete \/ RenameMove \/ RenameFetch \/ RenameSynced
    PROVE  Inv'
<1>1. CASE RenameProbe
  <2>1. PICK step \in {"r_delete", "r_move"} : Goto(step)
    BY <1>1 DEF RenameProbe
  <2>2. step \in WorkerPc \ {"u_finish", "f_apply"}
    BY DEF WorkerPc
  <2>3. w.pc # "idle" /\ Follows(db, db') /\ th' = th /\ OutsideOK'
    BY <1>1, FollowsSelf, OutsideSame DEF Inv, RenameProbe, At
  <2>4. QED
    BY <2>1, <2>2, <2>3, GotoKeeps
<1>2. CASE RenameDelete
  <2>1. remote' \in SUBSET Resource /\ clock' \in Nat
    BY <1>2, DeleteTreeType DEF Inv, TypeOK, RenameDelete
  <2>2. QED
    BY <1>2, <2>1, RemoteCallKeeps DEF RenameDelete, At, WorkerPc
<1>3. CASE RenameMove
  <2>1. clock' \in Nat /\ clock + 1 \in Nat
    BY <1>3 DEF Inv, TypeOK, RenameMove, Tick
  <2>2. remote' \in SUBSET Resource
    BY <1>3, <2>1, MoveTreeType, WorkerTypes DEF Inv, TypeOK, RenameMove
  <2>3. QED
    BY <1>3, <2>1, <2>2, RemoteCallKeeps DEF RenameMove, At, WorkerPc
<1>4. CASE RenameFetch
  <2> DEFINE found == Meta(remote, w.job.to)
  <2>1. w.pc # "idle" /\ Follows(db, db') /\ th' = th /\ OutsideOK'
    BY <1>4, FollowsSelf, OutsideSame DEF Inv, RenameFetch, At
  <2>2. found \in SUBSET Resource /\ "r_commit" \in WorkerPc \ {"u_finish", "f_apply"}
    BY MetaType DEF Inv, TypeOK, WorkerPc
  <2>3. w' = [w EXCEPT !.pc = "r_commit", !.meta = found]
    BY <1>4 DEF RenameFetch
  <2> HIDE DEF found
  <2>4. QED
    BY <2>1, <2>2, <2>3, MetaKeeps
<1>5. CASE RenameSynced
  BY <1>5, CommitSyncedKeeps DEF RenameSynced
<1>6. QED
  BY <1>1, <1>2, <1>3, <1>4, <1>5

LEMMA DownloadingKeeps ==
    ASSUME Inv, DownloadMark \/ DownloadGet \/ DownloadWrite \/ DownloadCommit
    PROVE  Inv'
<1>1. CASE DownloadMark
  <2>1. Follows(db, db')
    BY <1>1, SetSyncFollows DEF Inv, DownloadMark, SyncState
  <2>2. QED
    BY <1>1, <2>1, GotoKeeps, OutsideSame DEF DownloadMark, At, WorkerPc
<1>2. CASE DownloadGet
  <2> DEFINE found == Meta(remote, w.entry.path)
  <2>1. w.pc # "idle" /\ Follows(db, db') /\ th' = th /\ OutsideOK'
    BY <1>2, FollowsSelf, OutsideSame DEF Inv, DownloadGet, At
  <2>2. found # {} => The(found).data \in Nat
    BY MetaType DEF Inv, TypeOK, Resource
  <2>3. \/ found # {} /\ w' = [w EXCEPT !.pc = "l_write", !.data = The(found).data]
        \/ w' = [w EXCEPT !.pc = "fail", !.again = FALSE]
    BY <1>2 DEF DownloadGet
  <2> HIDE DEF found
  <2>4. CASE found # {} /\ w' = [w EXCEPT !.pc = "l_write", !.data = The(found).data]
    <3>1. w' \in WorkerState /\ w'.job = w.job /\ w'.pc = "l_write"
      BY <2>2, <2>4, WorkerTypes DEF Inv, WorkerState, WorkerPc
    <3>2. QED
      BY <2>1, <3>1, JobGoesOn
  <2>5. QED
    BY <2>1, <2>3, <2>4, FailKeeps
<1>3. CASE DownloadWrite
  <2>1. w.pc # "idle" /\ Follows(db, db') /\ th' = th
    BY <1>3, FollowsSelf DEF Inv, DownloadWrite, At
  <2>2. OutsideOK'
    BY <1>3, WorkerTypes DEF Inv, TypeOK, OutsideOK, DownloadWrite
  <2>3. QED
    BY <1>3, <2>1, <2>2, GotoKeeps DEF DownloadWrite, WorkerPc
<1>4. CASE DownloadCommit
  <2>1. Sound(db) /\ Follows(db, SetCached(db, w.job.file, "Synced"))
    BY SetCachedFollows DEF Inv, SyncState
  <2>2. Follows(db, db')
    BY <1>4, <2>1, DropOpFollows, FollowsOn DEF DownloadCommit, Follows
  <2>3. QED
    BY <1>4, <2>2, JobEnds, OutsideSame DEF DownloadCommit
<1>5. QED
  BY <1>1, <1>2, <1>3, <1>4
-----------------------------------------------------------------------------
(* process_refresh_tree: a step on the transaction that does not end it.     *)
LEMMA TxKeeps ==
    ASSUME Inv, w.pc = "f_apply", NEW tx, NEW todo \in SUBSET Resource, NEW gone \in SUBSET Row,
           w' = [w EXCEPT !.tx = tx, !.todo = todo, !.gone = gone],
           Follows(w.tx, tx), UNCHANGED <<db, th>>, OutsideOK'
    PROVE  Inv'
<1>1. tx \in Database /\ Sound(tx) /\ Sound(w.tx) /\ Held(w.tx, w.job) /\ w.job \in Op
  BY WorkerTypes DEF Inv, TxSound, Follows, Sound
<1>2. w' \in WorkerState /\ w'.job = w.job /\ w'.pc = "f_apply" /\ w'.tx = tx
  BY <1>1, WorkerTypes DEF Inv, WorkerState
<1>3. Held(tx, w.job)
  BY <1>1, HeldFollows
<1>4. TypeOK' /\ NewRowsQueued'
  BY <1>2 DEF Inv, TypeOK, OutsideOK, NewRowsQueued
<1>5. Sound(db') /\ Held(db', w'.job)
  BY <1>2 DEF Inv, JobHeld
<1>6. QED
  BY <1>1, <1>2, <1>3, <1>4, <1>5 DEF Inv, JobHeld, FinishedJobGone, TxSound

LEMMA RefreshTypes ==
    ASSUME Inv
    PROVE  /\ w.walk \in SUBSET Path /\ w.seen \in SUBSET Resource
           /\ w.todo \in SUBSET Resource /\ w.snap \in SUBSET Row
           /\ w.gone \in SUBSET Row /\ w.dir \in Path /\ w.offset \in Nat
           /\ w.pc = "f_apply" => Sound(w.tx)
BY DEF Inv, TypeOK, WorkerState, TxSound

LEMMA RefreshListKeeps == ASSUME Inv, RefreshList PROVE Inv'
<1>1. w.pc # "idle" /\ Follows(db, db') /\ th' = th /\ OutsideOK'
  BY FollowsSelf, OutsideSame DEF Inv, RefreshList, At
<1>2. PICK p \in IF w.offset = 0 THEN w.walk ELSE {w.dir} :
         LET page == Page(remote, p, w.offset)
             last == LastPage(remote, p, w.offset)
             walk == (IF last THEN w.walk \ {p} ELSE w.walk)
                        \cup {x.path : x \in {y \in page : y.kind = "Dir"}}
         IN  IF \E x \in Meta(remote, p) : x.kind = "Dir"
             THEN w' = [w EXCEPT !.pc = IF walk = {} THEN "f_snap" ELSE "f_list",
                                 !.walk = walk,
                                 !.dir = IF last THEN RootPath ELSE p,
                                 !.offset = IF last THEN 0 ELSE @ + PageSize,
                                 !.seen = Listed(@, page \cup
                                    IF p = RootPath THEN Meta(remote, p) ELSE {})]
             ELSE Abandon
  BY DEF RefreshList
<1> DEFINE page == Page(remote, p, w.offset)
           last == LastPage(remote, p, w.offset)
           walk == (IF last THEN w.walk \ {p} ELSE w.walk)
                      \cup {x.path : x \in {y \in page : y.kind = "Dir"}}
           seen == Listed(w.seen, page \cup IF p = RootPath THEN Meta(remote, p) ELSE {})
           step == IF walk = {} THEN "f_snap" ELSE "f_list"
           dir == IF last THEN RootPath ELSE p
           offset == IF last THEN 0 ELSE w.offset + PageSize
           listed == [w EXCEPT !.pc = step, !.walk = walk, !.dir = dir, !.offset = offset,
                               !.seen = seen]
<1>3. /\ walk \in SUBSET Path /\ seen \in SUBSET Resource
      /\ dir \in Path /\ offset \in Nat
      /\ step \in WorkerPc \ {"idle", "u_finish", "f_apply"}
  <2>1. page \in SUBSET Resource /\ \A x \in page : x.path \in Path
    BY DEF Inv, TypeOK, Page, Listing, Resource
  <2>2. Meta(remote, p) \in SUBSET Resource
    BY MetaType DEF Inv, TypeOK
  <2>3. p \in Path /\ RootPath \in Path /\ PageSize \in Nat
    BY RefreshTypes, RootTypes, DiskAssumption
  <2> HIDE DEF page, last
  <2>4. walk \in SUBSET Path
    BY <2>1, RefreshTypes
  <2>5. seen \in SUBSET Resource
    BY <2>1, <2>2, RefreshTypes DEF Listed
  <2>6. dir \in Path /\ offset \in Nat
    BY <2>3, RefreshTypes
  <2>7. QED
    BY <2>4, <2>5, <2>6 DEF WorkerPc
<1>4. CASE Abandon
  BY <1>1, <1>4, JobEnds DEF Abandon
<1>5. CASE w' = listed
  <2> HIDE DEF walk, seen, step, dir, offset
  <2>1. w' \in WorkerState /\ w'.job = w.job /\ w'.pc = step
    BY <1>3, <1>5, WorkerTypes DEF Inv, WorkerState
  <2>2. QED
    BY <1>1, <1>3, <2>1, JobGoesOn
<1>6. Abandon \/ w' = listed
  <2>1. w \in WorkerState
    BY WorkerTypes DEF Inv
  <2>2. QED
    BY <1>2, <2>1 DEF WorkerState
<1>7. QED
  BY <1>4, <1>5, <1>6

LEMMA RefreshSnapshotKeeps == ASSUME Inv, RefreshSnapshot PROVE Inv'
<1>1. w.pc # "idle" /\ Follows(db, db') /\ th' = th /\ OutsideOK'
  BY FollowsSelf, OutsideSame DEF Inv, RefreshSnapshot, At
<1>2. w' \in WorkerState /\ w'.job = w.job /\ w'.pc = "f_begin"
  BY WorkerTypes DEF Inv, TypeOK, RefreshSnapshot, Database, WorkerState, WorkerPc
<1>3. QED
  BY <1>1, <1>2, JobGoesOn

LEMMA RefreshBeginKeeps == ASSUME Inv, RefreshBegin PROVE Inv'
<1> DEFINE gone == {r \in w.snap : r.path # RootPath /\ \A x \in w.seen : x.path # r.path}
<1>1. gone \in SUBSET Row /\ w.seen \in SUBSET Resource /\ db \in Database
  BY RefreshTypes DEF Inv, TypeOK
<1>2. w' = [w EXCEPT !.pc = "f_apply", !.tx = db, !.todo = w.seen, !.gone = gone]
  BY WorkerTypes DEF Inv, RefreshBegin, WorkerState
<1> HIDE DEF gone
<1>3. w' \in WorkerState /\ w'.job = w.job /\ w'.pc = "f_apply" /\ w'.tx = db
  BY <1>1, <1>2, WorkerTypes DEF Inv, WorkerState, WorkerPc
<1>4. Sound(db) /\ Held(db, w.job)
  BY DEF Inv, RefreshBegin, At, JobHeld
<1>5. TypeOK' /\ NewRowsQueued' /\ db' = db
  BY <1>3 DEF Inv, TypeOK, RefreshBegin, NewRowsQueued
<1>6. QED
  BY <1>3, <1>4, <1>5 DEF Inv, JobHeld, FinishedJobGone, TxSound

LEMMA MergeKeeps ==
    ASSUME Inv, At("f_apply"), FileId \ born # {}, NEW res \in w.todo,
           MergeConflict(res) \/ MergeOutdated(res) \/ MergePlain(res),
           UNCHANGED <<db, cache, remote, clock, th, edit, spent>>
    PROVE  Inv'
<1>1. /\ FreshId \in FileId /\ res \in Resource /\ res.path \in Path
      /\ w.pc = "f_apply" /\ Sound(w.tx) /\ w \in WorkerState /\ w.gone \in SUBSET Row
      /\ w.todo \ {res} \in SUBSET Resource
  BY FreshIdType, RefreshTypes, WorkerTypes DEF Inv, At, Resource
<1>2. ASSUME NEW d, BornFor(d, res) PROVE OutsideOK'
  BY <1>1, <1>2 DEF Inv, TypeOK, OutsideOK, BornFor
<1>3. ASSUME NEW tx, Follows(w.tx, tx), OutsideOK',
             w' = [w EXCEPT !.tx = tx, !.todo = @ \ {res}]
      PROVE  Inv'
  <2>1. w' = [w EXCEPT !.tx = tx, !.todo = w.todo \ {res}, !.gone = w.gone]
    BY <1>1, <1>3 DEF WorkerState
  <2>2. QED
    BY <1>1, <1>3, <2>1, TxKeeps
<1>4. CASE MergeConflict(res)
  <2>1. PICK l \in Conflicting(res) : \E cp \in NextConflictPaths(w.tx, l.path) :
           IF ConflictFails(w.tx, l.id, l.path, cp)
           THEN Abandon /\ UNCHANGED born
           ELSE LET aside == ApplyConflict(w.tx, l.id, l.path, cp)
                IN  /\ w' = [w EXCEPT !.tx = EnsureRemoteRow(aside, res, "Synced", FreshId),
                                      !.todo = @ \ {res}]
                    /\ BornFor(aside, res)
    BY <1>4 DEF MergeConflict
  <2> PICK cp \in NextConflictPaths(w.tx, l.path) :
           IF ConflictFails(w.tx, l.id, l.path, cp)
           THEN Abandon /\ UNCHANGED born
           ELSE LET aside == ApplyConflict(w.tx, l.id, l.path, cp)
                IN  /\ w' = [w EXCEPT !.tx = EnsureRemoteRow(aside, res, "Synced", FreshId),
                                      !.todo = @ \ {res}]
                    /\ BornFor(aside, res)
    BY <2>1
  <2>2. l \in Row /\ l.id \in FileId /\ l.path \in Path
    BY RefreshTypes DEF Conflicting, Local, Row
  <2>3. cp \in Path
    BY <2>1, <2>2, NextConflictPathsType
  <2>4. CASE ConflictFails(w.tx, l.id, l.path, cp)
    BY <2>1, <2>4, JobEnds, OutsideSame, FollowsSelf DEF Abandon, Inv
  <2>5. CASE ~ConflictFails(w.tx, l.id, l.path, cp)
    <3> DEFINE aside == ApplyConflict(w.tx, l.id, l.path, cp)
    <3>1. Follows(w.tx, aside)
      BY <1>1, <2>2, <2>3, ApplyConflictFollows
    <3> HIDE DEF aside
    <3>2. Follows(aside, EnsureRemoteRow(aside, res, "Synced", FreshId))
      BY <1>1, <3>1, EnsureRemoteRowFollows DEF Follows, SyncState
    <3>3. Follows(w.tx, EnsureRemoteRow(aside, res, "Synced", FreshId))
      BY <1>1, <3>1, <3>2, FollowsOn
    <3>4. QED
      BY <1>2, <1>3, <2>1, <2>5, <3>3 DEF aside
  <2>6. QED
    BY <2>4, <2>5
<1>5. CASE MergeOutdated(res)
  <2> DEFINE merged == EnsureRemoteRow(w.tx, res, "Downloading", FreshId)
             f == The(RowAt(merged, res.path)).id
  <2>1. Follows(w.tx, merged)
    BY <1>1, EnsureRemoteRowFollows DEF SyncState
  <2>2. /\ w' = [w EXCEPT !.tx = Upsert(merged, f, "Download", res.path, RootPath),
                          !.todo = @ \ {res}]
        /\ BornFor(w.tx, res)
    BY <1>5 DEF MergeOutdated
  <2> HIDE DEF merged, f
  <2>3. Follows(merged, Upsert(merged, f, "Download", res.path, RootPath))
    BY <1>1, <2>1, UpsertFollows, RootTypes DEF Follows, OpType
  <2>4. Follows(w.tx, Upsert(merged, f, "Download", res.path, RootPath))
    BY <1>1, <2>1, <2>3, FollowsOn
  <2>5. QED
    BY <1>2, <1>3, <2>2, <2>4
<1>6. CASE MergePlain(res)
  <2>1. Follows(w.tx, EnsureRemoteRow(w.tx, res, "Synced", FreshId))
    BY <1>1, EnsureRemoteRowFollows DEF SyncState
  <2>2. QED
    BY <1>2, <1>3, <1>6, <2>1 DEF MergePlain
<1>7. QED
  BY <1>4, <1>5, <1>6

LEMMA DropKeeps ==
    ASSUME Inv, At("f_apply"), NEW l \in w.gone,
           DropRow(l) \/ KeepCopy(l) \/ DropConflict(l),
           UNCHANGED <<db, born, remote, clock, th, edit, spent>>
    PROVE  Inv'
<1>1. /\ l \in Row /\ l.id \in FileId /\ l.path \in Path /\ w \in WorkerState
      /\ w.pc = "f_apply" /\ Sound(w.tx) /\ w.todo \in SUBSET Resource
      /\ w.gone \ {l} \in SUBSET Row
  BY RefreshTypes, WorkerTypes DEF Inv, At, Row
<1>2. OutsideOK'
  <2>1. cache' = cache \/ cache' = [cache EXCEPT ![l.id] = NoData]
    BY DEF DropRow, KeepCopy, DropConflict
  <2>2. cache' \in [FileId -> Nat]
    BY <1>1, <2>1 DEF Inv, TypeOK, NoData
  <2>3. QED
    BY <2>2 DEF Inv, TypeOK, OutsideOK
<1>3. ASSUME NEW tx, Follows(w.tx, tx), w' = [w EXCEPT !.tx = tx, !.gone = @ \ {l}]
      PROVE  Inv'
  <2>1. w' = [w EXCEPT !.tx = tx, !.todo = w.todo, !.gone = w.gone \ {l}]
    BY <1>1, <1>3 DEF WorkerState
  <2>2. QED
    BY <1>1, <1>2, <1>3, <2>1, TxKeeps
<1>4. CASE DropRow(l)
  BY <1>1, <1>3, <1>4, DeleteRowFollows DEF DropRow
<1>5. CASE KeepCopy(l)
  <2>1. w' = [w EXCEPT !.tx = w.tx, !.gone = @ \ {l}]
    BY <1>1, <1>5 DEF KeepCopy, WorkerState
  <2>2. QED
    BY <1>1, <1>3, <2>1, FollowsSelf
<1>6. CASE DropConflict(l)
  <2>1. PICK cp \in NextConflictPaths(w.tx, l.path) :
           IF ConflictFails(w.tx, l.id, l.path, cp) THEN Abandon
           ELSE w' = [w EXCEPT !.tx = ApplyConflict(w.tx, l.id, l.path, cp),
                               !.gone = @ \ {l}]
    BY <1>6 DEF DropConflict
  <2>2. cp \in Path
    BY <1>1, <2>1, NextConflictPathsType
  <2>3. Follows(w.tx, ApplyConflict(w.tx, l.id, l.path, cp))
    BY <1>1, <2>2, ApplyConflictFollows
  <2>4. QED
    BY <1>2, <1>3, <2>1, <2>3, JobEnds, FollowsSelf DEF Abandon, Inv
<1>7. QED
  BY <1>4, <1>5, <1>6

LEMMA RefreshCommitKeeps == ASSUME Inv, RefreshCommit PROVE Inv'
<1>1. Sound(db') /\ Held(db', w.job) /\ db' \in Database /\ th' = th
  BY DEF Inv, RefreshCommit, At, TxSound, Sound
<1>2. NoTx \in Database
  BY DEF NoTx, Database
<1>3. w' \in WorkerState /\ w'.job = w.job /\ w'.pc = "f_done"
  BY <1>2, WorkerTypes DEF Inv, RefreshCommit, WorkerState, WorkerPc
<1>4. TypeOK' /\ NewRowsQueued'
  BY <1>1, <1>3 DEF Inv, RefreshCommit, TypeOK, NewRowsQueued
<1>5. QED
  BY <1>1, <1>3, <1>4 DEF Inv, JobHeld, FinishedJobGone, TxSound

LEMMA RefreshDoneKeeps == ASSUME Inv, RefreshDone PROVE Inv'
<1>1. Follows(db, db')
  BY DropOpFollows DEF Inv, RefreshDone
<1>2. QED
  BY <1>1, JobEnds, OutsideSame DEF RefreshDone
-----------------------------------------------------------------------------
(* The network, the other clients and a crash.                               *)
LEMMA NetworkFailsKeeps == ASSUME Inv, NetworkFails PROVE Inv'
<1>1. spent' \in Events
  BY SpendType DEF Inv, NetworkFails
<1>2. OutsideOK' /\ Follows(db, db') /\ th' = th
  BY <1>1, FollowsSelf DEF Inv, TypeOK, OutsideOK, NetworkFails
<1>3. CASE w.pc # "idle" /\ CallFails
  BY <1>2, <1>3, FailKeeps DEF CallFails
<1>4. CASE CallAbandoned
  BY <1>2, <1>4, JobEnds DEF CallAbandoned, Abandon
<1>5. CASE w.pc # "idle" /\ Goto("r_move")
  BY <1>2, <1>5, GotoKeeps DEF WorkerPc
<1>6. QED
  BY <1>3, <1>4, <1>5 DEF NetworkFails, At

LEMMA OtherClientKeeps == ASSUME Inv, OtherClient PROVE Inv'
<1>1. PICK p \in OtherPath : OtherPut(p) \/ OtherDelete(p)
  BY DEF OtherClient
<1>2. spent' \in Events
  BY <1>1, SpendType DEF Inv, OtherPut, OtherDelete
<1>3. clock \in Nat /\ remote \in SUBSET Resource /\ p \in Path
  BY StateAssumption DEF Inv, TypeOK
<1>4. clock' \in Nat
  BY <1>1, <1>3 DEF OtherPut, OtherDelete, Tick
<1>5. remote' \in SUBSET Resource
  <2>1. clock + 1 \in Nat
    BY <1>3
  <2>2. PutFile(remote, p, clock + 1, clock + 1) \in SUBSET Resource
    BY <1>3, <2>1, PutFileType
  <2>3. QED
    BY <1>1, <1>3, <2>2, DeleteTreeType DEF OtherPut, OtherDelete
<1>6. UNCHANGED <<db, cache, born, th, w, edit>>
  BY <1>1 DEF OtherPut, OtherDelete
<1>7. TypeOK' /\ NewRowsQueued'
  BY <1>2, <1>4, <1>5, <1>6 DEF Inv, TypeOK, NewRowsQueued
<1>8. QED
  BY <1>6, <1>7, CallKeeps, FollowsSelf DEF Inv

LEMMA HalfCallFollows ==
    ASSUME Inv, NEW t \in Thread, NEW d \in HalfCall(t) PROVE Follows(db, d)
<1>1. CASE th[t].pc \in {"create", "mkdir"}
  BY <1>1, CreatedFollows DEF HalfCall, OpType
<1>2. CASE th[t].pc = "apply"
  BY <1>2, WrittenFollows DEF HalfCall
<1>3. CASE th[t].pc = "unlink"
  BY <1>3, MarkedFollows, DropOpsOfFollows, DeleteRowFollows DEF HalfCall, Inv
<1>4. CASE th[t].pc = "rename"
  BY <1>4, CallTypes, MoveRowsFollows DEF HalfCall, Inv
<1>5. CASE th[t].pc \notin {"create", "mkdir", "apply", "unlink", "rename"}
  BY <1>5 DEF HalfCall
<1>6. QED
  BY <1>1, <1>2, <1>3, <1>4, <1>5

LEMMA HalfJobFollows ==
    ASSUME Inv, NEW d \in HalfJob PROVE Follows(db, d)
<1>1. Sound(db) /\ RemoteVersion(w.meta) \in Nat
  BY RemoteVersionType, WorkerTypes DEF Inv
<1>2. CASE w.pc \in {"u_commit", "m_commit", "r_commit"}
  BY <1>1, <1>2, SetSyncedFollows DEF HalfJob
<1>3. CASE w.pc = "l_commit"
  BY <1>1, <1>3, SetCachedFollows DEF HalfJob, SyncState
<1>4. CASE w.pc = "d_commit"
  BY <1>1, <1>4, DropOpFollows DEF HalfJob
<1>5. CASE w.pc = "fail"
  BY <1>1, <1>5, DropOpFollows, SetStatusFollows DEF HalfJob, OpStatus
<1>6. CASE w.pc \notin {"u_commit", "m_commit", "r_commit", "l_commit", "d_commit", "fail"}
  BY <1>6 DEF HalfJob
<1>7. QED
  BY <1>2, <1>3, <1>4, <1>5, <1>6

LEMMA CrashRestartKeeps == ASSUME Inv, CrashRestart PROVE Inv'
<1>1. PICK left \in {db} \cup LeftBehind :
         db' = Upsert(left, Root, "RefreshTree", RootPath, RootPath)
  BY DEF CrashRestart, Reopen
<1>2. Sound(db) /\ Follows(db, left)
  BY <1>1, HalfCallFollows, HalfJobFollows, FollowsSelf DEF LeftBehind, Inv
<1>3. Follows(left, db')
  BY <1>1, <1>2, RequestRefreshFollows DEF Follows
<1>4. th' \in [Thread -> ThreadState] /\ w' \in WorkerState /\ w'.pc = "idle"
  BY RootTypes DEF CrashRestart
<1>5. TypeOK'
  BY <1>3, <1>4, SpendType DEF Inv, TypeOK, CrashRestart, Follows, Sound
<1>6. NewRowsQueued'
  BY DEF CrashRestart, NewRowsQueued, IdleThread
<1>7. QED
  BY <1>3, <1>4, <1>5, <1>6 DEF Inv, Follows, JobHeld, FinishedJobGone, TxSound
-----------------------------------------------------------------------------
(* open_at leaves a sound store with a refresh queued.                       *)
LEMMA InitInv == ASSUME Init PROVE Inv
<1> DEFINE row(e) == [id |-> e.id, path |-> e.path, kind |-> e.kind, sync |-> "Synced",
                      ver |-> 1, cached |-> e.local = "cached"]
           known == {row(e) : e \in {x \in InitTree : x.local # "unknown"}}
           opened == [files |-> {RootRow} \cup known, queue |-> {}, copies |-> {}, nextOp |-> 1]
<1>1. \A e \in InitTree : e.path \in Path /\ e.kind \in Kind /\ e.id \in FileId
  BY StateAssumption DEF InitEntry
<1>2. \A e \in InitTree : row(e) \in Row /\ row(e).sync # "Conflict"
  <2>1. \A e \in InitTree : (e.local = "cached") \in BOOLEAN
    OBVIOUS
  <2>2. "Synced" \in SyncState /\ 1 \in Nat
    BY DEF SyncState
  <2>3. QED
    BY <1>1, <2>1, <2>2 DEF Row
<1> HIDE DEF row
<1>3. Sound(opened)
  <2>1. {RootRow} \cup known \in SUBSET Row /\ \A r \in {RootRow} \cup known : r.sync # "Conflict"
    <3>1. RootRow \in Row /\ RootRow.sync # "Conflict"
      BY RootTypes DEF RootRow
    <3>2. \A r \in known : r \in Row /\ r.sync # "Conflict"
      BY <1>2
    <3> HIDE DEF known
    <3>3. QED
      BY <3>1, <3>2
  <2> HIDE DEF known
  <2>2. opened \in Database
    BY <2>1 DEF Database
  <2>3. QED
    BY <2>1, <2>2 DEF Sound
<1>4. Follows(opened, db)
  BY <1>3, RequestRefreshFollows DEF Init, known, row
<1>5. remote \subseteq Resource
  <2>1. RootResource \in Resource
    BY RootTypes DEF RootResource, Resource, Kind, NoData
  <2>2. \A e \in InitTree :
           [path |-> e.path, kind |-> e.kind, ver |-> 1,
            data |-> IF e.kind = "File" THEN 1 ELSE NoData] \in Resource
    BY <1>1 DEF Resource, NoData
  <2>3. QED
    BY <2>1, <2>2 DEF Init
<1>6. cache \in [FileId -> Nat] /\ edit \in [FileId -> Nat] /\ born \subseteq FileId
  BY <1>1, RootAssumption DEF Init, NoData
<1>7. th \in [Thread -> ThreadState] /\ w \in WorkerState /\ w.pc = "idle"
  BY RootTypes DEF Init
<1>8. TypeOK
  BY <1>4, <1>5, <1>6, <1>7 DEF TypeOK, Init, Events, Follows, Sound
<1>9. NewRowsQueued
  BY DEF Init, NewRowsQueued, IdleThread
<1>10. QED
  BY <1>4, <1>7, <1>8, <1>9 DEF Inv, Follows, JobHeld, FinishedJobGone, TxSound

LEMMA StutterKeeps == ASSUME Inv, UNCHANGED vars PROVE Inv'
BY DEF Inv, vars, TypeOK, JobHeld, FinishedJobGone, TxSound, NewRowsQueued

(* Every step of the system keeps the invariant.                             *)
LEMMA NextKeeps == ASSUME Inv, [Next]_vars PROVE Inv'
<1>1. CASE \E t \in Thread : Call(t) \/ CallStep(t)
  BY <1>1, CallBegins, CallGoesOn
<1>2. CASE RequestRefresh
  BY <1>2, RequestRefreshKeeps
<1>3. CASE WorkerStep
  <2>1. Poll => UNCHANGED vars
    BY DEF Poll
  <2>2. UploadCommit => CommitSynced
    BY DEF UploadCommit
  <2>3. QED
    BY <1>3, <2>1, <2>2, StutterKeeps, RecoverLeaseKeeps, LeaseKeeps, StartKeeps, FailStepKeeps,
       UploadMarkKeeps, UploadCheckKeeps, UploadConflictKeeps, UploadFinishKeeps,
       UploadPutKeeps, UploadFetchKeeps, CommitSyncedKeeps, DeletionKeeps, MakingKeeps,
       RenamingKeeps, DownloadingKeeps DEF WorkerStep
<1>4. CASE RefreshStep
  <2>1. RefreshMerge => Inv'
    BY MergeKeeps DEF RefreshMerge
  <2>2. RefreshDrop => Inv'
    BY DropKeeps DEF RefreshDrop
  <2>3. QED
    BY <1>4, <2>1, <2>2, RefreshListKeeps, RefreshSnapshotKeeps, RefreshBeginKeeps,
       RefreshCommitKeeps, RefreshDoneKeeps DEF RefreshStep
<1>5. CASE NetworkFails
  BY <1>5, NetworkFailsKeeps
<1>6. CASE OtherClient
  BY <1>6, OtherClientKeeps
<1>7. CASE CrashRestart
  BY <1>7, CrashRestartKeeps
<1>8. CASE UNCHANGED vars
  BY <1>8, StutterKeeps
<1>9. QED
  BY <1>1, <1>2, <1>3, <1>4, <1>5, <1>6, <1>7, <1>8 DEF Next
-----------------------------------------------------------------------------
(* The invariant holds in every reachable state.                             *)
THEOREM Invariance == Spec => []Inv
BY InitInv, NextKeeps, PTL DEF Spec

(* The state is well-typed, whatever the paths, threads, faults and budgets. *)
THEOREM TypeCorrectness == Spec => []TypeOK
<1>1. Inv => TypeOK
  BY DEF Inv
<1>2. QED
  BY <1>1, Invariance, PTL

(* No row is ever in the state Conflict: handle_conflict has deleted the job *)
(* that finish_job looks for to mark the file.                               *)
THEOREM ConflictNeverStored == Spec => []NeverConflicted
<1>1. Inv => NeverConflicted
  BY DEF Inv, Sound, NeverConflicted
<1>2. QED
  BY <1>1, Invariance, PTL

(* The job the worker holds is the only operation that ever has its id, over *)
(* cascading deletes, replace_all, coalescing, lost leases and crashes.      *)
THEOREM JobIdentity == Spec => []JobKeepsItsId
<1>1. Inv => JobKeepsItsId
  BY DEF Inv, JobHeld, Held, JobKeepsItsId
<1>2. QED
  BY <1>1, Invariance, PTL
=============================================================================
