--------------------------- MODULE SyncDeleteProofs --------------------------
(****************************************************************************)
(* Theorems about the rows, for every value of the constants: no id and no   *)
(* path is used twice, and a file that is QueuedDelete has no Upload left in *)
(* the queue, whatever the worker, the refreshes and the other threads do.   *)
(* Both need that a new file's id is nobody else's.                           *)
(****************************************************************************)
EXTENDS SyncServiceProofs

(* The files with an Upload, those that are QueuedDelete, and those that     *)
(* have a row.                                                                *)
Uploads(d) == {o.file : o \in {q \in d.queue : q.type = "Upload"}}
Doomed(d)  == {r.id : r \in {q \in d.files : q.sync = "QueuedDelete"}}
Ids(d)     == {r.id : r \in d.files}

Superseded(d) == Doomed(d) \cap Uploads(d) = {}

(* What the keys of the table files enforce.                                  *)
IdsOnce(d)   == \A r, q \in d.files : r.id = q.id => r = q
PathsOnce(d) == \A r, q \in d.files : r.path = q.path => r = q

Tidy(d) == IdsOnce(d) /\ PathsOnce(d)
-----------------------------------------------------------------------------
(* What the statements do to these sets.                                      *)
LEMMA DoomedHasRow == ASSUME NEW d PROVE Doomed(d) \subseteq Ids(d)
BY DEF Doomed, Ids

LEMMA SameFiles ==
    ASSUME NEW d \in Database, NEW Q
    PROVE  LET e == [d EXCEPT !.queue = Q] IN Doomed(e) = Doomed(d) /\ Ids(e) = Ids(d)
BY DEF Database, Doomed, Ids

LEMMA SameQueue ==
    ASSUME NEW d \in Database, NEW F
    PROVE  Uploads([d EXCEPT !.files = F]) = Uploads(d)
BY DEF Database, Uploads

LEMMA SetSyncSets ==
    ASSUME NEW d \in Database, NEW f, NEW s
    PROVE  LET e == SetSync(d, f, s)
           IN  /\ Uploads(e) = Uploads(d) /\ Ids(e) \subseteq Ids(d)
               /\ s # "QueuedDelete" => Doomed(e) \subseteq Doomed(d)
               /\ Doomed(e) \subseteq Doomed(d) \cup {f}
<1> DEFINE new(r) == IF r.id = f THEN [r EXCEPT !.sync = s] ELSE r
           F == {new(r) : r \in d.files}
           e == SetSync(d, f, s)
<1>1. e = [d EXCEPT !.files = F]
  BY DEF SetSync
<1>2. \A r \in d.files : /\ new(r).id = r.id
                         /\ new(r).sync = IF r.id = f THEN s ELSE r.sync
  BY DEF Database, Row
<1> HIDE DEF new
<1>3. e.files = F
  BY <1>1 DEF Database
<1>4. Uploads(e) = Uploads(d)
  BY <1>1, SameQueue
<1> HIDE DEF e
<1>5. Ids(e) \subseteq Ids(d) /\ Doomed(e) \subseteq Doomed(d) \cup {f}
  BY <1>2, <1>3 DEF Ids, Doomed
<1>6. s # "QueuedDelete" => Doomed(e) \subseteq Doomed(d)
  BY <1>2, <1>3 DEF Doomed
<1>7. QED
  BY <1>4, <1>5, <1>6 DEF e

(* A row that is given another state than QueuedDelete.                       *)
LEMMA PaintedSets ==
    ASSUME NEW d \in Database, NEW f, NEW F \in SUBSET Row,
           \A r \in F : \E q \in d.files :
               q.id = r.id /\ (r.sync = "QueuedDelete" => q.sync = "QueuedDelete" /\ r.id # f)
    PROVE  LET e == [d EXCEPT !.files = F]
           IN  /\ Uploads(e) = Uploads(d) /\ Ids(e) \subseteq Ids(d)
               /\ Doomed(e) \subseteq Doomed(d) \ {f}
<1>1. [d EXCEPT !.files = F].files = F
  BY DEF Database
<1>2. QED
  BY <1>1, SameQueue DEF Doomed, Ids

LEMMA SetCachedSets ==
    ASSUME NEW d \in Database, NEW f, NEW s \in SyncState \ {"QueuedDelete"}
    PROVE  LET e == SetCached(d, f, s)
           IN  /\ Uploads(e) = Uploads(d) /\ Ids(e) \subseteq Ids(d)
               /\ Doomed(e) \subseteq Doomed(d) \ {f}
<1> DEFINE new(r) == IF r.id = f THEN [r EXCEPT !.sync = s, !.cached = TRUE] ELSE r
           F == {new(r) : r \in d.files}
<1>1. \A r \in d.files : /\ new(r) \in Row /\ new(r).id = r.id
                         /\ new(r).sync = IF r.id = f THEN s ELSE r.sync
  BY DEF Database, Row
<1> HIDE DEF new
<1>2. F \in SUBSET Row
  BY <1>1
<1>3. \A r \in F : \E q \in d.files :
         q.id = r.id /\ (r.sync = "QueuedDelete" => q.sync = "QueuedDelete" /\ r.id # f)
  BY <1>1
<1>4. SetCached(d, f, s) = [d EXCEPT !.files = F]
  BY DEF SetCached, new
<1> HIDE DEF F
<1>5. QED
  BY <1>2, <1>3, <1>4, PaintedSets

LEMMA SetSyncedSets ==
    ASSUME NEW d \in Database, NEW f, NEW v \in Nat
    PROVE  LET e == SetSynced(d, f, v)
           IN  /\ Uploads(e) = Uploads(d) /\ Ids(e) \subseteq Ids(d)
               /\ Doomed(e) \subseteq Doomed(d) \ {f}
<1> DEFINE new(r) == IF r.id = f THEN [r EXCEPT !.sync = "Synced", !.ver = v] ELSE r
           F == {new(r) : r \in d.files}
<1>1. \A r \in d.files : /\ new(r) \in Row /\ new(r).id = r.id
                         /\ new(r).sync = IF r.id = f THEN "Synced" ELSE r.sync
  BY DEF Database, Row, SyncState
<1> HIDE DEF new
<1>2. F \in SUBSET Row
  BY <1>1
<1>3. \A r \in F : \E q \in d.files :
         q.id = r.id /\ (r.sync = "QueuedDelete" => q.sync = "QueuedDelete" /\ r.id # f)
  BY <1>1
<1>4. SetSynced(d, f, v) = [d EXCEPT !.files = F]
  BY DEF SetSynced, new
<1> HIDE DEF F
<1>5. QED
  BY <1>2, <1>3, <1>4, PaintedSets

LEMMA ForgetVersionSets ==
    ASSUME NEW d \in Database, NEW f
    PROVE  LET e == ForgetVersion(d, f)
           IN  /\ Uploads(e) = Uploads(d) /\ Ids(e) \subseteq Ids(d)
               /\ Doomed(e) \subseteq Doomed(d) \ {f}
<1> DEFINE new(r) == IF r.id = f THEN [r EXCEPT !.sync = "QueuedUpload", !.ver = NoVersion] ELSE r
           F == {new(r) : r \in d.files}
<1>1. \A r \in d.files : /\ new(r) \in Row /\ new(r).id = r.id
                         /\ new(r).sync = IF r.id = f THEN "QueuedUpload" ELSE r.sync
  BY DEF Database, Row, SyncState, NoVersion
<1> HIDE DEF new
<1>2. F \in SUBSET Row
  BY <1>1
<1>3. \A r \in F : \E q \in d.files :
         q.id = r.id /\ (r.sync = "QueuedDelete" => q.sync = "QueuedDelete" /\ r.id # f)
  BY <1>1
<1>4. ForgetVersion(d, f) = [d EXCEPT !.files = F]
  BY DEF ForgetVersion, new
<1> HIDE DEF F
<1>5. QED
  BY <1>2, <1>3, <1>4, PaintedSets

LEMMA RenameSubtreeSets ==
    ASSUME NEW d \in Database, NEW from \in Path, NEW to \in Path
    PROVE  LET e == RenameSubtree(d, from, to)
           IN  Uploads(e) = Uploads(d) /\ Ids(e) \subseteq Ids(d) /\ Doomed(e) \subseteq Doomed(d)
<1> DEFINE moves(r) == r \in Reached(d, from, to)
           new(r) == IF moves(r) THEN [r EXCEPT !.path = Target(r.path, from, to)] ELSE r
           F == {new(r) : r \in d.files}
           e == RenameSubtree(d, from, to)
<1>1. e = [d EXCEPT !.files = F]
  BY DEF RenameSubtree, MoveRows
<1>2. e.files = F
  BY <1>1 DEF Database
<1> HIDE DEF moves
<1>3. \A r \in d.files : new(r).id = r.id /\ new(r).sync = r.sync
  BY DEF Database, Row
<1>4. Uploads(e) = Uploads(d)
  BY <1>1, SameQueue
<1> HIDE DEF new, e
<1>5. Ids(e) \subseteq Ids(d) /\ Doomed(e) \subseteq Doomed(d)
  BY <1>2, <1>3 DEF Ids, Doomed
<1>6. QED
  BY <1>4, <1>5 DEF e

LEMMA InsertRowSets ==
    ASSUME NEW d \in Database, NEW row
    PROVE  LET e == InsertRow(d, row)
           IN  /\ Uploads(e) = Uploads(d) /\ Ids(e) = Ids(d) \cup {row.id}
               /\ row.sync # "QueuedDelete" => Doomed(e) = Doomed(d)
<1>1. InsertRow(d, row).files = d.files \cup {row}
  BY DEF InsertRow, Database
<1>2. Uploads(InsertRow(d, row)) = Uploads(d)
  BY SameQueue DEF InsertRow
<1>3. QED
  BY <1>1, <1>2 DEF Doomed, Ids

LEMMA DropSets ==
    ASSUME NEW d \in Database, NEW i
    PROVE  /\ LET e == DropOp(d, i)
              IN  Uploads(e) \subseteq Uploads(d) /\ Doomed(e) = Doomed(d) /\ Ids(e) = Ids(d)
           /\ LET e == DropOpsOf(d, i)
              IN  /\ Uploads(e) \subseteq Uploads(d) \ {i}
                  /\ Doomed(e) = Doomed(d) /\ Ids(e) = Ids(d)
           /\ LET e == DeleteRow(d, i)
              IN  /\ Uploads(e) \subseteq Uploads(d)
                  /\ Doomed(e) \subseteq Doomed(d) /\ Ids(e) \subseteq Ids(d)
<1>1. DropOp(d, i).queue = {o \in d.queue : o.id # i} /\ DropOp(d, i).files = d.files
  BY DEF DropOp, Database
<1>2. DropOpsOf(d, i).queue = {o \in d.queue : o.file # i} /\ DropOpsOf(d, i).files = d.files
  BY DEF DropOpsOf, Database
<1>3. /\ DeleteRow(d, i).queue = {o \in d.queue : o.file # i}
      /\ DeleteRow(d, i).files = {r \in d.files : r.id # i}
  BY DEF DeleteRow, Database
<1>4. QED
  BY <1>1, <1>2, <1>3 DEF Uploads, Doomed, Ids

LEMMA SetStatusSets ==
    ASSUME NEW d \in Database, NEW i, NEW s
    PROVE  LET e == SetStatus(d, i, s)
           IN  Uploads(e) \subseteq Uploads(d) /\ Doomed(e) = Doomed(d) /\ Ids(e) = Ids(d)
<1> DEFINE new(o) == IF o.id = i THEN [o EXCEPT !.status = s] ELSE o
           Q == {new(o) : o \in d.queue}
           e == SetStatus(d, i, s)
<1>1. e.queue = Q /\ e.files = d.files
  BY DEF SetStatus, Database
<1>2. \A o \in d.queue : new(o).file = o.file /\ new(o).type = o.type
  BY DEF Database, Op
<1> HIDE DEF new, e
<1>3. Uploads(e) \subseteq Uploads(d) /\ Doomed(e) = Doomed(d) /\ Ids(e) = Ids(d)
  BY <1>1, <1>2 DEF Uploads, Doomed, Ids
<1>4. QED
  BY <1>3 DEF e

(* upsert_operation adds an Upload only when it is asked to, and of a file   *)
(* that has a row.                                                            *)
LEMMA UpsertSets ==
    ASSUME NEW d \in Database, NEW f, NEW type, NEW from, NEW to
    PROVE  LET e == Upsert(d, f, type, from, to)
           IN  /\ Doomed(e) = Doomed(d) /\ Ids(e) = Ids(d)
               /\ Uploads(e) \subseteq Uploads(d) \cup {f}
               /\ type # "Upload" => Uploads(e) \subseteq Uploads(d)
<1> DEFINE C == Coalesced(d, f, type)
           new(o) == IF o \in C THEN [o EXCEPT !.status = "Pending", !.from = from, !.to = to]
                     ELSE o
           Q == {new(o) : o \in d.queue}
           op == [id |-> NewOpId(d), file |-> f, type |-> type,
                  status |-> "Pending", from |-> from, to |-> to]
           e == Upsert(d, f, type, from, to)
<1>1. e.files = d.files
  BY DEF Upsert, Database
<1>2. e.queue = d.queue \/ e.queue = Q \/ e.queue = d.queue \cup {op}
  BY DEF Upsert, Database
<1>3. \A o \in d.queue : new(o).file = o.file /\ new(o).type = o.type
  <2> HIDE DEF C
  <2>1. QED
    BY DEF Database, Op
<1>4. op.file = f /\ op.type = type
  OBVIOUS
<1> HIDE DEF new, e, op
<1>5. /\ Doomed(e) = Doomed(d) /\ Ids(e) = Ids(d)
      /\ Uploads(e) \subseteq Uploads(d) \cup {f}
      /\ type # "Upload" => Uploads(e) \subseteq Uploads(d)
  BY <1>1, <1>2, <1>3, <1>4 DEF Uploads, Doomed, Ids
<1>6. QED
  BY <1>5 DEF e

LEMMA EnsureRemoteRowSets ==
    ASSUME NEW d \in Database, NEW res, NEW s \in SyncState \ {"QueuedDelete"}, NEW id
    PROVE  LET e == EnsureRemoteRow(d, res, s, id)
           IN  /\ Uploads(e) = Uploads(d) /\ Doomed(e) \subseteq Doomed(d)
               /\ Ids(e) \subseteq IF RowAt(d, res.path) = {} THEN Ids(d) \cup {id} ELSE Ids(d)
<1> DEFINE new(r) == IF r.path = res.path
                     THEN [r EXCEPT !.kind = res.kind, !.ver = res.ver,
                                    !.sync = IF r.sync \in Protected THEN r.sync ELSE s]
                     ELSE r
           F == {new(r) : r \in d.files}
           row == [id |-> id, path |-> res.path, kind |-> res.kind,
                   sync |-> s, ver |-> res.ver, cached |-> FALSE]
           e == EnsureRemoteRow(d, res, s, id)
<1>1. CASE RowAt(d, res.path) = {}
  <2>1. e = InsertRow(d, row) /\ row.id = id /\ row.sync = s
    BY <1>1 DEF EnsureRemoteRow
  <2> HIDE DEF e, row
  <2>2. QED
    BY <1>1, <2>1, InsertRowSets DEF e
<1>2. CASE RowAt(d, res.path) # {}
  <2>1. e = [d EXCEPT !.files = F]
    BY <1>2 DEF EnsureRemoteRow
  <2>2. e.files = F
    BY <2>1 DEF Database
  <2>3. \A r \in d.files : new(r).id = r.id /\ (new(r).sync = r.sync \/ new(r).sync = s)
    BY DEF Database, Row
  <2>4. Uploads(e) = Uploads(d)
    BY <2>1, SameQueue
  <2> HIDE DEF new, e
  <2>5. Ids(e) \subseteq Ids(d) /\ Doomed(e) \subseteq Doomed(d)
    BY <2>2, <2>3 DEF Ids, Doomed
  <2>6. QED
    BY <1>2, <2>4, <2>5 DEF e
<1>3. QED
  BY <1>1, <1>2

(* What is moved aside as a conflict copy is no longer to be deleted.         *)
LEMMA ApplyConflictSets ==
    ASSUME NEW d, Sound(d), NEW f, NEW from \in Path, NEW cp \in Path
    PROVE  LET e == ApplyConflict(d, f, from, cp)
           IN  (Superseded(d) => Superseded(e)) /\ Ids(e) \subseteq Ids(d)
<1> DEFINE moved == RenameSubtree(d, from, cp)
           aside == ForgetVersion(moved, f)
           bare == DropOpsOf(aside, f)
           queued == Upsert(bare, f, "Upload", cp, RootPath)
           e == ApplyConflict(d, f, from, cp)
<1>1. d \in Database /\ moved \in Database /\ Sound(aside) /\ aside \in Database
  <2>1. Follows(d, moved)
    BY RenameSubtreeFollows
  <2>2. Follows(d, aside)
    BY AsideFollows
  <2> HIDE DEF moved, aside
  <2>3. QED
    BY <2>1, <2>2 DEF Sound, Follows
<1> HIDE DEF moved, aside
<1>2. Sound(bare) /\ bare \in Database
  BY <1>1, DropOpsOfFollows DEF Sound, Follows
<1> HIDE DEF bare
<1>3. queued.files = e.files /\ queued.queue = e.queue
  <2>1. "Upload" \in OpType /\ RootPath \in Path
    BY RootTypes DEF OpType
  <2>2. queued \in Database
    BY <1>2, <2>1, UpsertFollows DEF Sound, Follows
  <2>3. e = [queued EXCEPT !.copies = @ \cup {<<f, cp>>}]
    BY DEF ApplyConflict, UpsertAlone, moved, aside, bare
  <2> HIDE DEF queued, e
  <2>4. QED
    BY <2>2, <2>3 DEF Database
<1> HIDE DEF queued, e
<1>4. Uploads(moved) = Uploads(d) /\ Ids(moved) \subseteq Ids(d) /\ Doomed(moved) \subseteq Doomed(d)
  BY <1>1, RenameSubtreeSets DEF moved
<1>5. /\ Uploads(aside) = Uploads(moved) /\ Ids(aside) \subseteq Ids(moved)
      /\ Doomed(aside) \subseteq Doomed(moved) \ {f}
  BY <1>1, ForgetVersionSets DEF aside
<1>6. Uploads(bare) \subseteq Uploads(aside) /\ Doomed(bare) = Doomed(aside) /\ Ids(bare) = Ids(aside)
  BY <1>1, DropSets DEF bare
<1>7. /\ Doomed(queued) = Doomed(bare) /\ Ids(queued) = Ids(bare)
      /\ Uploads(queued) \subseteq Uploads(bare) \cup {f}
  BY <1>2, UpsertSets DEF queued
<1>8. Uploads(e) = Uploads(queued) /\ Doomed(e) = Doomed(queued) /\ Ids(e) = Ids(queued)
  BY <1>3 DEF Uploads, Doomed, Ids
<1>9. (Superseded(d) => Superseded(e)) /\ Ids(e) \subseteq Ids(d)
  BY <1>4, <1>5, <1>6, <1>7, <1>8 DEF Superseded
<1>10. QED
  BY <1>9 DEF e
-----------------------------------------------------------------------------
(* A change of a store that repeats no id and no path; the ids it adds are   *)
(* in N.                                                                      *)
Kept(d, e, N) == (Tidy(d) => Tidy(e)) /\ Ids(e) \subseteq Ids(d) \cup N

LEMMA KeptSame ==
    ASSUME NEW d, NEW e, NEW N, e.files = d.files PROVE Kept(d, e, N)
BY DEF Kept, Tidy, IdsOnce, PathsOnce, Ids

LEMMA KeptOn ==
    ASSUME NEW d, NEW e, NEW g, NEW N, Kept(d, e, N), Kept(e, g, N) PROVE Kept(d, g, N)
BY DEF Kept

LEMMA KeptFewer ==
    ASSUME NEW d, NEW e, NEW N, e.files \subseteq d.files PROVE Kept(d, e, N)
BY DEF Kept, Tidy, IdsOnce, PathsOnce, Ids

(* An UPDATE of rows that changes no id and no path.                          *)
LEMMA KeptPainted ==
    ASSUME NEW d, NEW e, NEW N, NEW g, e.files = {g[r] : r \in d.files},
           \A r \in d.files : g[r].id = r.id /\ g[r].path = r.path
    PROVE  Kept(d, e, N)
BY DEF Kept, Tidy, IdsOnce, PathsOnce, Ids

LEMMA KeptInserted ==
    ASSUME NEW d \in Database, NEW row, NEW N, row.id \in N \ Ids(d), RowAt(d, row.path) = {}
    PROVE  Kept(d, InsertRow(d, row), N)
<1> DEFINE e == InsertRow(d, row)
<1>1. e.files = d.files \cup {row}
  BY DEF InsertRow, Database
<1> HIDE DEF e
<1>2. ASSUME Tidy(d) PROVE Tidy(e)
  <2>1. \A r \in d.files : r.id # row.id /\ r.path # row.path
    BY DEF Ids, RowAt
  <2>2. IdsOnce(e)
    BY <1>1, <1>2, <2>1 DEF Tidy, IdsOnce
  <2>3. PathsOnce(e)
    BY <1>1, <1>2, <2>1 DEF Tidy, PathsOnce
  <2>4. QED
    BY <2>2, <2>3 DEF Tidy
<1>3. Ids(e) \subseteq Ids(d) \cup N
  BY <1>1 DEF Ids
<1>4. QED
  BY <1>2, <1>3 DEF Kept, e
-----------------------------------------------------------------------------
(* The statements.                                                            *)
LEMMA QueueKept ==
    ASSUME NEW d \in Database, NEW N, NEW f, NEW i, NEW s, NEW type, NEW from, NEW to
    PROVE  /\ Kept(d, DropOp(d, i), N) /\ Kept(d, DropOpsOf(d, f), N)
           /\ Kept(d, SetStatus(d, i, s), N) /\ Kept(d, Upsert(d, f, type, from, to), N)
           /\ Kept(d, UpsertAlone(d, f, type, from, to), N)
<1>1. /\ DropOp(d, i).files = d.files /\ DropOpsOf(d, f).files = d.files
      /\ SetStatus(d, i, s).files = d.files
  BY DEF DropOp, DropOpsOf, SetStatus, Database
<1>2. DropOpsOf(d, f) \in Database
  BY DEF DropOpsOf, Database
<1>3. ASSUME NEW e \in Database PROVE Upsert(e, f, type, from, to).files = e.files
  BY DEF Upsert, Database
<1>4. UpsertAlone(d, f, type, from, to).files = d.files
  BY <1>1, <1>2, <1>3 DEF UpsertAlone
<1>5. QED
  BY <1>1, <1>3, <1>4, KeptSame

LEMMA StatesKept ==
    ASSUME NEW d \in Database, NEW N, NEW f, NEW s, NEW v
    PROVE  /\ Kept(d, SetSync(d, f, s), N) /\ Kept(d, SetSynced(d, f, v), N)
           /\ Kept(d, SetCached(d, f, s), N) /\ Kept(d, ForgetVersion(d, f), N)
<1>1. Kept(d, SetSync(d, f, s), N)
  <2> DEFINE g == [r \in d.files |-> IF r.id = f THEN [r EXCEPT !.sync = s] ELSE r]
  <2>1. \A r \in d.files : g[r].id = r.id /\ g[r].path = r.path
    BY DEF Database, Row
  <2>2. SetSync(d, f, s).files = {g[r] : r \in d.files}
    BY DEF SetSync, Database
  <2> HIDE DEF g
  <2>3. QED
    BY <2>1, <2>2, KeptPainted
<1>2. Kept(d, SetSynced(d, f, v), N)
  <2> DEFINE g == [r \in d.files |->
                      IF r.id = f THEN [r EXCEPT !.sync = "Synced", !.ver = v] ELSE r]
  <2>1. \A r \in d.files : g[r].id = r.id /\ g[r].path = r.path
    BY DEF Database, Row
  <2>2. SetSynced(d, f, v).files = {g[r] : r \in d.files}
    BY DEF SetSynced, Database
  <2> HIDE DEF g
  <2>3. QED
    BY <2>1, <2>2, KeptPainted
<1>3. Kept(d, SetCached(d, f, s), N)
  <2> DEFINE g == [r \in d.files |->
                      IF r.id = f THEN [r EXCEPT !.sync = s, !.cached = TRUE] ELSE r]
  <2>1. \A r \in d.files : g[r].id = r.id /\ g[r].path = r.path
    BY DEF Database, Row
  <2>2. SetCached(d, f, s).files = {g[r] : r \in d.files}
    BY DEF SetCached, Database
  <2> HIDE DEF g
  <2>3. QED
    BY <2>1, <2>2, KeptPainted
<1>4. Kept(d, ForgetVersion(d, f), N)
  <2> DEFINE g == [r \in d.files |->
                      IF r.id = f THEN [r EXCEPT !.sync = "QueuedUpload", !.ver = NoVersion] ELSE r]
  <2>1. \A r \in d.files : g[r].id = r.id /\ g[r].path = r.path
    BY DEF Database, Row
  <2>2. ForgetVersion(d, f).files = {g[r] : r \in d.files}
    BY DEF ForgetVersion, Database
  <2> HIDE DEF g
  <2>3. QED
    BY <2>1, <2>2, KeptPainted
<1>5. QED
  BY <1>1, <1>2, <1>3, <1>4

LEMMA DeleteRowKept ==
    ASSUME NEW d \in Database, NEW N, NEW f PROVE Kept(d, DeleteRow(d, f), N)
<1>1. DeleteRow(d, f).files \subseteq d.files
  BY DEF DeleteRow, Database
<1>2. QED
  BY <1>1, KeptFewer

(* rename_subtree gives no path to two rows: the row whose target is taken    *)
(* when its turn comes is where it stops.  Nor does a part of its updates.    *)
NewPath(M, from, to, r) == IF r \in M THEN Target(r.path, from, to) ELSE r.path

LEMMA RenamedApart ==
    ASSUME NEW d \in Database, PathsOnce(d), NEW from \in Path, NEW to \in Path,
           NEW M \in PartsMoved(d, from, to)
    PROVE  \A r, q \in d.files : NewPath(M, from, to, r) = NewPath(M, from, to, q) => r = q
<1> DEFINE S == Subtree(d, from)
           C == Clash(d, from, to)
           reached(r) == r \in S /\ \A c \in C : Len(r.path) < Len(c.path)
           moves(r) == r \in M
           target(r) == Target(r.path, from, to)
<1>1. \A r \in d.files : r.path \in Path /\ Len(r.path) \in Nat
  BY DEF Database, Row, Path
<1>2. \A r \in S : r \in d.files
  BY DEF Subtree
<1>3. \A r \in S : \A q \in d.files \ {r} :
         (\/ ~(q \in S /\ Len(q.path) < Len(r.path)) /\ q.path = target(r)
          \/ (q \in S /\ Len(q.path) <= Len(r.path)) /\ target(q) = target(r))
            => r \in C
  BY DEF Clash
<1>4. \A r : NewPath(M, from, to, r) = IF moves(r) THEN target(r) ELSE r.path
  BY DEF NewPath
<1>8. /\ \A r : moves(r) => reached(r)
      /\ \A r, q : moves(r) /\ reached(q) /\ Len(q.path) < Len(r.path) => moves(q)
  BY DEF PartsMoved, Reached
<1> HIDE DEF C, S, target
<1>5. ASSUME NEW r \in d.files, NEW q \in d.files, moves(r), moves(q), target(r) = target(q)
      PROVE  r = q
  BY <1>1, <1>3, <1>5, <1>8
<1>6. ASSUME NEW r \in d.files, NEW q \in d.files, moves(r), ~moves(q), target(r) = q.path
      PROVE  r = q
  <2>1. CASE q \in S /\ Len(q.path) < Len(r.path)
    <3>1. \A c \in C : c \in d.files
      BY <1>2 DEF C, Clash, S
    <3>2. \A c \in C : Len(q.path) < Len(c.path)
      BY <1>1, <1>6, <1>8, <2>1, <3>1
    <3>3. QED
      BY <1>6, <1>8, <2>1, <3>2
  <2>2. CASE ~(q \in S /\ Len(q.path) < Len(r.path))
    BY <1>1, <1>3, <1>6, <1>8, <2>2
  <2>3. QED
    BY <2>1, <2>2
<1> HIDE DEF moves
<1>7. QED
  <2>1. TAKE r, q \in d.files
  <2>2. HAVE NewPath(M, from, to, r) = NewPath(M, from, to, q)
  <2>3. CASE ~moves(r) /\ ~moves(q)
    BY <1>4, <2>2, <2>3 DEF PathsOnce
  <2>4. QED
    BY <1>4, <1>5, <1>6, <2>2, <2>3

LEMMA ReachedIsPart ==
    ASSUME NEW d, NEW from, NEW to PROVE Reached(d, from, to) \in PartsMoved(d, from, to)
BY DEF PartsMoved

LEMMA MoveRowsKept ==
    ASSUME NEW d \in Database, NEW N, NEW from \in Path, NEW to \in Path,
           NEW M \in PartsMoved(d, from, to)
    PROVE  Kept(d, MoveRows(d, M, from, to), N)
<1> DEFINE g == [r \in d.files |->
                    IF r \in M THEN [r EXCEPT !.path = Target(r.path, from, to)] ELSE r]
           e == MoveRows(d, M, from, to)
<1>1. \A r \in d.files : g[r].id = r.id /\ g[r].path = NewPath(M, from, to, r)
  BY DEF Database, Row, NewPath
<1>2. e.files = {g[r] : r \in d.files}
  BY DEF MoveRows, Database
<1> HIDE DEF g, e
<1>3. ASSUME Tidy(d) PROVE Tidy(e)
  <2>1. \A r, q \in d.files : g[r].path = g[q].path => r = q
    BY <1>1, <1>3, RenamedApart DEF Tidy
  <2>2. QED
    BY <1>1, <1>2, <1>3, <2>1 DEF Tidy, IdsOnce, PathsOnce
<1>4. Ids(e) \subseteq Ids(d)
  BY <1>1, <1>2 DEF Ids
<1>5. QED
  BY <1>3, <1>4 DEF Kept, e

LEMMA RenameSubtreeKept ==
    ASSUME NEW d \in Database, NEW N, NEW from \in Path, NEW to \in Path
    PROVE  Kept(d, RenameSubtree(d, from, to), N)
BY MoveRowsKept, ReachedIsPart DEF RenameSubtree

LEMMA EnsureRemoteRowKept ==
    ASSUME NEW d \in Database, NEW res, NEW s, NEW id, NEW N,
           RowAt(d, res.path) = {} => id \in N \ Ids(d)
    PROVE  Kept(d, EnsureRemoteRow(d, res, s, id), N)
<1>1. CASE RowAt(d, res.path) = {}
  BY <1>1, KeptInserted DEF EnsureRemoteRow
<1>2. CASE RowAt(d, res.path) # {}
  <2> DEFINE g == [r \in d.files |->
                      IF r.path = res.path
                      THEN [r EXCEPT !.kind = res.kind, !.ver = res.ver,
                                     !.sync = IF r.sync \in Protected THEN r.sync ELSE s]
                      ELSE r]
  <2>1. \A r \in d.files : g[r].id = r.id /\ g[r].path = r.path
    BY DEF Database, Row
  <2>2. EnsureRemoteRow(d, res, s, id).files = {g[r] : r \in d.files}
    BY <1>2 DEF EnsureRemoteRow, Database
  <2> HIDE DEF g
  <2>3. QED
    BY <2>1, <2>2, KeptPainted
<1>3. QED
  BY <1>1, <1>2

LEMMA ApplyConflictKept ==
    ASSUME NEW d, Sound(d), NEW N, NEW f \in FileId, NEW from \in Path, NEW cp \in Path
    PROVE  Kept(d, ApplyConflict(d, f, from, cp), N)
<1> DEFINE e == RenameSubtree(d, from, cp)
           g == ForgetVersion(e, f)
           h == UpsertAlone(g, f, "Upload", cp, RootPath)
<1>1. d \in Database /\ e \in Database /\ g \in Database
  BY RenameSubtreeFollows, AsideFollows DEF Follows, Sound
<1>2. Kept(d, e, N)
  BY <1>1, RenameSubtreeKept
<1>3. Kept(e, g, N)
  BY <1>1, StatesKept
<1>4. Kept(g, h, N)
  BY <1>1, QueueKept
<1>5. ApplyConflict(d, f, from, cp).files = h.files
  <2>1. Sound(g)
    BY AsideFollows DEF Follows
  <2>2. Follows(g, h)
    <3> HIDE DEF g
    <3>1. QED
      BY <2>1, UpsertAloneFollows, RootTypes DEF OpType
  <2>3. ApplyConflict(d, f, from, cp) = [h EXCEPT !.copies = @ \cup {<<f, cp>>}]
    BY DEF ApplyConflict
  <2> HIDE DEF h
  <2>4. QED
    BY <2>2, <2>3 DEF Database, Follows, Sound
<1> HIDE DEF e, g, h
<1>6. QED
  BY <1>2, <1>3, <1>4, <1>5, KeptOn, KeptSame
-----------------------------------------------------------------------------
(* What a critical section may do to a store besides: keep it superseded.     *)
Tame(d, e, F) == (Superseded(d) => Superseded(e)) /\ Kept(d, e, F)

LEMMA TameOn ==
    ASSUME NEW d, NEW e, NEW g, NEW F, Tame(d, e, F), Tame(e, g, F) PROVE Tame(d, g, F)
BY KeptOn DEF Tame

LEMMA TameSelf == ASSUME NEW d, NEW F PROVE Tame(d, d, F)
BY KeptSame DEF Tame

LEMMA SetSyncTame ==
    ASSUME NEW d \in Database, NEW f, NEW s, s # "QueuedDelete", NEW F
    PROVE  Tame(d, SetSync(d, f, s), F)
BY SetSyncSets, StatesKept DEF Tame, Superseded

LEMMA SetCachedTame ==
    ASSUME NEW d \in Database, NEW f, NEW s \in SyncState \ {"QueuedDelete"}, NEW F
    PROVE  Tame(d, SetCached(d, f, s), F)
BY SetCachedSets, StatesKept DEF Tame, Superseded

LEMMA SetSyncedTame ==
    ASSUME NEW d \in Database, NEW f, NEW v \in Nat, NEW F
    PROVE  Tame(d, SetSynced(d, f, v), F)
BY SetSyncedSets, StatesKept DEF Tame, Superseded

LEMMA RenameSubtreeTame ==
    ASSUME NEW d \in Database, NEW from \in Path, NEW to \in Path, NEW F
    PROVE  Tame(d, RenameSubtree(d, from, to), F)
BY RenameSubtreeSets, RenameSubtreeKept DEF Tame, Superseded

LEMMA DropOpTame ==
    ASSUME NEW d \in Database, NEW i, NEW F PROVE Tame(d, DropOp(d, i), F)
BY DropSets, QueueKept DEF Tame, Superseded

LEMMA DeleteRowTame ==
    ASSUME NEW d \in Database, NEW f, NEW F PROVE Tame(d, DeleteRow(d, f), F)
BY DropSets, DeleteRowKept DEF Tame, Superseded

LEMMA SetStatusTame ==
    ASSUME NEW d \in Database, NEW i, NEW s, NEW F PROVE Tame(d, SetStatus(d, i, s), F)
BY SetStatusSets, QueueKept DEF Tame, Superseded

LEMMA UpsertTame ==
    ASSUME NEW d \in Database, NEW f, NEW type, type # "Upload", NEW from, NEW to, NEW F
    PROVE  Tame(d, Upsert(d, f, type, from, to), F)
BY UpsertSets, QueueKept DEF Tame, Superseded

LEMMA EnsureRemoteRowTame ==
    ASSUME NEW d \in Database, NEW res, NEW s \in SyncState \ {"QueuedDelete"}, NEW id, NEW F,
           RowAt(d, res.path) = {} => id \in F \ Ids(d)
    PROVE  Tame(d, EnsureRemoteRow(d, res, s, id), F)
<1> DEFINE e == EnsureRemoteRow(d, res, s, id)
<1>1. /\ Uploads(e) = Uploads(d) /\ Doomed(e) \subseteq Doomed(d)
      /\ Ids(e) \subseteq IF RowAt(d, res.path) = {} THEN Ids(d) \cup {id} ELSE Ids(d)
  BY EnsureRemoteRowSets
<1>2. Kept(d, e, F)
  BY EnsureRemoteRowKept
<1> HIDE DEF e
<1>3. Tame(d, e, F)
  BY <1>1, <1>2 DEF Tame, Superseded
<1>4. QED
  BY <1>3 DEF e

LEMMA ApplyConflictTame ==
    ASSUME NEW d, Sound(d), NEW f \in FileId, NEW from \in Path, NEW cp \in Path, NEW F
    PROVE  Tame(d, ApplyConflict(d, f, from, cp), F)
BY ApplyConflictSets, ApplyConflictKept DEF Tame

LEMMA RetryOrFailTame ==
    ASSUME NEW d, Sound(d), NEW o, NEW b \in BOOLEAN, NEW F PROVE Tame(d, RetryOrFail(d, o, b), F)
<1> DEFINE e == IF b THEN SetStatus(d, o.id, "Retryable") ELSE DropOp(d, o.id)
<1>1. d \in Database /\ e \in Database
  BY SetStatusFollows, DropOpFollows DEF Sound, Follows, OpStatus
<1>2. Tame(d, e, F)
  BY <1>1, SetStatusTame, DropOpTame
<1> HIDE DEF e
<1>3. Tame(e, SetSync(e, o.file, "Error"), F)
  BY <1>1, SetSyncTame
<1>4. Tame(d, SetSync(e, o.file, "Error"), F)
  BY <1>2, <1>3, TameOn
<1>5. QED
  BY <1>4 DEF RetryOrFail, e

(* What a write uploads is, with the same critical section, no longer to be  *)
(* deleted; what unlink dooms has, with the same one, no upload left.         *)
LEMMA WriteTame ==
    ASSUME NEW d, Sound(d), NEW f, NEW p, NEW F
    PROVE  Tame(d, Upsert(SetCached(d, f, "QueuedUpload"), f, "Upload", p, RootPath), F)
<1> DEFINE e == SetCached(d, f, "QueuedUpload")
<1>1. d \in Database /\ e \in Database /\ "QueuedUpload" \in SyncState \ {"QueuedDelete"}
  <2>1. "QueuedUpload" \in SyncState \ {"Conflict", "QueuedDelete"}
    BY DEF SyncState
  <2>2. Follows(d, e)
    BY <2>1, SetCachedFollows
  <2>3. QED
    BY <2>1, <2>2 DEF Sound, Follows
<1>2. Uploads(e) = Uploads(d) /\ Ids(e) \subseteq Ids(d) /\ Doomed(e) \subseteq Doomed(d) \ {f}
  BY <1>1, SetCachedSets
<1> HIDE DEF e
<1>3. /\ Doomed(Upsert(e, f, "Upload", p, RootPath)) = Doomed(e)
      /\ Ids(Upsert(e, f, "Upload", p, RootPath)) = Ids(e)
      /\ Uploads(Upsert(e, f, "Upload", p, RootPath)) \subseteq Uploads(e) \cup {f}
  BY <1>1, UpsertSets
<1>4. Kept(d, Upsert(e, f, "Upload", p, RootPath), F)
  <2>1. Kept(d, e, F)
    BY <1>1, StatesKept DEF e
  <2>2. QED
    BY <1>1, <2>1, QueueKept, KeptOn
<1>5. Tame(d, Upsert(e, f, "Upload", p, RootPath), F)
  BY <1>2, <1>3, <1>4 DEF Tame, Superseded
<1>6. QED
  BY <1>5 DEF e

LEMMA UnlinkTame ==
    ASSUME NEW d, Sound(d), NEW f, NEW p, NEW F
    PROVE  Tame(d, UpsertAlone(SetSync(d, f, "QueuedDelete"), f, "Delete", p, RootPath), F)
<1> DEFINE e == SetSync(d, f, "QueuedDelete")
           g == DropOpsOf(e, f)
           h == Upsert(g, f, "Delete", p, RootPath)
<1>1. d \in Database /\ Sound(e) /\ e \in Database
  <2>1. "QueuedDelete" \in SyncState \ {"Conflict"}
    BY DEF SyncState
  <2>2. Follows(d, e)
    BY <2>1, SetSyncFollows
  <2>3. QED
    BY <2>2 DEF Sound, Follows
<1>2. Uploads(e) = Uploads(d) /\ Ids(e) \subseteq Ids(d) /\ Doomed(e) \subseteq Doomed(d) \cup {f}
  BY <1>1, SetSyncSets
<1> HIDE DEF e
<1>3. g \in Database
  BY <1>1, DropOpsOfFollows DEF Sound, Follows
<1>4. Uploads(g) \subseteq Uploads(e) \ {f} /\ Doomed(g) = Doomed(e) /\ Ids(g) = Ids(e)
  BY <1>1, DropSets
<1> HIDE DEF g
<1>5. Uploads(h) \subseteq Uploads(g) /\ Doomed(h) = Doomed(g) /\ Ids(h) = Ids(g)
  BY <1>3, UpsertSets
<1>6. Kept(d, h, F)
  <2>1. Kept(d, e, F)
    BY <1>1, StatesKept DEF e
  <2>2. Kept(e, g, F)
    BY <1>1, QueueKept DEF g
  <2>3. Kept(g, h, F)
    BY <1>3, QueueKept
  <2>4. QED
    BY <2>1, <2>2, <2>3, KeptOn
<1> HIDE DEF h
<1>7. Tame(d, h, F)
  BY <1>2, <1>4, <1>5, <1>6 DEF Tame, Superseded
<1>8. QED
  BY <1>7 DEF UpsertAlone, e, g, h
-----------------------------------------------------------------------------
(* The ids that new_id has given to files that are not in the store yet are  *)
(* nobody else's: neither the store nor the refresh's transaction has them.   *)
Creating(t) == th[t].pc \in {"create", "mkdir"}
Reserved    == {th[t].entry.id : t \in {u \in Thread : Creating(u)}}
Stores      == {db} \cup (IF Locked THEN {w.tx} ELSE {})

Apart ==
    /\ Reserved \subseteq born
    /\ \A t, u \in Thread :
          Creating(t) /\ Creating(u) /\ th[t].entry.id = th[u].entry.id => t = u

(* A kill in the middle of a critical section of unlink voids the promise     *)
(* about uploads, and no other.                                               *)
StoresOK ==
    \A d \in Stores : /\ Torn \/ Superseded(d)
                      /\ Tidy(d) /\ Ids(d) \subseteq born \ Reserved

TornKept == Torn => Torn'

Safe == Apart /\ StoresOK

(* No thread has begun to create a file.                                      *)
Calm ==
    \A t \in Thread :
        Creating(t)' => Creating(t) /\ th'[t].entry.id = th[t].entry.id

LEMMA CalmSame == ASSUME th' = th PROVE Calm
BY DEF Calm, Creating

LEMMA CalmStep ==
    ASSUME TypeOK, NEW t \in Thread, NEW new, new.pc \notin {"create", "mkdir"},
           th' = [th EXCEPT ![t] = new]
    PROVE  Calm
BY DEF TypeOK, Calm, Creating

LEMMA CalmReturn ==
    ASSUME TypeOK, NEW t \in Thread, Return(t) PROVE Calm
<1>1. IdleThread.pc \notin {"create", "mkdir"}
  BY DEF IdleThread
<1>2. QED
  BY <1>1, CalmStep DEF Return

LEMMA CalmAdvance ==
    ASSUME TypeOK, NEW t \in Thread, NEW step, step \notin {"create", "mkdir"}, NEW data,
           Advance(t, step, data)
    PROVE  Calm
<1> DEFINE new == [th[t] EXCEPT !.pc = step, !.data = data]
<1>1. th[t] \in ThreadState
  BY DEF TypeOK
<1>2. new.pc = step
  BY <1>1 DEF ThreadState
<1>3. th' = [th EXCEPT ![t] = new]
  BY DEF Advance, TypeOK
<1> HIDE DEF new
<1>4. QED
  BY <1>2, <1>3, CalmStep

LEMMA CalmBegin ==
    ASSUME TypeOK, NEW t \in Thread, NEW step, step \notin {"create", "mkdir"},
           NEW entry, NEW to, Begin(t, step, entry, to)
    PROVE  Calm
<1> DEFINE new == [pc |-> step, entry |-> entry, to |-> to, data |-> NoData]
<1>1. new.pc \notin {"create", "mkdir"} /\ th' = [th EXCEPT ![t] = new]
  BY DEF Begin
<1> HIDE DEF new
<1>2. QED
  BY <1>1, CalmStep

(* A step at which every store comes tamely from one there was.               *)
LEMMA TameKeeps ==
    ASSUME Safe, TornKept, Calm, born \subseteq born',
           \A d \in Stores' : \E e \in Stores : Tame(e, d, born' \ born)
    PROVE  Safe'
<1>1. Reserved' \subseteq Reserved
  BY DEF Calm, Reserved
<1>2. Apart'
  BY <1>1 DEF Safe, Apart, Calm
<1>3. StoresOK'
  <2>1. Reserved \subseteq born
    BY DEF Safe, Apart
  <2>2. ASSUME NEW d \in Stores'
        PROVE  (Torn' \/ Superseded(d)) /\ Tidy(d) /\ Ids(d) \subseteq born' \ Reserved'
    <3>1. PICK e \in Stores : Tame(e, d, born' \ born)
      BY <2>2
    <3>2. (Torn \/ Superseded(e)) /\ Tidy(e) /\ Ids(e) \subseteq born \ Reserved
      BY DEF Safe, StoresOK
    <3>3. (Superseded(e) => Superseded(d)) /\ Tidy(d) /\ Ids(d) \subseteq Ids(e) \cup (born' \ born)
      BY <3>1, <3>2 DEF Tame, Kept
    <3>4. QED
      BY <1>1, <2>1, <3>2, <3>3 DEF TornKept
  <2>3. QED
    BY <2>2 DEF StoresOK
<1>4. QED
  BY <1>2, <1>3 DEF Safe

(* The two kinds of them: on the database, and on the transaction.            *)
LEMMA StoreStep ==
    ASSUME Safe, TornKept, Calm, born \subseteq born', Tame(db, db', born' \ born),
           w' = w \/ w'.pc # "f_apply"
    PROVE  Safe'
<1>1. ASSUME NEW d \in Stores' PROVE \E e \in Stores : Tame(e, d, born' \ born)
  <2>1. CASE d = db'
    BY <2>1 DEF Stores
  <2>2. CASE w' = w /\ Locked /\ d = w.tx
    BY <2>2, TameSelf DEF Stores
  <2>3. QED
    BY <2>1, <2>2 DEF Stores, Locked
<1>2. QED
  BY <1>1, TameKeeps

LEMMA TxStep ==
    ASSUME Safe, TornKept, Locked, UNCHANGED <<db, th>>, born \subseteq born',
           Tame(w.tx, w'.tx, born' \ born)
    PROVE  Safe'
<1>1. ASSUME NEW d \in Stores' PROVE \E e \in Stores : Tame(e, d, born' \ born)
  <2>1. CASE d = db
    BY <2>1, TameSelf DEF Stores
  <2>2. CASE d = w'.tx
    BY <2>2 DEF Stores
  <2>3. QED
    BY <2>1, <2>2 DEF Stores
<1>2. QED
  BY <1>1, TameKeeps, CalmSame

LEMMA QuietStep ==
    ASSUME Safe, TornKept, Calm, UNCHANGED <<db, born>>, w' = w \/ w'.pc # "f_apply"
    PROVE  Safe'
BY TameSelf, StoreStep
-----------------------------------------------------------------------------
(* create_file and mkdir: the id is drawn, and later inserted.                *)
LEMMA ReserveStep ==
    ASSUME Inv, Safe, TornKept, NEW t \in Thread, NEW step \in {"create", "mkdir"}, NEW entry, NEW to,
           FileId \ born # {}, entry.id = FreshId, Begin(t, step, entry, to),
           born' = born \cup {FreshId}, UNCHANGED <<db, w>>
    PROVE  Safe'
<1> DEFINE new == [pc |-> step, entry |-> entry, to |-> to, data |-> NoData]
<1>1. FreshId \notin born
  BY DEF FreshId
<1>2. /\ th \in [Thread -> ThreadState] /\ th' = [th EXCEPT ![t] = new]
      /\ new.pc \in {"create", "mkdir"} /\ new.entry.id = FreshId
  BY DEF Inv, TypeOK, Begin
<1> HIDE DEF new
<1>3. \A u \in Thread : u # t => Creating(u)' = Creating(u) /\ th'[u] = th[u]
  BY <1>2 DEF Creating
<1>4. th'[t].entry.id = FreshId
  BY <1>2
<1>5. Reserved' \subseteq Reserved \cup {FreshId}
  BY <1>3, <1>4 DEF Reserved
<1>6. Apart'
  <2>1. Reserved' \subseteq born'
    BY <1>5 DEF Safe, Apart
  <2>2. \A u \in Thread : Creating(u) => th[u].entry.id # FreshId
    BY <1>1 DEF Safe, Apart, Reserved
  <2>3. \A u, v \in Thread :
           Creating(u)' /\ Creating(v)' /\ th'[u].entry.id = th'[v].entry.id => u = v
    BY <1>3, <1>4, <2>2 DEF Safe, Apart
  <2>4. QED
    BY <2>1, <2>3 DEF Apart
<1>7. StoresOK'
  <2>1. Stores' = Stores
    BY DEF Stores, Locked
  <2>2. \A d \in Stores : /\ Torn' \/ Superseded(d)
                          /\ Tidy(d) /\ Ids(d) \subseteq born' \ Reserved'
    BY <1>1, <1>5 DEF Safe, StoresOK, TornKept
  <2>3. QED
    BY <2>1, <2>2 DEF StoresOK
<1>8. QED
  BY <1>6, <1>7 DEF Safe

LEMMA InsertStep ==
    ASSUME Inv, Safe, TornKept, NEW t \in Thread, Creating(t), ~Locked, NEW type \in OpType,
           db' = Created(t, type), Return(t), UNCHANGED <<born, w>>
    PROVE  Safe'
<1> DEFINE id == th[t].entry.id
<1>1. /\ th[t].entry.sync = "QueuedUpload" /\ db \in Database /\ Inserted(t) \in Database
  BY CreatedFollows DEF Inv, NewRowsQueued, Creating, Sound, Follows
<1>2. /\ id \in born /\ id \notin Ids(db) /\ (Torn \/ Superseded(db))
      /\ Tidy(db) /\ Ids(db) \subseteq born
  BY DEF Safe, Apart, StoresOK, Stores, Reserved
<1>3. /\ Uploads(Inserted(t)) = Uploads(db) /\ Ids(Inserted(t)) = Ids(db) \cup {id}
      /\ Doomed(Inserted(t)) = Doomed(db)
  BY <1>1, InsertRowSets DEF Inserted
<1>4. db' = db \/ db' = Upsert(Inserted(t), id, type, th[t].entry.path, RootPath)
  BY DEF Created
<1> HIDE DEF id
<1>5. Uploads(db') \subseteq Uploads(db) \cup {id} /\ Doomed(db') = Doomed(db)
      /\ Ids(db') \subseteq Ids(db) \cup {id}
  <2>1. CASE db' = db
    BY <2>1
  <2>2. CASE db' = Upsert(Inserted(t), id, type, th[t].entry.path, RootPath)
    <3> DEFINE e == Inserted(t)
               g == Upsert(e, id, type, th[t].entry.path, RootPath)
    <3>1. Doomed(g) = Doomed(e) /\ Ids(g) = Ids(e) /\ Uploads(g) \subseteq Uploads(e) \cup {id}
      <4> HIDE DEF e
      <4>1. QED
        BY <1>1, UpsertSets DEF e
    <3> HIDE DEF g
    <3>2. QED
      BY <1>3, <2>2, <3>1 DEF g
  <2>3. QED
    BY <1>4, <2>1, <2>2
<1>6. (Torn' \/ Superseded(db')) /\ Tidy(db')
  <2>1. Superseded(db) => Superseded(db')
    BY <1>2, <1>5, DoomedHasRow DEF Superseded
  <2>2. Kept(db, db', {id})
    <3>1. RowAt(db, th[t].entry.path) = {} => Kept(db, Inserted(t), {id})
      BY <1>1, <1>2, KeptInserted DEF Inserted, id
    <3>2. Kept(Inserted(t), Upsert(Inserted(t), id, type, th[t].entry.path, RootPath), {id})
      BY <1>1, QueueKept
    <3>3. QED
      BY <3>1, <3>2, KeptSame, KeptOn DEF Created, id
  <2>3. QED
    BY <1>2, <2>1, <2>2 DEF Kept, TornKept
<1>7. /\ th \in [Thread -> ThreadState] /\ th' = [th EXCEPT ![t] = IdleThread]
      /\ IdleThread.pc = "idle"
  BY DEF Inv, TypeOK, Return, IdleThread
<1>8. \A u \in Thread : Creating(u)' => u # t /\ Creating(u) /\ th'[u] = th[u]
  BY <1>7 DEF Creating
<1>9. Reserved' \subseteq Reserved \ {id}
  BY <1>8 DEF Safe, Apart, Reserved, id
<1>10. Apart'
  BY <1>8, <1>9 DEF Safe, Apart
<1>11. Stores' = {db'} /\ born' = born
  BY DEF Stores, Locked
<1>12. Ids(db') \subseteq born \ Reserved'
  BY <1>2, <1>5, <1>9 DEF Safe, StoresOK, Stores
<1>13. StoresOK'
  BY <1>6, <1>11, <1>12 DEF StoresOK
<1>14. QED
  BY <1>10, <1>13 DEF Safe
-----------------------------------------------------------------------------
(* The calls.                                                                 *)
LEMMA LookupSafe ==
    ASSUME Inv, Safe, TornKept, NEW t \in Thread, NEW step, step \notin {"create", "mkdir"},
           NEW entry, NEW to, Begin(t, step, entry, to), UNCHANGED <<db, born, w>>
    PROVE  Safe'
BY CalmBegin, QuietStep DEF Inv

LEMMA CallSafe == ASSUME Inv, Safe, TornKept, NEW t \in Thread, Call(t) PROVE Safe'
<1>1. ASSUME NEW p \in UserPath, CreateFile(t, p) PROVE Safe'
  <2> DEFINE row == [id |-> FreshId, path |-> p, kind |-> "File", sync |-> "QueuedUpload",
                     ver |-> NoVersion, cached |-> TRUE]
  <2>1. row.id = FreshId
    OBVIOUS
  <2> HIDE DEF row
  <2>2. QED
    BY <1>1, <2>1, ReserveStep DEF CreateFile, row
<1>2. ASSUME NEW p \in UserPath, MakeDir(t, p) PROVE Safe'
  <2> DEFINE row == [id |-> FreshId, path |-> p, kind |-> "Dir", sync |-> "QueuedUpload",
                     ver |-> NoVersion, cached |-> FALSE]
  <2>1. row.id = FreshId
    OBVIOUS
  <2> HIDE DEF row
  <2>2. QED
    BY <1>2, <2>1, ReserveStep DEF MakeDir, row
<1>3. ASSUME NEW p \in UserPath, WriteFile(t, p) PROVE Safe'
  BY <1>3, LookupSafe DEF WriteFile
<1>4. ASSUME NEW p \in UserPath, Unlink(t, p) PROVE Safe'
  BY <1>4, LookupSafe DEF Unlink
<1>5. ASSUME NEW p \in UserPath, ReadFile(t, p) PROVE Safe'
  BY <1>5, LookupSafe DEF ReadFile
<1>6. ASSUME NEW p \in UserPath, NEW q \in UserPath, Rename(t, p, q) PROVE Safe'
  BY <1>6, LookupSafe DEF Rename
<1>7. QED
  BY <1>1, <1>2, <1>3, <1>4, <1>5, <1>6 DEF Call

LEMMA ReadCommitTame ==
    ASSUME Inv, NEW t \in Thread, ReadCommit(t), NEW F PROVE Tame(db, db', F)
<1> DEFINE f == th[t].entry.id
           new(r) == IF r.id = f
                     THEN [r EXCEPT !.cached = TRUE,
                                    !.sync = IF @ = "Placeholder" THEN "Synced" ELSE @]
                     ELSE r
           G == {new(r) : r \in db.files}
<1>1. db \in Database
  BY DEF Inv, TypeOK
<1>2. db' = [db EXCEPT !.files = G]
  BY DEF ReadCommit
<1>3. \A r \in db.files : /\ new(r).id = r.id
                          /\ new(r).sync = "QueuedDelete" => r.sync = "QueuedDelete"
  BY <1>1 DEF Database, Row
<1> HIDE DEF new
<1>4. db'.files = G /\ Uploads(db') = Uploads(db)
  BY <1>1, <1>2, SameQueue DEF Database
<1>5. Doomed(db') \subseteq Doomed(db)
  BY <1>3, <1>4 DEF Ids, Doomed
<1>6. Kept(db, db', F)
  <2> DEFINE g == [r \in db.files |-> new(r)]
  <2>1. \A r \in db.files : g[r].id = r.id /\ g[r].path = r.path
    BY <1>1 DEF new, Database, Row
  <2>2. db'.files = {g[r] : r \in db.files}
    BY <1>4
  <2> HIDE DEF g
  <2>3. QED
    BY <2>1, <2>2, KeptPainted
<1>7. QED
  BY <1>4, <1>5, <1>6 DEF Tame, Superseded

LEMMA CallStepSafe == ASSUME Inv, Safe, TornKept, NEW t \in Thread, CallStep(t) PROVE Safe'
<1> DEFINE e == th[t].entry
<1>0. /\ TypeOK /\ Sound(db) /\ db \in Database
      /\ e.path \in Path /\ th[t].to \in Path
  BY CallTypes DEF Inv, TypeOK
<1>1. CASE CreateCommit(t)
  BY <1>1, InsertStep DEF CreateCommit, Creating, OpType
<1>2. CASE MkdirCommit(t)
  BY <1>2, InsertStep DEF MkdirCommit, Creating, OpType
<1>3. ASSUME Tame(db, db', born' \ born), Return(t), UNCHANGED <<born, w>> PROVE Safe'
  BY <1>0, <1>3, CalmReturn, StoreStep
<1>4. ASSUME NEW step, step \notin {"create", "mkdir"}, NEW data, Advance(t, step, data),
             UNCHANGED <<db, born, w>>
      PROVE  Safe'
  BY <1>0, <1>4, CalmAdvance, QuietStep
<1>5. ASSUME Return(t), UNCHANGED <<db, born, w>> PROVE Safe'
  BY <1>0, <1>5, CalmReturn, QuietStep
<1>6. CASE WriteCopy(t)
  BY <1>4, <1>6 DEF WriteCopy
<1>7. CASE WriteCommit(t)
  <2>1. Tame(db, db', born' \ born)
    BY <1>0, <1>7, WriteTame DEF WriteCommit, Written
  <2>2. QED
    BY <1>3, <1>7, <2>1 DEF WriteCommit
<1>8. CASE UnlinkCommit(t)
  <2>1. Tame(db, db', born' \ born)
    BY <1>0, <1>8, UnlinkTame, DeleteRowTame DEF UnlinkCommit
  <2>2. QED
    BY <1>3, <1>8, <2>1 DEF UnlinkCommit
<1>9. CASE RenameCommit(t)
  <2>1. Tame(db, Renamed(t), born' \ born)
    BY <1>0, RenameSubtreeTame DEF Renamed
  <2>2. Renamed(t) \in Database
    BY RenamedFollows DEF Inv, Follows, Sound
  <2>3. Tame(Renamed(t), Upsert(Renamed(t), e.id, "Rename", e.path, th[t].to), born' \ born)
    BY <2>2, UpsertTame
  <2>4. Tame(db, db', born' \ born)
    BY <1>9, <2>1, <2>3, TameOn DEF RenameCommit
  <2>5. QED
    BY <1>3, <1>9, <2>4 DEF RenameCommit
<1>10. CASE ReadDownload(t)
  BY <1>4, <1>5, <1>10 DEF ReadDownload
<1>11. CASE ReadDownloadFails(t)
  BY <1>5, <1>11 DEF ReadDownloadFails
<1>12. CASE ReadStore(t)
  BY <1>4, <1>12 DEF ReadStore
<1>13. CASE ReadCommit(t)
  BY <1>3, <1>13, ReadCommitTame DEF ReadCommit
<1>14. QED
  BY <1>1, <1>2, <1>6, <1>7, <1>8, <1>9, <1>10, <1>11, <1>12, <1>13 DEF CallStep

LEMMA RefreshRequestedTame ==
    ASSUME NEW d \in Database, NEW F
    PROVE  Tame(d, Upsert(d, Root, "RefreshTree", RootPath, RootPath), F)
BY UpsertTame

LEMMA RequestRefreshSafe == ASSUME Inv, Safe, TornKept, RequestRefresh PROVE Safe'
<1>1. Tame(db, db', born' \ born)
  BY RefreshRequestedTame DEF Inv, TypeOK, RequestRefresh
<1>2. QED
  BY <1>1, CalmSame, StoreStep DEF RequestRefresh
-----------------------------------------------------------------------------
(* The worker: most of its steps are on the database alone, or not even that. *)
LEMMA JobStep ==
    ASSUME Inv, Safe, TornKept, Tame(db, db', born' \ born), born \subseteq born', th' = th,
           Finish \/ w'.pc # "f_apply"
    PROVE  Safe'
<1>1. IdleWorker.pc # "f_apply"
  BY DEF IdleWorker
<1>2. QED
  BY <1>1, CalmSame, StoreStep DEF Finish

LEMMA QuietJobStep ==
    ASSUME Inv, Safe, TornKept, UNCHANGED <<db, born, th>>, Finish \/ w'.pc # "f_apply"
    PROVE  Safe'
BY TameSelf, JobStep

LEMMA GotoPc ==
    ASSUME Inv, NEW step, Goto(step) PROVE w'.pc = step
BY WorkerTypes DEF Inv, Goto, WorkerState

LEMMA FailPc == ASSUME Inv, NEW b, w' = [w EXCEPT !.pc = "fail", !.again = b] PROVE w'.pc = "fail"
BY WorkerTypes DEF Inv, WorkerState

LEMMA MetaPc ==
    ASSUME Inv, NEW step, NEW found, w' = [w EXCEPT !.pc = step, !.meta = found]
    PROVE  w'.pc = step
BY WorkerTypes DEF Inv, WorkerState

LEMMA LeasesSafe == ASSUME Inv, Safe, TornKept, RecoverLease \/ Lease PROVE Safe'
<1>1. CASE RecoverLease
  <2>1. Tame(db, db', born' \ born)
    BY <1>1, SetStatusTame DEF Inv, TypeOK, RecoverLease
  <2>2. QED
    BY <1>1, <2>1, CalmSame, StoreStep DEF RecoverLease
<1>2. CASE Lease
  <2>1. Tame(db, db', born' \ born)
    <3>1. PICK o : db' = SetStatus(db, o.id, "Leased")
      BY <1>2 DEF Lease
    <3>2. QED
      BY <3>1, SetStatusTame DEF Inv, TypeOK
  <2>2. w'.pc = "start"
    BY <1>2, WorkerTypes DEF Inv, Lease, WorkerState
  <2>3. QED
    BY <1>2, <2>1, <2>2, JobStep DEF Lease
<1>3. QED
  BY <1>1, <1>2

LEMMA StartSafe == ASSUME Inv, Safe, TornKept, Start PROVE Safe'
<1> DEFINE found == IF w.job.type \in {"Upload", "Mkdir", "Download"} THEN Mine ELSE {RootRow}
           start == IF w.job.type = "RefreshTree" THEN spent.other ELSE 0
           started == [w EXCEPT !.pc = FirstStep[w.job.type], !.entry = The(found),
                                !.walk = {RootPath}, !.before = start]
<1>1. Goto("u_finish") \/ Abandon \/ w' = started
  BY DEF Start
<1>2. FirstStep[w.job.type] # "f_apply" /\ w \in WorkerState
  BY WorkerTypes DEF Inv, FirstStep, OpType
<1> HIDE DEF found, start
<1>3. started.pc = FirstStep[w.job.type]
  BY <1>2 DEF WorkerState
<1> HIDE DEF started
<1>4. Finish \/ w'.pc # "f_apply"
  BY <1>1, <1>2, <1>3, GotoPc DEF Abandon
<1>5. QED
  BY <1>4, QuietJobStep DEF Start

LEMMA FailSafe == ASSUME Inv, Safe, TornKept, Fail PROVE Safe'
<1>1. Tame(db, db', born' \ born)
  BY RetryOrFailTame, WorkerTypes DEF Inv, Fail
<1>2. QED
  BY <1>1, JobStep DEF Fail

LEMMA CommitSyncedSafe == ASSUME Inv, Safe, TornKept, CommitSynced PROVE Safe'
<1> DEFINE e == IF w.meta = {} THEN db
                ELSE SetSynced(db, w.job.file, RemoteVersion(w.meta))
<1>1. RemoteVersion(w.meta) \in Nat /\ Sound(db) /\ db \in Database
  BY RemoteVersionType, WorkerTypes DEF Inv, TypeOK
<1>2. Tame(db, e, born' \ born) /\ e \in Database
  BY <1>1, SetSyncedTame, SetSyncedFollows, TameSelf DEF Follows, Sound
<1>3. db' = DropOp(e, w.job.id)
  BY DEF CommitSynced
<1> HIDE DEF e
<1>4. Tame(db, db', born' \ born)
  BY <1>2, <1>3, DropOpTame, TameOn
<1>5. QED
  BY <1>4, JobStep DEF CommitSynced

(* process_upload: handle_conflict gives the server's file a row of its own.  *)
LEMMA UploadConflictSafe == ASSUME Inv, Safe, TornKept, UploadConflict PROVE Safe'
<1> DEFINE f == w.job.file
           from == w.entry.path
<1>1. Sound(db) /\ f \in FileId /\ from \in Path /\ FreshId \notin born
  BY WorkerTypes DEF Inv, UploadConflict, FreshId
<1>2. PICK cp \in NextConflictPaths(db, from) :
         IF ConflictFails(db, f, from, cp)
         THEN Abandon /\ UNCHANGED <<db, born>>
         ELSE /\ db' = IF w.meta = {} THEN ApplyConflict(db, f, from, cp)
                       ELSE EnsureRemoteRow(ApplyConflict(db, f, from, cp),
                                            The(w.meta), "Synced", FreshId)
              /\ born' = IF w.meta = {} THEN born ELSE born \cup {FreshId}
              /\ Goto("u_finish")
  BY DEF UploadConflict
<1>3. cp \in Path
  BY <1>1, NextConflictPathsType
<1>4. CASE ConflictFails(db, f, from, cp)
  BY <1>2, <1>4, QuietJobStep DEF UploadConflict, Abandon
<1>5. CASE ~ConflictFails(db, f, from, cp)
  <2> DEFINE aside == ApplyConflict(db, f, from, cp)
  <2>1. aside \in Database /\ Tame(db, aside, born' \ born)
    BY <1>1, <1>3, ApplyConflictFollows, ApplyConflictTame DEF Follows, Sound
  <2>2. w'.pc # "f_apply" /\ born \subseteq born'
    BY <1>2, <1>5, GotoPc
  <2> HIDE DEF aside
  <2>3. CASE w.meta = {}
    <3>1. db' = aside
      BY <1>2, <1>5, <2>3 DEF aside
    <3>2. QED
      BY <2>1, <2>2, <3>1, JobStep DEF UploadConflict
  <2>4. CASE w.meta # {}
    <3>1. db' = EnsureRemoteRow(aside, The(w.meta), "Synced", FreshId)
      BY <1>2, <1>5, <2>4 DEF aside
    <3>2. FreshId \in (born' \ born) \ Ids(aside)
      <4>1. Ids(db) \subseteq born
        BY DEF Safe, StoresOK, Stores
      <4>2. Ids(aside) \subseteq born
        BY <1>1, <1>3, <4>1, ApplyConflictSets DEF aside
      <4>3. QED
        BY <1>1, <1>2, <1>5, <2>4, <4>2
    <3>3. "Synced" \in SyncState \ {"QueuedDelete"}
      BY DEF SyncState
    <3>4. Tame(aside, db', born' \ born)
      BY <2>1, <3>1, <3>2, <3>3, EnsureRemoteRowTame
    <3>5. Tame(db, db', born' \ born)
      BY <2>1, <3>4, TameOn
    <3>6. QED
      BY <2>2, <3>5, JobStep DEF UploadConflict
  <2>5. QED
    BY <2>3, <2>4
<1>6. QED
  BY <1>4, <1>5

LEMMA UploadSafe ==
    ASSUME Inv, Safe, TornKept,
           \/ UploadMark \/ UploadCheck \/ UploadConflict \/ UploadFinish
           \/ UploadPut \/ UploadFetch \/ UploadCommit
    PROVE  Safe'
<1>1. CASE UploadMark
  <2>1. Tame(db, db', born' \ born)
    BY <1>1, SetSyncTame DEF Inv, TypeOK, UploadMark
  <2>2. QED
    BY <1>1, <2>1, GotoPc, JobStep DEF UploadMark
<1>2. CASE UploadCheck
  <2> DEFINE found == Meta(remote, w.entry.path)
             step == IF w.entry.ver = RemoteVersion(found) THEN "u_put" ELSE "u_conflict"
  <2>1. w' = [w EXCEPT !.pc = step, !.meta = found]
    BY <1>2, WorkerTypes DEF Inv, UploadCheck, WorkerState
  <2>2. step # "f_apply"
    OBVIOUS
  <2> HIDE DEF found, step
  <2>3. w'.pc # "f_apply"
    BY <2>1, <2>2, MetaPc
  <2>4. QED
    BY <1>2, <2>3, QuietJobStep DEF UploadCheck
<1>3. CASE UploadFinish
  <2>1. db' = db
    BY <1>3, FinishJobFollows DEF Inv, UploadFinish, At, FinishedJobGone
  <2>2. QED
    BY <1>3, <2>1, QuietJobStep DEF UploadFinish
<1>4. CASE UploadPut
  <2>1. w'.pc # "f_apply"
    BY <1>4, GotoPc, FailPc DEF UploadPut, AnswerLost
  <2>2. QED
    BY <1>4, <2>1, QuietJobStep DEF UploadPut
<1>5. CASE UploadFetch
  <2>1. w'.pc # "f_apply"
    BY <1>5, FailPc, MetaPc DEF UploadFetch
  <2>2. QED
    BY <1>5, <2>1, QuietJobStep DEF UploadFetch
<1>6. QED
  BY <1>1, <1>2, <1>3, <1>4, <1>5, UploadConflictSafe, CommitSyncedSafe DEF UploadCommit

LEMMA RemoteCallSafe ==
    ASSUME Inv, Safe, TornKept, NEW step, step # "f_apply", Goto(step) \/ AnswerLost,
           UNCHANGED <<db, born, th>>
    PROVE  Safe'
BY GotoPc, FailPc, QuietJobStep DEF AnswerLost

LEMMA DeletionSafe == ASSUME Inv, Safe, TornKept, DeleteCall \/ DeleteCommit PROVE Safe'
<1>1. CASE DeleteCall
  BY <1>1, RemoteCallSafe DEF DeleteCall
<1>2. CASE DeleteCommit
  <2> DEFINE e == DropOp(db, w.job.id)
  <2>1. db \in Database /\ e \in Database /\ db' = DeleteRow(e, w.job.file)
    BY <1>2, DropOpFollows DEF Inv, DeleteCommit, Follows, Sound
  <2>2. Tame(db, e, born' \ born)
    BY <2>1, DropOpTame
  <2> HIDE DEF e
  <2>3. Tame(e, db', born' \ born)
    BY <2>1, DeleteRowTame
  <2>4. QED
    BY <1>2, <2>2, <2>3, TameOn, JobStep DEF DeleteCommit
<1>3. QED
  BY <1>1, <1>2

LEMMA MakingSafe == ASSUME Inv, Safe, TornKept, MkdirCall \/ MkdirFetch \/ MkdirSynced PROVE Safe'
<1>1. CASE MkdirCall
  BY <1>1, RemoteCallSafe DEF MkdirCall
<1>2. CASE MkdirFetch
  <2>1. Finish \/ w'.pc # "f_apply"
    BY <1>2, MetaPc DEF MkdirFetch, Abandon
  <2>2. QED
    BY <1>2, <2>1, QuietJobStep DEF MkdirFetch
<1>3. QED
  BY <1>1, <1>2, CommitSyncedSafe DEF MkdirSynced

LEMMA RenamingSafe ==
    ASSUME Inv, Safe, TornKept, RenameProbe \/ RenameDelete \/ RenameMove \/ RenameFetch \/ RenameSynced
    PROVE  Safe'
<1>1. CASE RenameProbe
  <2>1. w'.pc # "f_apply"
    BY <1>1, GotoPc DEF RenameProbe
  <2>2. QED
    BY <1>1, <2>1, QuietJobStep DEF RenameProbe
<1>2. CASE RenameDelete
  BY <1>2, RemoteCallSafe DEF RenameDelete
<1>3. CASE RenameMove
  BY <1>3, RemoteCallSafe DEF RenameMove
<1>4. CASE RenameFetch
  BY <1>4, MetaPc, QuietJobStep DEF RenameFetch
<1>5. QED
  BY <1>1, <1>2, <1>3, <1>4, CommitSyncedSafe DEF RenameSynced

LEMMA DownloadingSafe ==
    ASSUME Inv, Safe, TornKept, DownloadMark \/ DownloadGet \/ DownloadWrite \/ DownloadCommit
    PROVE  Safe'
<1>1. CASE DownloadMark
  <2>1. Tame(db, db', born' \ born)
    BY <1>1, SetSyncTame DEF Inv, TypeOK, DownloadMark
  <2>2. QED
    BY <1>1, <2>1, GotoPc, JobStep DEF DownloadMark
<1>2. CASE DownloadGet
  <2> DEFINE data == The(Meta(remote, w.entry.path)).data
  <2>1. \/ w' = [w EXCEPT !.pc = "l_write", !.data = data]
        \/ w' = [w EXCEPT !.pc = "fail", !.again = FALSE]
    BY <1>2 DEF DownloadGet
  <2> HIDE DEF data
  <2>2. w'.pc # "f_apply"
    BY <2>1, FailPc, WorkerTypes DEF Inv, WorkerState
  <2>3. QED
    BY <1>2, <2>2, QuietJobStep DEF DownloadGet
<1>3. CASE DownloadWrite
  BY <1>3, GotoPc, QuietJobStep DEF DownloadWrite
<1>4. CASE DownloadCommit
  <2> DEFINE e == SetCached(db, w.job.file, "Synced")
  <2>1. "Synced" \in SyncState \ {"Conflict", "QueuedDelete"} /\ db \in Database
    BY DEF Inv, TypeOK, SyncState
  <2>2. e \in Database /\ db' = DropOp(e, w.job.id)
    BY <1>4, <2>1, SetCachedFollows DEF Inv, DownloadCommit, Follows, Sound
  <2>3. Tame(db, e, born' \ born)
    BY <2>1, SetCachedTame
  <2> HIDE DEF e
  <2>4. Tame(e, db', born' \ born)
    BY <2>2, DropOpTame
  <2>5. QED
    BY <1>4, <2>3, <2>4, TameOn, JobStep DEF DownloadCommit
<1>5. QED
  BY <1>1, <1>2, <1>3, <1>4
-----------------------------------------------------------------------------
(* process_refresh_tree: its transaction is tame from beginning to end.       *)
LEMMA RefreshListSafe == ASSUME Inv, Safe, TornKept, RefreshList PROVE Safe'
<1>1. Finish \/ w'.pc # "f_apply"
  <2>1. PICK p \in IF w.offset = 0 THEN w.walk ELSE {w.dir} :
           LET page == Page(remote, p, w.offset)
               last == LastPage(remote, p, w.offset)
               walk == (IF last THEN w.walk \ {p} ELSE w.walk)
                          \cup {x.path : x \in {y \in page : y.kind = "Dir"}}
           IN  IF \E x \in Meta(remote, p) : x.kind = "Dir"
               THEN w' = [w EXCEPT !.pc = IF walk = {} THEN "f_snap" ELSE "f_list",
                                   !.walk = walk,
                                   !.dir = IF last THEN RootPath ELSE p,
                                   !.offset = IF last THEN 0 ELSE @ + PageSize,
                                   !.seen = Listed(@, page \cup
                                      IF p = RootPath THEN Meta(remote, p) ELSE {})]
               ELSE Abandon
    BY DEF RefreshList
  <2> DEFINE last == LastPage(remote, p, w.offset)
             page == Page(remote, p, w.offset)
             walk == (IF last THEN w.walk \ {p} ELSE w.walk)
                        \cup {x.path : x \in {y \in page : y.kind = "Dir"}}
             seen == Listed(w.seen, page \cup IF p = RootPath THEN Meta(remote, p) ELSE {})
             step == IF walk = {} THEN "f_snap" ELSE "f_list"
             dir == IF last THEN RootPath ELSE p
             offset == IF last THEN 0 ELSE w.offset + PageSize
             listed == [w EXCEPT !.pc = step, !.walk = walk, !.dir = dir, !.offset = offset,
                                 !.seen = seen]
  <2>2. w \in WorkerState
    BY WorkerTypes DEF Inv
  <2>3. Abandon \/ w' = listed
    BY <2>1, <2>2 DEF WorkerState
  <2>4. step # "f_apply"
    OBVIOUS
  <2> HIDE DEF walk, seen, step, dir, offset
  <2>5. listed.pc = step
    BY <2>2 DEF WorkerState
  <2>6. QED
    BY <2>3, <2>4, <2>5 DEF Abandon
<1>2. QED
  BY <1>1, QuietJobStep DEF RefreshList

LEMMA RefreshSnapshotSafe == ASSUME Inv, Safe, TornKept, RefreshSnapshot PROVE Safe'
<1>1. w'.pc = "f_begin"
  BY WorkerTypes DEF Inv, RefreshSnapshot, WorkerState
<1>2. QED
  BY <1>1, QuietJobStep DEF RefreshSnapshot

LEMMA RefreshBeginSafe == ASSUME Inv, Safe, TornKept, RefreshBegin PROVE Safe'
<1>1. w'.tx = db /\ UNCHANGED <<db, born, th>>
  BY WorkerTypes DEF Inv, RefreshBegin, WorkerState
<1>2. Stores' \subseteq Stores /\ Reserved' = Reserved
  BY <1>1 DEF Stores, Locked, Reserved, Creating
<1>3. QED
  BY <1>1, <1>2 DEF Safe, Apart, StoresOK, Creating, TornKept

LEMMA MergeSafe ==
    ASSUME Inv, Safe, TornKept, At("f_apply"), FileId \ born # {}, NEW res \in w.todo,
           MergeConflict(res) \/ MergeOutdated(res) \/ MergePlain(res),
           UNCHANGED <<db, cache, remote, clock, th, edit, spent>>
    PROVE  Safe'
<1>1. /\ FreshId \in FileId /\ FreshId \notin born /\ res \in Resource
      /\ w.pc = "f_apply" /\ Sound(w.tx) /\ w.tx \in Database /\ w \in WorkerState
  BY RefreshTypes, WorkerTypes DEF Inv, At, FreshId, Sound
<1>2. ASSUME NEW d, BornFor(d, res)
      PROVE  born \subseteq born' /\ (RowAt(d, res.path) = {} => FreshId \in born' \ born)
  BY <1>1, <1>2 DEF BornFor
<1>3. ASSUME NEW tx, Tame(w.tx, tx, born' \ born), born \subseteq born',
             w' = [w EXCEPT !.tx = tx, !.todo = @ \ {res}]
      PROVE  Safe'
  <2>1. w'.tx = tx
    BY <1>1, <1>3 DEF WorkerState
  <2>2. QED
    BY <1>1, <1>3, <2>1, TxStep DEF Locked
<1>4. ASSUME NEW d \in Database, NEW s \in {"Synced", "Downloading"}, BornFor(d, res),
             Ids(d) \subseteq Ids(w.tx)
      PROVE  Tame(d, EnsureRemoteRow(d, res, s, FreshId), born' \ born)
  <2>1. s \in SyncState \ {"QueuedDelete"}
    BY DEF SyncState
  <2>2. Ids(w.tx) \subseteq born
    BY <1>1 DEF Safe, StoresOK, Stores, Locked
  <2>3. QED
    BY <1>1, <1>2, <1>4, <2>1, <2>2, EnsureRemoteRowTame
<1>5. CASE MergeConflict(res)
  <2>1. PICK l \in Conflicting(res) : \E cp \in NextConflictPaths(w.tx, l.path) :
           IF ConflictFails(w.tx, l.id, l.path, cp)
           THEN Abandon /\ UNCHANGED born
           ELSE LET aside == ApplyConflict(w.tx, l.id, l.path, cp)
                IN  /\ w' = [w EXCEPT !.tx = EnsureRemoteRow(aside, res, "Synced", FreshId),
                                      !.todo = @ \ {res}]
                    /\ BornFor(aside, res)
    BY <1>5 DEF MergeConflict
  <2>2. PICK cp \in NextConflictPaths(w.tx, l.path) :
           IF ConflictFails(w.tx, l.id, l.path, cp)
           THEN Abandon /\ UNCHANGED born
           ELSE LET aside == ApplyConflict(w.tx, l.id, l.path, cp)
                IN  /\ w' = [w EXCEPT !.tx = EnsureRemoteRow(aside, res, "Synced", FreshId),
                                      !.todo = @ \ {res}]
                    /\ BornFor(aside, res)
    BY <2>1
  <2>3. l.id \in FileId /\ l.path \in Path
    BY RefreshTypes DEF Conflicting, Local, Row
  <2>4. cp \in Path
    BY <2>3, NextConflictPathsType
  <2>5. CASE ConflictFails(w.tx, l.id, l.path, cp)
    BY <2>2, <2>5, QuietJobStep DEF Abandon
  <2>6. CASE ~ConflictFails(w.tx, l.id, l.path, cp)
    <3> DEFINE aside == ApplyConflict(w.tx, l.id, l.path, cp)
               tx == EnsureRemoteRow(aside, res, "Synced", FreshId)
    <3>1. /\ aside \in Database /\ Tame(w.tx, aside, born' \ born)
          /\ Ids(aside) \subseteq Ids(w.tx)
      BY <1>1, <2>3, <2>4, ApplyConflictFollows, ApplyConflictTame, ApplyConflictSets DEF Follows, Sound
    <3>2. BornFor(aside, res) /\ w' = [w EXCEPT !.tx = tx, !.todo = @ \ {res}]
      BY <2>2, <2>6
    <3> HIDE DEF aside
    <3>3. Tame(aside, tx, born' \ born)
      BY <1>4, <3>1, <3>2
    <3>4. born \subseteq born'
      BY <1>2, <3>2
    <3> HIDE DEF tx
    <3>5. QED
      BY <1>3, <3>1, <3>2, <3>3, <3>4, TameOn
  <2>7. QED
    BY <2>5, <2>6
<1>6. CASE MergeOutdated(res)
  <2> DEFINE merged == EnsureRemoteRow(w.tx, res, "Downloading", FreshId)
             f == The(RowAt(merged, res.path)).id
             tx == Upsert(merged, f, "Download", res.path, RootPath)
  <2>1. BornFor(w.tx, res) /\ w' = [w EXCEPT !.tx = tx, !.todo = @ \ {res}]
    BY <1>6 DEF MergeOutdated
  <2>2. Tame(w.tx, merged, born' \ born)
    BY <1>1, <1>4, <2>1
  <2>3. merged \in Database
    BY <1>1, EnsureRemoteRowFollows DEF Follows, Sound, SyncState
  <2> HIDE DEF merged, f
  <2>4. Tame(merged, tx, born' \ born)
    BY <2>3, UpsertTame
  <2>5. born \subseteq born'
    BY <1>2, <2>1
  <2> HIDE DEF tx
  <2>6. QED
    BY <1>3, <2>1, <2>2, <2>4, <2>5, TameOn
<1>7. CASE MergePlain(res)
  <2> DEFINE tx == EnsureRemoteRow(w.tx, res, "Synced", FreshId)
  <2>1. BornFor(w.tx, res) /\ w' = [w EXCEPT !.tx = tx, !.todo = @ \ {res}]
    BY <1>7 DEF MergePlain
  <2>2. Tame(w.tx, tx, born' \ born) /\ born \subseteq born'
    BY <1>1, <1>2, <1>4, <2>1
  <2> HIDE DEF tx
  <2>3. QED
    BY <1>3, <2>1, <2>2
<1>8. QED
  BY <1>5, <1>6, <1>7

LEMMA DropSafe ==
    ASSUME Inv, Safe, TornKept, At("f_apply"), NEW l \in w.gone,
           DropRow(l) \/ KeepCopy(l) \/ DropConflict(l),
           UNCHANGED <<db, born, remote, clock, th, edit, spent>>
    PROVE  Safe'
<1>1. /\ l.id \in FileId /\ l.path \in Path /\ w \in WorkerState
      /\ w.pc = "f_apply" /\ Sound(w.tx) /\ w.tx \in Database
  BY RefreshTypes, WorkerTypes DEF Inv, At, Row, Sound
<1>2. ASSUME NEW tx, Tame(w.tx, tx, born' \ born), w' = [w EXCEPT !.tx = tx, !.gone = @ \ {l}]
      PROVE  Safe'
  <2>1. w'.tx = tx /\ Tame(w.tx, w'.tx, born' \ born)
    BY <1>1, <1>2 DEF WorkerState
  <2>2. Locked /\ UNCHANGED <<db, th>> /\ born \subseteq born'
    BY <1>1 DEF Locked
  <2>3. QED
    BY <2>1, <2>2, TxStep
<1>3. CASE DropRow(l)
  BY <1>1, <1>2, <1>3, DeleteRowTame DEF DropRow
<1>4. CASE KeepCopy(l)
  <2>1. w' = [w EXCEPT !.tx = w.tx, !.gone = @ \ {l}]
    BY <1>1, <1>4 DEF KeepCopy, WorkerState
  <2>2. QED
    BY <1>2, <2>1, TameSelf
<1>5. CASE DropConflict(l)
  <2>1. PICK cp \in NextConflictPaths(w.tx, l.path) :
           IF ConflictFails(w.tx, l.id, l.path, cp) THEN Abandon
           ELSE w' = [w EXCEPT !.tx = ApplyConflict(w.tx, l.id, l.path, cp),
                               !.gone = @ \ {l}]
    BY <1>5 DEF DropConflict
  <2>2. cp \in Path
    BY <1>1, <2>1, NextConflictPathsType
  <2>3. Tame(w.tx, ApplyConflict(w.tx, l.id, l.path, cp), born' \ born)
    BY <1>1, <2>2, ApplyConflictTame
  <2>4. QED
    BY <1>2, <2>1, <2>3, QuietJobStep DEF Abandon
<1>6. QED
  BY <1>3, <1>4, <1>5

LEMMA RefreshCommitSafe == ASSUME Inv, Safe, TornKept, RefreshCommit PROVE Safe'
<1>1. w'.pc = "f_done" /\ db' = w.tx /\ w.tx \in Stores /\ UNCHANGED <<born, th>>
  BY WorkerTypes DEF Inv, RefreshCommit, WorkerState, At, Stores, Locked
<1>2. Stores' \subseteq Stores /\ Reserved' = Reserved
  BY <1>1 DEF Stores, Locked, Reserved, Creating
<1>3. QED
  BY <1>1, <1>2 DEF Safe, Apart, StoresOK, Creating, TornKept

LEMMA RefreshDoneSafe == ASSUME Inv, Safe, TornKept, RefreshDone PROVE Safe'
<1>1. Tame(db, db', born' \ born)
  BY DropOpTame DEF Inv, TypeOK, RefreshDone
<1>2. QED
  BY <1>1, JobStep DEF RefreshDone
-----------------------------------------------------------------------------
(* The network, the other clients, and kills between critical sections.       *)
LEMMA NetworkFailsSafe == ASSUME Inv, Safe, TornKept, NetworkFails PROVE Safe'
<1>1. Finish \/ w'.pc # "f_apply"
  BY GotoPc, FailPc DEF NetworkFails, CallFails, CallAbandoned, Abandon
<1>2. QED
  BY <1>1, QuietJobStep DEF NetworkFails

LEMMA OtherClientSafe == ASSUME Inv, Safe, TornKept, OtherClient PROVE Safe'
<1>1. UNCHANGED <<db, born, th, w>>
  BY DEF OtherClient, OtherPut, OtherDelete
<1>2. QED
  BY <1>1, CalmSame, QuietStep

LEMMA RestartSafe ==
    ASSUME Inv, Safe, TornKept, CrashRestart, Reopen(db) PROVE Safe'
<1>1. Tame(db, db', born' \ born) /\ w'.pc = "idle" /\ UNCHANGED born
  BY RefreshRequestedTame DEF Inv, TypeOK, CrashRestart, Reopen, IdleWorker
<1>2. Calm
  BY DEF CrashRestart, Calm, Creating, IdleThread
<1>3. QED
  BY <1>1, <1>2, StoreStep

(* Once a kill has torn a critical section apart, the promise is void.        *)
Counted == UNCHANGED spent \/ \E kind : Spend(kind)

LEMMA TornStays == ASSUME TypeOK, Torn, Counted PROVE Torn'
<1>1. CASE UNCHANGED spent
  BY <1>1 DEF Torn
<1>2. ASSUME NEW kind, Spend(kind) PROVE Torn'
  <2>1. spent' = [spent EXCEPT ![kind] = @ + 1] /\ spent \in [EventKind -> Nat]
    BY <1>2 DEF Spend, TypeOK, Events
  <2>2. spent'["half"] \in {spent["half"], spent["half"] + 1} /\ spent["half"] \in Nat
    BY <2>1 DEF EventKind
  <2>3. QED
    BY <2>2 DEF Torn
<1>3. QED
  BY <1>1, <1>2 DEF Counted

LEMMA HalfTears == ASSUME TypeOK, Spend("half") PROVE Torn'
<1>1. spent' = [spent EXCEPT !["half"] = @ + 1] /\ spent \in [EventKind -> Nat]
  BY DEF Spend, TypeOK, Events
<1>2. spent'["half"] = spent["half"] + 1 /\ spent["half"] \in Nat
  BY <1>1 DEF EventKind
<1>3. QED
  BY <1>2 DEF Torn

LEMMA CallCounted == ASSUME NEW t \in Thread, Call(t) \/ CallStep(t) PROVE Counted
<1>1. CASE Call(t)
  BY <1>1 DEF Call, CreateFile, MakeDir, WriteFile, Unlink, Rename, ReadFile, MayCall, Counted
<1>2. CASE CallStep(t)
  BY <1>2 DEF CallStep, CreateCommit, MkdirCommit, WriteCopy, WriteCommit, UnlinkCommit,
     RenameCommit, ReadDownload, ReadDownloadFails, ReadStore, ReadCommit, Counted
<1>3. QED
  BY <1>1, <1>2

LEMMA WorkerCounted == ASSUME WorkerStep PROVE Counted
<1>1. CommitSynced => Counted
  BY DEF CommitSynced, Counted
<1>2. UploadPut => Counted
  BY DEF UploadPut, Counted
<1>3. DeleteCall \/ MkdirCall \/ RenameDelete \/ RenameMove => Counted
  BY DEF DeleteCall, MkdirCall, RenameDelete, RenameMove, Counted
<1>4. UploadConflict => Counted
  BY DEF UploadConflict, Counted
<1>5. RecoverLease \/ Lease \/ Poll \/ Start \/ Fail => Counted
  BY DEF RecoverLease, Lease, Poll, Start, Fail, Counted, vars
<1>6. UploadMark \/ UploadCheck \/ UploadFinish \/ UploadFetch => Counted
  BY DEF UploadMark, UploadCheck, UploadFinish, UploadFetch, Counted
<1>7. DeleteCommit \/ MkdirFetch \/ RenameProbe \/ RenameFetch => Counted
  BY DEF DeleteCommit, MkdirFetch, RenameProbe, RenameFetch, Counted
<1>8. DownloadMark \/ DownloadGet \/ DownloadWrite \/ DownloadCommit => Counted
  BY DEF DownloadMark, DownloadGet, DownloadWrite, DownloadCommit, Counted
<1>9. QED
  BY <1>1, <1>2, <1>3, <1>4, <1>5, <1>6, <1>7, <1>8
     DEF WorkerStep, UploadCommit, MkdirSynced, RenameSynced

LEMMA RefreshCounted == ASSUME RefreshStep PROVE Counted
<1>1. RefreshList => Counted
  BY DEF RefreshList, Counted
<1>2. RefreshSnapshot \/ RefreshBegin => Counted
  BY DEF RefreshSnapshot, RefreshBegin, Counted
<1>3. RefreshMerge \/ RefreshDrop => Counted
  BY DEF RefreshMerge, RefreshDrop, Counted
<1>4. RefreshCommit \/ RefreshDone => Counted
  BY DEF RefreshCommit, RefreshDone, Counted
<1>5. QED
  BY <1>1, <1>2, <1>3, <1>4 DEF RefreshStep

LEMMA NextCounted == ASSUME [Next]_vars PROVE Counted
<1>1. CASE RequestRefresh \/ NetworkFails \/ CrashRestart
  BY <1>1 DEF RequestRefresh, NetworkFails, CrashRestart, Counted
<1>2. CASE OtherClient
  BY <1>2 DEF OtherClient, OtherPut, OtherDelete, Counted
<1>3. CASE UNCHANGED vars
  BY <1>3 DEF vars, Counted
<1>4. QED
  BY <1>1, <1>2, <1>3, CallCounted, WorkerCounted, RefreshCounted DEF Next
-----------------------------------------------------------------------------
(* What open_at finds has no QueuedDelete, no Upload and no row twice.        *)
LEMMA InitSafe == ASSUME Init PROVE Safe
<1> DEFINE row(e) == [id |-> e.id, path |-> e.path, kind |-> e.kind, sync |-> "Synced",
                      ver |-> 1, cached |-> e.local = "cached"]
           known == {row(e) : e \in {x \in InitTree : x.local # "unknown"}}
           opened == [files |-> {RootRow} \cup known, queue |-> {}, copies |-> {}, nextOp |-> 1]
<1>1. opened \in Database
  <2>1. \A e \in InitTree : row(e) \in Row
    <3>1. \A e \in InitTree : e.path \in Path /\ e.kind \in Kind /\ e.id \in FileId
      BY StateAssumption DEF InitEntry
    <3>2. "Synced" \in SyncState /\ 1 \in Nat
      BY DEF SyncState
    <3>3. \A e \in InitTree : (e.local = "cached") \in BOOLEAN
      OBVIOUS
    <3>4. QED
      BY <3>1, <3>2, <3>3 DEF Row
  <2> HIDE DEF row
  <2>2. {RootRow} \cup known \in SUBSET Row
    BY <2>1, RootTypes
  <2> HIDE DEF known
  <2>3. QED
    BY <2>2 DEF Database
<1>2. \A r \in opened.files : r.sync # "QueuedDelete" /\ r.id \in {Root} \cup {e.id : e \in InitTree}
  BY DEF RootRow
<1>3. Tidy(opened)
  <2>1. \A e, g \in InitTree : e.path # RootPath /\ (e.path = g.path \/ e.id = g.id => e = g)
    BY StateAssumption
  <2>2. \A e \in InitTree : e.id # Root
    BY StateAssumption DEF InitEntry
  <2>3. opened.files = {RootRow} \cup known /\ RootRow.id = Root /\ RootRow.path = RootPath
    BY DEF RootRow
  <2>4. \A e \in InitTree : row(e).id = e.id /\ row(e).path = e.path
    OBVIOUS
  <2> HIDE DEF row, opened
  <2>5. QED
    BY <2>1, <2>2, <2>3, <2>4 DEF Tidy, IdsOnce, PathsOnce
<1>4. Doomed(opened) = {} /\ Ids(opened) \subseteq born
  BY <1>2 DEF Doomed, Ids, Init
<1>5. Superseded(opened)
  BY <1>4 DEF Superseded
<1>6. db = Upsert(opened, Root, "RefreshTree", RootPath, RootPath)
  BY DEF Init
<1> HIDE DEF opened
<1>7. Tame(opened, db, {})
  BY <1>1, <1>6, RefreshRequestedTame
<1>8. Superseded(db) /\ Tidy(db) /\ Ids(db) \subseteq born
  BY <1>3, <1>4, <1>5, <1>7 DEF Tame, Kept
<1>9. Reserved = {} /\ Stores = {db}
  BY DEF Init, Reserved, Creating, IdleThread, Stores, Locked, IdleWorker
<1>10. QED
  BY <1>8, <1>9 DEF Safe, Apart, StoresOK, Reserved

(* A kill in the middle of a critical section: what its first statements have *)
(* changed is tidy.                                                            *)
LEMMA LeftBehindKept ==
    ASSUME Inv, Safe, NEW left \in LeftBehind
    PROVE  left \in Database /\ Kept(db, left, Reserved)
<1>1. Sound(db) /\ db \in Database
  BY DEF Inv, TypeOK
<1>2. CASE left \in HalfJob
  <2> DEFINE f == w.job.file
  <2>1. /\ RemoteVersion(w.meta) \in Nat /\ w.again \in BOOLEAN
        /\ "Synced" \in SyncState \ {"Conflict"} /\ "Retryable" \in OpStatus
    BY RemoteVersionType, WorkerTypes DEF Inv, TypeOK, SyncState, OpStatus
  <2>2. \/ left = SetSynced(db, f, RemoteVersion(w.meta)) \/ left = SetCached(db, f, "Synced")
        \/ left = DropOp(db, w.job.id) \/ left = SetStatus(db, w.job.id, "Retryable")
    BY <1>2 DEF HalfJob
  <2>3. Follows(db, left)
    BY <1>1, <2>1, <2>2, SetSyncedFollows, SetCachedFollows, DropOpFollows, SetStatusFollows
  <2>4. QED
    BY <1>1, <2>2, <2>3, StatesKept, QueueKept DEF Follows, Sound
<1>3. ASSUME NEW t \in Thread, left \in HalfCall(t)
      PROVE  left \in Database /\ Kept(db, left, Reserved)
  <2> DEFINE f == th[t].entry.id
             marked == SetSync(db, f, "QueuedDelete")
  <2>1. CASE Creating(t) /\ RowAt(db, th[t].entry.path) = {} /\ left = Inserted(t)
    <3>1. f \in Reserved /\ f \notin Ids(db)
      BY <2>1 DEF Reserved, Safe, StoresOK, Stores
    <3>2. left \in Database
      <4>1. "Upload" \in OpType
        BY DEF OpType
      <4>2. QED
        BY <2>1, <4>1, CreatedFollows DEF Creating, Follows, Sound
    <3>3. QED
      BY <1>1, <2>1, <3>1, <3>2, KeptInserted DEF Inserted
  <2>2. CASE left = Written(t)
    <3>1. "QueuedUpload" \in SyncState \ {"Conflict"}
      BY DEF SyncState
    <3>2. QED
      BY <1>1, <2>2, <3>1, SetCachedFollows, StatesKept DEF Written, Follows, Sound
  <2>3. marked \in Database /\ Sound(marked) /\ Kept(db, marked, Reserved)
    <3>1. "QueuedDelete" \in SyncState \ {"Conflict"}
      BY DEF SyncState
    <3>2. QED
      BY <1>1, <3>1, SetSyncFollows, StatesKept DEF Follows, Sound
  <2>4. CASE left \in {DropOpsOf(db, f), DeleteRow(db, f), marked, DropOpsOf(marked, f),
                       UpsertAlone(marked, f, "Delete", th[t].entry.path, RootPath)}
    <3>1. left \in Database
      BY <1>3, HalfCallFollows DEF Follows, Sound
    <3> HIDE DEF marked
    <3>2. QED
      BY <1>1, <2>3, <2>4, <3>1, QueueKept, DeleteRowKept, KeptOn
  <2>5. ASSUME NEW M \in PartsMoved(db, th[t].entry.path, th[t].to),
               left = MoveRows(db, M, th[t].entry.path, th[t].to)
        PROVE  left \in Database /\ Kept(db, left, Reserved)
    <3>1. left \in Database
      BY <1>3, HalfCallFollows DEF Follows, Sound
    <3>2. QED
      BY <1>1, <2>5, <3>1, CallTypes, MoveRowsKept DEF Inv
  <2>6. QED
    BY <1>3, <2>1, <2>2, <2>4, <2>5 DEF HalfCall, Creating
<1>4. QED
  BY <1>2, <1>3 DEF LeftBehind

LEMMA TornRestartSafe ==
    ASSUME Inv, Safe, CrashRestart, Torn', NEW left \in LeftBehind, Reopen(left) PROVE Safe'
<1>1. left \in Database /\ Kept(db, left, Reserved)
  BY LeftBehindKept
<1>2. Kept(left, db', {})
  BY <1>1, QueueKept DEF Reopen
<1>3. Tidy(db) /\ Ids(db) \subseteq born /\ Reserved \subseteq born
  BY DEF Safe, StoresOK, Stores, Apart
<1>4. Tidy(db') /\ Ids(db') \subseteq born'
  BY <1>1, <1>2, <1>3 DEF Kept, CrashRestart
<1>5. Reserved' = {} /\ Stores' = {db'} /\ \A t \in Thread : ~Creating(t)'
  BY DEF CrashRestart, Reserved, Creating, IdleThread, Stores, Locked, IdleWorker
<1>6. QED
  BY <1>4, <1>5 DEF Safe, Apart, StoresOK

(* A step of the system keeps it so.                                          *)
LEMMA SafeKept == ASSUME Inv, Safe, [Next]_vars PROVE Safe'
<1>0. TornKept
  BY NextCounted, TornStays DEF Inv, TornKept
<1>1. CASE \E t \in Thread : Call(t) \/ CallStep(t)
  BY <1>0, <1>1, CallSafe, CallStepSafe
<1>2. CASE WorkerStep
  <2>1. Poll => UNCHANGED vars
    BY DEF Poll
  <2>2. UNCHANGED vars => Safe'
    BY <1>0, CalmSame, QuietStep DEF vars
  <2>3. QED
    BY <1>0, <1>2, <2>1, <2>2, LeasesSafe, StartSafe, FailSafe, UploadSafe, DeletionSafe,
       MakingSafe, RenamingSafe, DownloadingSafe DEF WorkerStep
<1>3. CASE RefreshStep
  <2>1. RefreshMerge => Safe'
    BY <1>0, MergeSafe DEF RefreshMerge
  <2>2. RefreshDrop => Safe'
    BY <1>0, DropSafe DEF RefreshDrop
  <2>3. QED
    BY <1>0, <1>3, <2>1, <2>2, RefreshListSafe, RefreshSnapshotSafe, RefreshBeginSafe,
       RefreshCommitSafe, RefreshDoneSafe DEF RefreshStep
<1>4. CASE CrashRestart
  <2>1. CASE Reopen(db)
    BY <1>0, <1>4, <2>1, RestartSafe
  <2>2. CASE Spend("half") /\ \E left \in LeftBehind : Reopen(left)
    BY <1>4, <2>2, HalfTears, TornRestartSafe DEF Inv
  <2>3. QED
    BY <1>4, <2>1, <2>2 DEF CrashRestart
<1>5. CASE UNCHANGED vars
  BY <1>0, <1>5, CalmSame, QuietStep DEF vars
<1>6. QED
  BY <1>0, <1>1, <1>2, <1>3, <1>4, <1>5, RequestRefreshSafe, NetworkFailsSafe, OtherClientSafe
     DEF Next

THEOREM SafeInvariance == Spec => [](Inv /\ Safe)
<1>1. Init => Inv /\ Safe
  BY InitInv, InitSafe
<1>2. (Inv /\ Safe) /\ [Next]_vars => (Inv /\ Safe)'
  BY NextKeeps, SafeKept
<1>3. QED
  BY <1>1, <1>2, PTL DEF Spec
-----------------------------------------------------------------------------
(* The keys of the table files hold in the database as each critical section *)
(* leaves it, a killed one included, and in the open transaction: no two     *)
(* rows have the same id or the same path.  So no INSERT fails on a key      *)
(* whose path was looked up in the same critical section.                     *)
RowsTidy == Tidy(db) /\ (Locked => Tidy(w.tx))

THEOREM RowsStayTidy == Spec => []RowsTidy
<1>1. Inv /\ Safe => RowsTidy
  BY DEF Safe, StoresOK, Stores, RowsTidy
<1>2. QED
  BY <1>1, SafeInvariance, PTL

(* Unless a kill has torn a critical section, a row that is QueuedDelete has *)
(* no Upload in the queue, whatever the worker has leased and whichever      *)
(* calls, conflicts, refreshes and retries come between (unlink queues its   *)
(* Delete with replace_all).  A write after the unlink takes the row out of  *)
(* the state QueuedDelete, and nothing is said of it then.                    *)
THEOREM UnlinkSupersedes == Spec => []DeleteSupersedes
<1>1. Superseded(db) => \A r \in db.files :
         r.sync = "QueuedDelete" => OpsOf(r.id, {"Upload"}) = {}
  BY DEF Superseded, Doomed, Uploads, OpsOf
<1>2. Safe => Torn \/ Superseded(db)
  BY DEF Safe, StoresOK, Stores
<1>3. Inv /\ Safe => DeleteSupersedes
  BY <1>1, <1>2 DEF DeleteSupersedes
<1>4. QED
  BY <1>3, SafeInvariance, PTL
=============================================================================
