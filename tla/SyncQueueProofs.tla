--------------------------- MODULE SyncQueueProofs ---------------------------
(****************************************************************************)
(* A theorem about the queue, for every value of the constants: a row whose  *)
(* state announces work has an operation that will do it.                     *)
(****************************************************************************)
EXTENDS SyncDeleteProofs

(* The types of a file's operations, and what a store must have for its rows: *)
(* an operation for each that is busy, but for those of the files in X; no    *)
(* operation of a file without a row; no path twice.                          *)
Types(d, f) == {o.type : o \in {q \in d.queue : q.file = f}}

Busy == {"QueuedUpload", "QueuedDelete", "Uploading", "Downloading"}

HasWork(d, f, s) == s \in Busy => Types(d, f) \cap Backing(s) # {}

Backed(d, X) == \A r \in d.files : r.id \notin X => HasWork(d, r.id, r.sync)
Keyed(d)     == \A o \in d.queue : o.file \in Ids(d)

Good(d, X) == Backed(d, X) /\ Keyed(d) /\ PathsOnce(d)

LEMMA GoodBut ==
    ASSUME NEW d, NEW X, NEW Y, X \subseteq Y, Good(d, X) PROVE Good(d, Y)
BY DEF Good, Backed

(* A file is no exception any more when all of its rows have work.            *)
LEMMA GoodAgain ==
    ASSUME NEW d, NEW f, Good(d, {f}), \A r \in d.files : r.id = f => HasWork(d, f, r.sync)
    PROVE  Good(d, {})
BY DEF Good, Backed
-----------------------------------------------------------------------------
(* An UPDATE of rows: g is what becomes of each.                              *)
LEMMA MappedGood ==
    ASSUME NEW d \in Database, NEW X, Good(d, X), NEW g,
           \A r \in d.files : g[r].id = r.id,
           \A r \in d.files : g[r].sync = r.sync \/ r.id \in X \/ HasWork(d, r.id, g[r].sync),
           \A r, q \in d.files : g[r].path = g[q].path => r = q
    PROVE  LET e == [d EXCEPT !.files = {g[r] : r \in d.files}]
           IN  Good(e, X) /\ Ids(e) = Ids(d) /\ \A f : Types(e, f) = Types(d, f)
<1> DEFINE e == [d EXCEPT !.files = {g[r] : r \in d.files}]
<1>1. e.files = {g[r] : r \in d.files} /\ e.queue = d.queue
  BY DEF Database
<1> HIDE DEF e
<1>2. Ids(e) = Ids(d)
  BY <1>1 DEF Ids
<1>3. \A f : Types(e, f) = Types(d, f)
  BY <1>1 DEF Types
<1>4. Backed(e, X)
  BY <1>1, <1>3 DEF Good, Backed, HasWork
<1>5. Keyed(e)
  BY <1>1, <1>2 DEF Good, Keyed
<1>6. PathsOnce(e)
  BY <1>1 DEF PathsOnce
<1>7. QED
  BY <1>2, <1>3, <1>4, <1>5, <1>6 DEF Good, e

(* The same when no path changes.                                             *)
LEMMA PaintedGood ==
    ASSUME NEW d \in Database, NEW X, Good(d, X), NEW g,
           \A r \in d.files : g[r].id = r.id /\ g[r].path = r.path,
           \A r \in d.files : g[r].sync = r.sync \/ r.id \in X \/ HasWork(d, r.id, g[r].sync)
    PROVE  LET e == [d EXCEPT !.files = {g[r] : r \in d.files}]
           IN  Good(e, X) /\ Ids(e) = Ids(d) /\ \A f : Types(e, f) = Types(d, f)
<1>1. \A r, q \in d.files : g[r].path = g[q].path => r = q
  BY DEF Good, PathsOnce
<1>2. QED
  BY <1>1, MappedGood

LEMMA SetSyncGood ==
    ASSUME NEW d \in Database, NEW X, Good(d, X), NEW f, NEW s,
           f \in X \/ f \notin Ids(d) \/ HasWork(d, f, s)
    PROVE  LET e == SetSync(d, f, s)
           IN  Good(e, X) /\ Ids(e) = Ids(d) /\ (\A i : Types(e, i) = Types(d, i))
               /\ \A r \in e.files : r.id = f => r.sync = s
<1> DEFINE g == [r \in d.files |-> IF r.id = f THEN [r EXCEPT !.sync = s] ELSE r]
           e == [d EXCEPT !.files = {g[r] : r \in d.files}]
<1>1. \A r \in d.files : /\ g[r].id = r.id /\ g[r].path = r.path
                         /\ g[r].sync = IF r.id = f THEN s ELSE r.sync
  BY DEF Database, Row
<1>2. SetSync(d, f, s) = e
  <2>1. {IF r.id = f THEN [r EXCEPT !.sync = s] ELSE r : r \in d.files} = {g[r] : r \in d.files}
    OBVIOUS
  <2>2. QED
    BY <2>1 DEF SetSync
<1> HIDE DEF g
<1>3. \A r \in e.files : r.id = f => r.sync = s
  BY <1>1 DEF Database
<1>4. \A r \in d.files : g[r].sync = r.sync \/ r.id \in X \/ HasWork(d, r.id, g[r].sync)
  BY <1>1 DEF Ids
<1>5. Good(e, X) /\ Ids(e) = Ids(d) /\ \A i : Types(e, i) = Types(d, i)
  BY <1>1, <1>4, PaintedGood
<1>6. QED
  BY <1>2, <1>3, <1>5

LEMMA SetCachedGood ==
    ASSUME NEW d \in Database, NEW X, Good(d, X), NEW f, NEW s,
           s \notin Busy \/ f \in X
    PROVE  LET e == SetCached(d, f, s)
           IN  Good(e, X) /\ Ids(e) = Ids(d) /\ (\A i : Types(e, i) = Types(d, i))
               /\ \A r \in e.files : r.id = f => r.sync = s
<1> DEFINE g == [r \in d.files |->
                    IF r.id = f THEN [r EXCEPT !.sync = s, !.cached = TRUE] ELSE r]
           e == [d EXCEPT !.files = {g[r] : r \in d.files}]
<1>1. \A r \in d.files : /\ g[r].id = r.id /\ g[r].path = r.path
                         /\ g[r].sync = IF r.id = f THEN s ELSE r.sync
  BY DEF Database, Row
<1>2. SetCached(d, f, s) = e
  <2>1. {IF r.id = f THEN [r EXCEPT !.sync = s, !.cached = TRUE] ELSE r : r \in d.files}
           = {g[r] : r \in d.files}
    OBVIOUS
  <2>2. QED
    BY <2>1 DEF SetCached
<1> HIDE DEF g
<1>3. \A r \in e.files : r.id = f => r.sync = s
  BY <1>1 DEF Database
<1>4. \A r \in d.files : g[r].sync = r.sync \/ r.id \in X \/ HasWork(d, r.id, g[r].sync)
  BY <1>1 DEF HasWork
<1>5. Good(e, X) /\ Ids(e) = Ids(d) /\ \A i : Types(e, i) = Types(d, i)
  BY <1>1, <1>4, PaintedGood
<1>6. QED
  BY <1>2, <1>3, <1>5

LEMMA SetSyncedGood ==
    ASSUME NEW d \in Database, NEW X, Good(d, X), NEW f, NEW v
    PROVE  LET e == SetSynced(d, f, v)
           IN  Good(e, X) /\ Ids(e) = Ids(d) /\ (\A i : Types(e, i) = Types(d, i))
               /\ \A r \in e.files : r.id = f => r.sync = "Synced"
<1> DEFINE g == [r \in d.files |->
                    IF r.id = f THEN [r EXCEPT !.sync = "Synced", !.ver = v] ELSE r]
           e == [d EXCEPT !.files = {g[r] : r \in d.files}]
<1>1. \A r \in d.files : /\ g[r].id = r.id /\ g[r].path = r.path
                         /\ g[r].sync = IF r.id = f THEN "Synced" ELSE r.sync
  BY DEF Database, Row
<1>2. SetSynced(d, f, v) = e
  <2>1. {IF r.id = f THEN [r EXCEPT !.sync = "Synced", !.ver = v] ELSE r : r \in d.files}
           = {g[r] : r \in d.files}
    OBVIOUS
  <2>2. QED
    BY <2>1 DEF SetSynced
<1> HIDE DEF g
<1>3. \A r \in e.files : r.id = f => r.sync = "Synced"
  BY <1>1 DEF Database
<1>4. \A r \in d.files : g[r].sync = r.sync \/ r.id \in X \/ HasWork(d, r.id, g[r].sync)
  BY <1>1 DEF HasWork, Busy
<1>5. Good(e, X) /\ Ids(e) = Ids(d) /\ \A i : Types(e, i) = Types(d, i)
  BY <1>1, <1>4, PaintedGood
<1>6. QED
  BY <1>2, <1>3, <1>5

LEMMA ForgetVersionGood ==
    ASSUME NEW d \in Database, NEW X, Good(d, X), NEW f \in X
    PROVE  LET e == ForgetVersion(d, f)
           IN  Good(e, X) /\ Ids(e) = Ids(d) /\ (\A i : Types(e, i) = Types(d, i))
               /\ \A r \in e.files : r.id = f => r.sync = "QueuedUpload"
<1> DEFINE g == [r \in d.files |->
                    IF r.id = f THEN [r EXCEPT !.sync = "QueuedUpload", !.ver = NoVersion] ELSE r]
           e == [d EXCEPT !.files = {g[r] : r \in d.files}]
<1>1. \A r \in d.files : /\ g[r].id = r.id /\ g[r].path = r.path
                         /\ g[r].sync = IF r.id = f THEN "QueuedUpload" ELSE r.sync
  BY DEF Database, Row
<1>2. ForgetVersion(d, f) = e
  <2>1. {IF r.id = f THEN [r EXCEPT !.sync = "QueuedUpload", !.ver = NoVersion] ELSE r :
            r \in d.files} = {g[r] : r \in d.files}
    OBVIOUS
  <2>2. QED
    BY <2>1 DEF ForgetVersion
<1> HIDE DEF g
<1>3. \A r \in e.files : r.id = f => r.sync = "QueuedUpload"
  BY <1>1 DEF Database
<1>4. \A r \in d.files : g[r].sync = r.sync \/ r.id \in X \/ HasWork(d, r.id, g[r].sync)
  BY <1>1
<1>5. Good(e, X) /\ Ids(e) = Ids(d) /\ \A i : Types(e, i) = Types(d, i)
  BY <1>1, <1>4, PaintedGood
<1>6. QED
  BY <1>2, <1>3, <1>5

LEMMA RenameSubtreeGood ==
    ASSUME NEW d \in Database, NEW X, Good(d, X), NEW from \in Path, NEW to \in Path
    PROVE  LET e == RenameSubtree(d, from, to)
           IN  Good(e, X) /\ Ids(e) = Ids(d) /\ \A i : Types(e, i) = Types(d, i)
<1> DEFINE g == [r \in d.files |->
                    IF r \in Reached(d, from, to)
                    THEN [r EXCEPT !.path = Target(r.path, from, to)] ELSE r]
           e == [d EXCEPT !.files = {g[r] : r \in d.files}]
<1>1. \A r \in d.files : /\ g[r].id = r.id /\ g[r].sync = r.sync
                         /\ g[r].path = NewPath(Reached(d, from, to), from, to, r)
  BY DEF Database, Row, NewPath
<1>2. RenameSubtree(d, from, to) = e
  <2>1. {IF r \in Reached(d, from, to)
         THEN [r EXCEPT !.path = Target(r.path, from, to)] ELSE r : r \in d.files}
           = {g[r] : r \in d.files}
    OBVIOUS
  <2>2. QED
    BY <2>1 DEF RenameSubtree, MoveRows
<1> HIDE DEF g
<1>3. \A r, q \in d.files : g[r].path = g[q].path => r = q
  BY <1>1, RenamedApart, ReachedIsPart DEF Good
<1>4. Good(e, X) /\ Ids(e) = Ids(d) /\ \A i : Types(e, i) = Types(d, i)
  BY <1>1, <1>3, MappedGood DEF HasWork
<1>5. QED
  BY <1>2, <1>4
-----------------------------------------------------------------------------
(* One more row, and one less.                                                *)
LEMMA InsertRowGood ==
    ASSUME NEW d \in Database, NEW X, Good(d, X), NEW row \in Row, RowAt(d, row.path) = {},
           row.id \in X \/ HasWork(d, row.id, row.sync)
    PROVE  LET e == InsertRow(d, row)
           IN  Good(e, X) /\ Ids(e) = Ids(d) \cup {row.id} /\ \A i : Types(e, i) = Types(d, i)
<1> DEFINE e == InsertRow(d, row)
<1>1. e.files = d.files \cup {row} /\ e.queue = d.queue
  BY DEF Database, InsertRow
<1> HIDE DEF e
<1>2. Ids(e) = Ids(d) \cup {row.id}
  BY <1>1 DEF Ids
<1>3. \A i : Types(e, i) = Types(d, i)
  BY <1>1 DEF Types
<1>4. Backed(e, X)
  BY <1>1, <1>3 DEF Good, Backed, HasWork
<1>5. Keyed(e)
  BY <1>1, <1>2 DEF Good, Keyed
<1>6. PathsOnce(e)
  BY <1>1 DEF Good, PathsOnce, RowAt
<1>7. QED
  BY <1>2, <1>3, <1>4, <1>5, <1>6 DEF Good, e

LEMMA DeleteRowGood ==
    ASSUME NEW d \in Database, NEW X, Good(d, X), NEW f
    PROVE  LET e == DeleteRow(d, f)
           IN  /\ Good(e, X) /\ Ids(e) = Ids(d) \ {f}
               /\ \A i : i # f => Types(e, i) = Types(d, i)
<1> DEFINE e == DeleteRow(d, f)
<1>1. e.files = {r \in d.files : r.id # f} /\ e.queue = {o \in d.queue : o.file # f}
  BY DEF Database, DeleteRow
<1> HIDE DEF e
<1>2. Ids(e) = Ids(d) \ {f}
  BY <1>1 DEF Ids
<1>3. \A i : i # f => Types(e, i) = Types(d, i)
  BY <1>1 DEF Types
<1>4. Backed(e, X)
  BY <1>1, <1>3 DEF Good, Backed, HasWork
<1>5. Keyed(e)
  BY <1>1, <1>2 DEF Good, Keyed
<1>6. PathsOnce(e)
  BY <1>1 DEF Good, PathsOnce
<1>7. QED
  BY <1>2, <1>3, <1>4, <1>5, <1>6 DEF Good, e

(* A change of the queue alone.                                               *)
Work == {"Upload", "Mkdir", "Delete", "Download"}

LEMMA WorkStays ==
    ASSUME NEW d, NEW e, NEW f, NEW s, HasWork(d, f, s), Types(d, f) \cap Work \subseteq Types(e, f)
    PROVE  HasWork(e, f, s)
<1>1. s \in Busy => Backing(s) \subseteq Work
  BY DEF Busy, Backing, Work
<1>2. QED
  BY <1>1 DEF HasWork

LEMMA QueueGood ==
    ASSUME NEW d \in Database, NEW X, Good(d, X), NEW e, e.files = d.files,
           \A o \in e.queue : o.file \in Ids(d),
           \A i : i \in X \/ Types(d, i) \cap Work \subseteq Types(e, i)
    PROVE  Good(e, X) /\ Ids(e) = Ids(d)
<1>1. Ids(e) = Ids(d)
  BY DEF Ids
<1>2. Backed(e, X)
  BY WorkStays DEF Good, Backed
<1>3. QED
  BY <1>1, <1>2 DEF Good, Keyed, PathsOnce

LEMMA DropOpGood ==
    ASSUME NEW d \in Database, NEW X, Good(d, X), NEW id,
           \A o \in d.queue : o.id = id => o.file \in X \/ o.type \notin Work
    PROVE  LET e == DropOp(d, id) IN Good(e, X) /\ e.files = d.files /\ Ids(e) = Ids(d)
<1> DEFINE e == DropOp(d, id)
<1>1. e.files = d.files /\ e.queue = {o \in d.queue : o.id # id}
  BY DEF Database, DropOp
<1> HIDE DEF e
<1>2. \A i : i \in X \/ Types(d, i) \cap Work \subseteq Types(e, i)
  BY <1>1 DEF Types
<1>3. \A o \in e.queue : o.file \in Ids(d)
  BY <1>1 DEF Good, Keyed
<1>4. Good(e, X) /\ Ids(e) = Ids(d)
  BY <1>1, <1>2, <1>3, QueueGood
<1>5. QED
  BY <1>1, <1>4 DEF e

LEMMA DropOpsOfGood ==
    ASSUME NEW d \in Database, NEW X, Good(d, X), NEW f \in X
    PROVE  LET e == DropOpsOf(d, f)
           IN  /\ Good(e, X) /\ e.files = d.files /\ Ids(e) = Ids(d)
               /\ \A i : i # f => Types(e, i) = Types(d, i)
<1> DEFINE e == DropOpsOf(d, f)
<1>1. e.files = d.files /\ e.queue = {o \in d.queue : o.file # f}
  BY DEF Database, DropOpsOf
<1> HIDE DEF e
<1>2. \A i : i # f => Types(e, i) = Types(d, i)
  BY <1>1 DEF Types
<1>3. \A o \in e.queue : o.file \in Ids(d)
  BY <1>1 DEF Good, Keyed
<1>4. Good(e, X) /\ Ids(e) = Ids(d)
  BY <1>1, <1>2, <1>3, QueueGood
<1>5. QED
  BY <1>1, <1>2, <1>4 DEF e

LEMMA SetStatusGood ==
    ASSUME NEW d \in Database, NEW X, Good(d, X), NEW id, NEW s
    PROVE  LET e == SetStatus(d, id, s)
           IN  /\ Good(e, X) /\ e.files = d.files /\ Ids(e) = Ids(d)
               /\ \A i : Types(e, i) = Types(d, i)
<1> DEFINE g == [o \in d.queue |-> IF o.id = id THEN [o EXCEPT !.status = s] ELSE o]
           e == SetStatus(d, id, s)
<1>1. \A o \in d.queue : g[o].file = o.file /\ g[o].type = o.type
  BY DEF Database, Op
<1>2. e.files = d.files /\ e.queue = {g[o] : o \in d.queue}
  BY DEF Database, SetStatus
<1> HIDE DEF g, e
<1>3. \A i : Types(e, i) = Types(d, i)
  BY <1>1, <1>2 DEF Types
<1>4. \A o \in e.queue : o.file \in Ids(d)
  BY <1>1, <1>2 DEF Good, Keyed
<1>5. Good(e, X) /\ Ids(e) = Ids(d)
  BY <1>2, <1>3, <1>4, QueueGood
<1>6. QED
  BY <1>2, <1>3, <1>5 DEF e

LEMMA UpsertGood ==
    ASSUME NEW d \in Database, NEW X, Good(d, X), NEW f, NEW type, NEW from, NEW to
    PROVE  LET e == Upsert(d, f, type, from, to)
           IN  /\ Good(e, X) /\ e.files = d.files /\ Ids(e) = Ids(d)
               /\ \A i : Types(d, i) \subseteq Types(e, i)
               /\ f \in Ids(d) => type \in Types(e, f)
<1> DEFINE e == Upsert(d, f, type, from, to)
           C == Coalesced(d, f, type)
           new == [id |-> NewOpId(d), file |-> f, type |-> type, status |-> "Pending",
                   from |-> from, to |-> to]
           g == [o \in d.queue |->
                    IF o \in C THEN [o EXCEPT !.status = "Pending", !.from = from, !.to = to]
                    ELSE o]
<1>1. f \in Ids(d) <=> HasRow(d, f)
  BY DEF Ids, HasRow, RowOf
<1>2. CASE ~HasRow(d, f)
  BY <1>1, <1>2 DEF Upsert
<1>3. CASE HasRow(d, f) /\ C # {}
  <2>1. \A o \in d.queue : g[o].file = o.file /\ g[o].type = o.type
    BY DEF Database, Op
  <2>2. e.files = d.files /\ e.queue = {g[o] : o \in d.queue}
    BY <1>3 DEF Database, Upsert
  <2>3. \A o \in C : o \in d.queue /\ o.file = f /\ o.type = type
    BY DEF Coalesced
  <2> HIDE DEF g, e, C
  <2>4. \A i : Types(e, i) = Types(d, i)
    BY <2>1, <2>2 DEF Types
  <2>5. \A o \in e.queue : o.file \in Ids(d)
    BY <2>1, <2>2 DEF Good, Keyed
  <2>6. Good(e, X) /\ Ids(e) = Ids(d)
    BY <2>2, <2>4, <2>5, QueueGood
  <2>7. type \in Types(d, f)
    BY <1>3, <2>3 DEF Types
  <2>8. QED
    BY <2>2, <2>4, <2>6, <2>7 DEF e
<1>4. CASE HasRow(d, f) /\ C = {}
  <2>1. e.files = d.files /\ e.queue = d.queue \cup {new}
    BY <1>4 DEF Database, Upsert
  <2>2. new.file = f /\ new.type = type
    OBVIOUS
  <2> HIDE DEF new, e
  <2>3. (\A i : Types(d, i) \subseteq Types(e, i)) /\ type \in Types(e, f)
    BY <2>1, <2>2 DEF Types
  <2>4. \A o \in e.queue : o.file \in Ids(d)
    BY <1>1, <1>4, <2>1, <2>2 DEF Good, Keyed
  <2>5. Good(e, X) /\ Ids(e) = Ids(d)
    BY <2>1, <2>3, <2>4, QueueGood
  <2>6. QED
    BY <2>1, <2>3, <2>5 DEF e
<1>5. QED
  BY <1>2, <1>3, <1>4
-----------------------------------------------------------------------------
(* What a function of the program does to a good store: it stays good, and    *)
(* the files that stay keep their operations or are left to a Delete.         *)
Stays(d, e) ==
    \A i \in Ids(e) \cap Ids(d) : Types(d, i) \subseteq Types(e, i) \/ "Delete" \in Types(e, i)

Onward(d, e, F) == Good(e, {}) /\ Ids(e) \subseteq Ids(d) \cup F /\ Stays(d, e)

(* The file the exception was made for has the operation its new state needs. *)
LEMMA Backs ==
    ASSUME NEW d, NEW e, NEW f, NEW s, NEW type \in Backing(s),
           \A r \in d.files : r.id = f => r.sync = s,
           e.files = d.files, f \in Ids(d) => type \in Types(e, f), Good(e, {f})
    PROVE  Good(e, {})
<1>1. \A r \in e.files : r.id = f => HasWork(e, f, r.sync)
  BY DEF Ids, HasWork
<1>2. QED
  BY <1>1, GoodAgain

LEMMA DatabaseOf == ASSUME NEW d, NEW e, Follows(d, e) PROVE Sound(e) /\ e \in Database
BY DEF Follows, Sound

LEMMA WriteGood ==
    ASSUME NEW d, Sound(d), Good(d, {}), NEW f, NEW p, NEW F
    PROVE  Onward(d, Upsert(SetCached(d, f, "QueuedUpload"), f, "Upload", p, RootPath), F)
<1> DEFINE e == SetCached(d, f, "QueuedUpload")
           g == Upsert(e, f, "Upload", p, RootPath)
<1>1. d \in Database /\ Good(d, {f})
  BY GoodBut DEF Sound
<1>2. e \in Database
  <2>1. "QueuedUpload" \in SyncState \ {"Conflict"}
    BY DEF SyncState
  <2>2. QED
    BY <2>1, SetCachedFollows, DatabaseOf
<1>3. /\ Good(e, {f}) /\ Ids(e) = Ids(d) /\ \A i : Types(e, i) = Types(d, i)
      /\ \A r \in e.files : r.id = f => r.sync = "QueuedUpload"
  BY <1>1, SetCachedGood
<1> HIDE DEF e
<1>4. /\ Good(g, {f}) /\ g.files = e.files /\ Ids(g) = Ids(e)
      /\ \A i : Types(e, i) \subseteq Types(g, i)
      /\ f \in Ids(e) => "Upload" \in Types(g, f)
  BY <1>2, <1>3, UpsertGood
<1> HIDE DEF g
<1>5. "Upload" \in Backing("QueuedUpload")
  BY DEF Backing
<1>6. Good(g, {})
  BY <1>3, <1>4, <1>5, Backs
<1>7. QED
  BY <1>3, <1>4, <1>6 DEF Onward, Stays, e, g

LEMMA UnlinkGood ==
    ASSUME NEW d, Sound(d), Good(d, {}), NEW f, NEW p, NEW F
    PROVE  Onward(d, UpsertAlone(SetSync(d, f, "QueuedDelete"), f, "Delete", p, RootPath), F)
<1> DEFINE e == SetSync(d, f, "QueuedDelete")
           g == DropOpsOf(e, f)
           h == Upsert(g, f, "Delete", p, RootPath)
<1>1. d \in Database /\ Good(d, {f})
  BY GoodBut DEF Sound
<1>2. e \in Database /\ Sound(e)
  <2>1. "QueuedDelete" \in SyncState \ {"Conflict"}
    BY DEF SyncState
  <2>2. QED
    BY <2>1, SetSyncFollows, DatabaseOf
<1>3. /\ Good(e, {f}) /\ Ids(e) = Ids(d) /\ \A i : Types(e, i) = Types(d, i)
      /\ \A r \in e.files : r.id = f => r.sync = "QueuedDelete"
  BY <1>1, SetSyncGood
<1> HIDE DEF e
<1>4. g \in Database
  BY <1>2, DropOpsOfFollows, DatabaseOf
<1>5. /\ Good(g, {f}) /\ g.files = e.files /\ Ids(g) = Ids(e)
      /\ \A i : i # f => Types(g, i) = Types(e, i)
  BY <1>2, <1>3, DropOpsOfGood
<1> HIDE DEF g
<1>6. /\ Good(h, {f}) /\ h.files = g.files /\ Ids(h) = Ids(g)
      /\ \A i : Types(g, i) \subseteq Types(h, i)
      /\ f \in Ids(g) => "Delete" \in Types(h, f)
  BY <1>4, <1>5, UpsertGood
<1> HIDE DEF h
<1>7. "Delete" \in Backing("QueuedDelete")
  BY DEF Backing
<1>8. Good(h, {})
  <2>1. /\ \A r \in g.files : r.id = f => r.sync = "QueuedDelete"
        /\ h.files = g.files /\ f \in Ids(g) => "Delete" \in Types(h, f)
    BY <1>3, <1>5, <1>6
  <2>2. QED
    BY <1>6, <1>7, <2>1, Backs
<1>9. Stays(d, h)
  <2>1. ASSUME NEW i \in Ids(h) \cap Ids(d)
        PROVE  Types(d, i) \subseteq Types(h, i) \/ "Delete" \in Types(h, i)
    BY <1>3, <1>5, <1>6
  <2>2. QED
    BY <2>1 DEF Stays
<1>10. Onward(d, h, F)
  BY <1>3, <1>5, <1>6, <1>8, <1>9 DEF Onward
<1>11. QED
  BY <1>10 DEF UpsertAlone, e, g, h

LEMMA DeleteOnward ==
    ASSUME NEW d, Sound(d), Good(d, {}), NEW f, NEW F PROVE Onward(d, DeleteRow(d, f), F)
<1> DEFINE e == DeleteRow(d, f)
<1>1. Good(e, {}) /\ Ids(e) = Ids(d) \ {f} /\ \A i : i # f => Types(e, i) = Types(d, i)
  BY DeleteRowGood DEF Sound
<1> HIDE DEF e
<1>2. Onward(d, e, F)
  BY <1>1 DEF Onward, Stays
<1>3. QED
  BY <1>2 DEF e

LEMMA UpsertOnward ==
    ASSUME NEW d, Sound(d), Good(d, {}), NEW f, NEW type, NEW from, NEW to, NEW F
    PROVE  Onward(d, Upsert(d, f, type, from, to), F)
<1> DEFINE e == Upsert(d, f, type, from, to)
<1>1. Good(e, {}) /\ Ids(e) = Ids(d) /\ \A i : Types(d, i) \subseteq Types(e, i)
  BY UpsertGood DEF Sound
<1> HIDE DEF e
<1>2. Onward(d, e, F)
  BY <1>1 DEF Onward, Stays
<1>3. QED
  BY <1>2 DEF e

LEMMA RenameOnward ==
    ASSUME NEW d, Sound(d), Good(d, {}), NEW f, NEW from \in Path, NEW to \in Path, NEW F
    PROVE  LET e == RenameSubtree(d, from, to)
           IN  Onward(d, e, F) /\ Onward(d, Upsert(e, f, "Rename", from, to), F)
<1> DEFINE e == RenameSubtree(d, from, to)
           g == Upsert(e, f, "Rename", from, to)
<1>1. Good(e, {}) /\ Ids(e) = Ids(d) /\ \A i : Types(e, i) = Types(d, i)
  BY RenameSubtreeGood DEF Sound
<1>2. e \in Database
  BY RenameSubtreeFollows, DatabaseOf
<1> HIDE DEF e
<1>3. Good(g, {}) /\ Ids(g) = Ids(e) /\ \A i : Types(e, i) \subseteq Types(g, i)
  BY <1>1, <1>2, UpsertGood
<1> HIDE DEF g
<1>4. Onward(d, e, F) /\ Onward(d, g, F)
  BY <1>1, <1>3 DEF Onward, Stays
<1>5. QED
  BY <1>4 DEF e, g

(* create_file and mkdir: the new row and its operation.                      *)
LEMMA NewFileGood ==
    ASSUME NEW d, Sound(d), Good(d, {}), NEW row \in Row, row.sync = "QueuedUpload",
           row.id \notin Ids(d), RowAt(d, row.path) = {}, NEW type \in {"Upload", "Mkdir"}, NEW from
    PROVE  Onward(d, Upsert(InsertRow(d, row), row.id, type, from, RootPath), {row.id})
<1> DEFINE e == InsertRow(d, row)
           g == Upsert(e, row.id, type, from, RootPath)
           f == row.id
<1>1. d \in Database /\ Good(d, {f})
  BY GoodBut DEF Sound
<1>2. e \in Database
  BY InsertRowFollows, DatabaseOf
<1>3. Good(e, {f}) /\ Ids(e) = Ids(d) \cup {f} /\ \A i : Types(e, i) = Types(d, i)
  BY <1>1, InsertRowGood
<1>4. \A r \in e.files : r.id = f => r.sync = "QueuedUpload"
  BY <1>1 DEF Database, InsertRow, Ids
<1> HIDE DEF e
<1>5. /\ Good(g, {f}) /\ g.files = e.files /\ Ids(g) = Ids(e)
      /\ \A i : Types(e, i) \subseteq Types(g, i)
      /\ f \in Ids(e) => type \in Types(g, f)
  BY <1>2, <1>3, UpsertGood
<1> HIDE DEF g
<1>6. type \in Backing("QueuedUpload")
  BY DEF Backing
<1>7. Good(g, {})
  BY <1>4, <1>5, <1>6, Backs
<1>8. QED
  BY <1>3, <1>5, <1>7 DEF Onward, Stays, e, g
-----------------------------------------------------------------------------
(* Conflicts and the rows of remote resources.                                *)
LEMMA ApplyConflictGood ==
    ASSUME NEW d, Sound(d), Good(d, {}), NEW f, NEW from \in Path, NEW cp \in Path
    PROVE  LET e == ApplyConflict(d, f, from, cp) IN Good(e, {}) /\ Ids(e) = Ids(d)
<1> DEFINE a == RenameSubtree(d, from, cp)
           b == ForgetVersion(a, f)
           c == DropOpsOf(b, f)
           g == Upsert(c, f, "Upload", cp, RootPath)
           e == [g EXCEPT !.copies = @ \cup {<<f, cp>>}]
<1>1. Good(a, {}) /\ Ids(a) = Ids(d) /\ Follows(d, a)
  BY RenameSubtreeGood, RenameSubtreeFollows DEF Sound
<1> HIDE DEF a
<1>2. Sound(a) /\ a \in Database /\ Good(a, {f})
  BY <1>1, DatabaseOf, GoodBut
<1>3. /\ Good(b, {f}) /\ Ids(b) = Ids(a)
      /\ \A r \in b.files : r.id = f => r.sync = "QueuedUpload"
  BY <1>2, ForgetVersionGood
<1>4. Sound(b) /\ b \in Database
  BY <1>2, ForgetVersionFollows, DatabaseOf
<1> HIDE DEF b
<1>5. Good(c, {f}) /\ c.files = b.files /\ Ids(c) = Ids(b)
  BY <1>3, <1>4, DropOpsOfGood
<1>6. Sound(c) /\ c \in Database
  BY <1>4, DropOpsOfFollows, DatabaseOf
<1> HIDE DEF c
<1>7. /\ Good(g, {f}) /\ g.files = c.files /\ Ids(g) = Ids(c)
      /\ f \in Ids(c) => "Upload" \in Types(g, f)
  BY <1>5, <1>6, UpsertGood
<1>8. g \in Database
  <2>1. "Upload" \in OpType /\ RootPath \in Path
    BY RootTypes DEF OpType
  <2>2. QED
    BY <1>6, <2>1, UpsertFollows, DatabaseOf
<1> HIDE DEF g
<1>9. Good(g, {})
  <2>1. "Upload" \in Backing("QueuedUpload")
    BY DEF Backing
  <2>2. \A r \in c.files : r.id = f => r.sync = "QueuedUpload"
    BY <1>3, <1>5
  <2>3. QED
    BY <1>7, <2>1, <2>2, Backs
<1>10. e.files = g.files /\ e.queue = g.queue
  BY <1>8 DEF Database
<1>11. Good(e, {}) /\ Ids(e) = Ids(d)
  <2>1. \A i : Types(e, i) = Types(g, i)
    BY <1>10 DEF Types
  <2>2. Good(e, {})
    BY <1>9, <1>10, <2>1 DEF Good, Backed, HasWork, Keyed, Ids, PathsOnce
  <2>3. QED
    BY <1>1, <1>3, <1>5, <1>7, <1>10, <2>2 DEF Ids
<1>12. e = ApplyConflict(d, f, from, cp)
  BY DEF ApplyConflict, UpsertAlone, g, c, b, a
<1>13. QED
  BY <1>11, <1>12

(* ensure_remote_row: a row that is there keeps its path; s is its state      *)
(* unless it is protected.                                                    *)
LEMMA EnsureRemoteRowGood ==
    ASSUME NEW d, Sound(d), Good(d, {}), NEW res \in Resource, NEW s \in SyncState,
           NEW id \in FileId, id \notin Ids(d), NEW X,
           s \in Busy => \A r \in RowAt(EnsureRemoteRow(d, res, s, id), res.path) : r.id \in X
    PROVE  LET e == EnsureRemoteRow(d, res, s, id)
           IN  /\ Good(e, X) /\ Ids(e) \subseteq Ids(d) \cup {id}
               /\ \A i : Types(e, i) = Types(d, i)
               /\ RowAt(e, res.path) # {}
               /\ \A r \in e.files :
                     \/ r.path = res.path /\ r.sync = s
                     \/ HasWork(d, r.id, r.sync)
<1> DEFINE row == [id |-> id, path |-> res.path, kind |-> res.kind,
                   sync |-> s, ver |-> res.ver, cached |-> FALSE]
           kept(r) == IF r.sync \in Protected THEN r.sync ELSE s
           g == [r \in d.files |->
                   IF r.path = res.path
                   THEN [r EXCEPT !.kind = res.kind, !.ver = res.ver, !.sync = kept(r)] ELSE r]
           e == EnsureRemoteRow(d, res, s, id)
<1>0. d \in Database /\ (s \in Busy => \A r \in RowAt(e, res.path) : r.id \in X)
  BY DEF Sound
<1>1. CASE RowAt(d, res.path) = {}
  <2>1. /\ row \in Row /\ row.path = res.path /\ row.id = id /\ row.sync = s
    BY DEF Row, Resource
  <2>2. e = InsertRow(d, row)
    BY <1>1 DEF EnsureRemoteRow
  <2> HIDE DEF row
  <2>3. e.files = d.files \cup {row}
    BY <1>0, <2>2 DEF InsertRow, Database
  <2> HIDE DEF e
  <2>4. row.id \in X \/ HasWork(d, row.id, row.sync)
    BY <1>0, <2>1, <2>3 DEF RowAt, HasWork
  <2>5. Good(d, X)
    BY GoodBut
  <2>6. Good(e, X) /\ Ids(e) = Ids(d) \cup {id} /\ \A i : Types(e, i) = Types(d, i)
    BY <1>0, <1>1, <2>1, <2>2, <2>4, <2>5, InsertRowGood
  <2>7. row \in RowAt(e, res.path)
    BY <2>1, <2>3 DEF RowAt
  <2>8. \A r \in e.files : (r.path = res.path /\ r.sync = s) \/ HasWork(d, r.id, r.sync)
    BY <2>1, <2>3 DEF Good, Backed
  <2>9. QED
    BY <2>6, <2>7, <2>8 DEF e
<1>2. CASE RowAt(d, res.path) # {}
  <2>1. e = [d EXCEPT !.files = {g[r] : r \in d.files}]
    <3>1. {IF r.path = res.path
           THEN [r EXCEPT !.kind = res.kind, !.ver = res.ver,
                          !.sync = IF r.sync \in Protected THEN r.sync ELSE s]
           ELSE r : r \in d.files} = {g[r] : r \in d.files}
      OBVIOUS
    <3>2. QED
      BY <1>2, <3>1 DEF EnsureRemoteRow
  <2>2. \A r \in d.files : /\ g[r].id = r.id /\ g[r].path = r.path
                           /\ g[r].sync = IF r.path = res.path THEN kept(r) ELSE r.sync
    BY <1>0 DEF Database, Row
  <2> HIDE DEF g
  <2>3. e.files = {g[r] : r \in d.files}
    BY <1>0, <2>1 DEF Database
  <2> HIDE DEF e
  <2>4. \A r \in d.files : g[r].sync = r.sync \/ (r.path = res.path /\ g[r].sync = s)
    BY <2>2
  <2>5. \A r \in d.files : g[r].sync = r.sync \/ r.id \in X \/ HasWork(d, r.id, g[r].sync)
    BY <1>0, <2>2, <2>3, <2>4 DEF RowAt, HasWork
  <2>6. Good(d, X)
    BY GoodBut
  <2>7. Good(e, X) /\ Ids(e) = Ids(d) /\ \A i : Types(e, i) = Types(d, i)
    BY <1>0, <2>1, <2>2, <2>5, <2>6, PaintedGood
  <2>8. RowAt(e, res.path) # {}
    BY <1>2, <2>2, <2>3 DEF RowAt
  <2>9. \A r \in e.files : (r.path = res.path /\ r.sync = s) \/ HasWork(d, r.id, r.sync)
    BY <2>2, <2>3, <2>4 DEF Good, Backed
  <2>10. QED
    BY <2>7, <2>8, <2>9 DEF e
<1>3. QED
  BY <1>1, <1>2

LEMMA SyncedRowGood ==
    ASSUME NEW d, Sound(d), Good(d, {}), NEW res \in Resource, NEW id \in FileId, id \notin Ids(d)
    PROVE  Good(EnsureRemoteRow(d, res, "Synced", id), {})
<1>1. "Synced" \in SyncState /\ "Synced" \notin Busy
  BY DEF SyncState, Busy
<1>2. QED
  BY <1>1, EnsureRemoteRowGood

(* A newer version of a cached file: the row at its path gets the Download.   *)
LEMMA OutdatedGood ==
    ASSUME NEW d, Sound(d), Good(d, {}), NEW res \in Resource, NEW id \in FileId, id \notin Ids(d)
    PROVE  LET e == EnsureRemoteRow(d, res, "Downloading", id)
           IN  Good(Upsert(e, The(RowAt(e, res.path)).id, "Download", res.path, RootPath), {})
<1> DEFINE e == EnsureRemoteRow(d, res, "Downloading", id)
           X == {r.id : r \in RowAt(e, res.path)}
           f == The(RowAt(e, res.path)).id
           g == Upsert(e, f, "Download", res.path, RootPath)
<1>1. "Downloading" \in SyncState \ {"Conflict"} /\ "Downloading" \in Busy
  BY DEF SyncState, Busy
<1>2. \A r \in RowAt(e, res.path) : r.id \in X
  OBVIOUS
<1> HIDE DEF X
<1>3. /\ Good(e, X) /\ \A i : Types(e, i) = Types(d, i)
      /\ RowAt(e, res.path) # {}
      /\ \A r \in e.files : \/ r.path = res.path /\ r.sync = "Downloading"
                            \/ HasWork(d, r.id, r.sync)
  BY <1>1, <1>2, EnsureRemoteRowGood
<1>4. e \in Database
  BY <1>1, EnsureRemoteRowFollows, DatabaseOf
<1> HIDE DEF e
<1>5. f \in Ids(e) /\ \A r \in RowAt(e, res.path) : r.id = f
  <2>1. PICK q \in RowAt(e, res.path) : \A r \in RowAt(e, res.path) : r = q
    BY <1>3 DEF RowAt, Good, PathsOnce
  <2>2. The(RowAt(e, res.path)) = q
    BY <2>1 DEF The
  <2>3. QED
    BY <2>1, <2>2 DEF RowAt, Ids
<1> HIDE DEF f
<1>6. /\ Good(g, X) /\ g.files = e.files
      /\ \A i : Types(e, i) \subseteq Types(g, i)
      /\ f \in Ids(e) => "Download" \in Types(g, f)
  BY <1>3, <1>4, UpsertGood
<1> HIDE DEF g
<1>7. \A r \in g.files : HasWork(g, r.id, r.sync)
  <2>1. TAKE r \in g.files
  <2>2. CASE r.path = res.path /\ r.sync = "Downloading"
    <3>1. r.id = f
      BY <1>5, <1>6, <2>2 DEF RowAt
    <3>2. QED
      BY <1>5, <1>6, <2>2, <3>1 DEF HasWork, Backing
  <2>3. CASE HasWork(d, r.id, r.sync)
    BY <1>3, <1>6, <2>3, WorkStays
  <2>4. QED
    BY <1>3, <1>6, <2>2, <2>3
<1>8. QED
  BY <1>6, <1>7 DEF Good, Backed, e, f, g

(* ensure_hydrated: what was a placeholder is Synced, the rest stays.         *)
LEMMA HydratedGood ==
    ASSUME NEW d \in Database, Good(d, {}), NEW f, NEW F
    PROVE  Onward(d, [d EXCEPT !.files =
                        {IF r.id = f
                         THEN [r EXCEPT !.cached = TRUE,
                                        !.sync = IF @ = "Placeholder" THEN "Synced" ELSE @]
                         ELSE r : r \in @}], F)
<1> DEFINE g == [r \in d.files |->
                   IF r.id = f
                   THEN [r EXCEPT !.cached = TRUE,
                                  !.sync = IF @ = "Placeholder" THEN "Synced" ELSE @]
                   ELSE r]
           e == [d EXCEPT !.files = {g[r] : r \in d.files}]
<1>1. \A r \in d.files : /\ g[r].id = r.id /\ g[r].path = r.path
                         /\ g[r].sync = r.sync \/ g[r].sync = "Synced"
  BY DEF Database, Row
<1>2. e = [d EXCEPT !.files =
             {IF r.id = f
              THEN [r EXCEPT !.cached = TRUE,
                             !.sync = IF @ = "Placeholder" THEN "Synced" ELSE @]
              ELSE r : r \in @}]
  <2>1. {IF r.id = f
         THEN [r EXCEPT !.cached = TRUE,
                        !.sync = IF @ = "Placeholder" THEN "Synced" ELSE @]
         ELSE r : r \in d.files} = {g[r] : r \in d.files}
    OBVIOUS
  <2>2. QED
    BY <2>1
<1> HIDE DEF g
<1>3. \A r \in d.files : g[r].sync = r.sync \/ r.id \in {} \/ HasWork(d, r.id, g[r].sync)
  BY <1>1 DEF HasWork, Busy
<1>4. Good(e, {}) /\ Ids(e) = Ids(d) /\ \A i : Types(e, i) = Types(d, i)
  BY <1>1, <1>3, PaintedGood
<1> HIDE DEF e
<1>5. QED
  BY <1>2, <1>4 DEF Onward, Stays
-----------------------------------------------------------------------------
(* The invariant: both stores are good, and the operation that the worker is  *)
(* about to announce in the row is still there, unless a Delete has replaced  *)
(* it.  A process_function runs on operations of its own type.                *)
StoresGood == \A d \in Stores : Good(d, {})

Early == {"start", "u_mark", "l_mark"}

JobQueued ==
    w.pc \in Early =>
        /\ w.job.file \in born \ Reserved
        /\ w.job.file \in Ids(db) => Types(db, w.job.file) \cap {w.job.type, "Delete"} # {}

Renaming   == {"r_probe", "r_delete", "r_move", "r_fetch", "r_commit"}
Refreshing == {"f_list", "f_snap", "f_begin", "f_apply", "f_done"}

JobTyped(v) ==
    /\ v.pc = "u_mark" => v.job.type = "Upload"
    /\ v.pc = "l_mark" => v.job.type = "Download"
    /\ v.pc \in Renaming => v.job.type = "Rename"
    /\ v.pc \in Refreshing => v.job.type = "RefreshTree"
    /\ v.pc \in {"u_commit", "m_commit"} => v.meta # {}

Queued == StoresGood /\ JobQueued /\ JobTyped(w)

LEMMA StoreFacts ==
    ASSUME Inv, Safe, Queued
    PROVE  /\ db \in Database /\ Sound(db) /\ Good(db, {}) /\ w \in WorkerState
           /\ Ids(db) \subseteq born \ Reserved
           /\ Locked => /\ Good(w.tx, {}) /\ Sound(w.tx) /\ w.tx \in Database
                        /\ Ids(w.tx) \subseteq born \ Reserved
BY DEF Inv, TypeOK, TxSound, Sound, Safe, StoresOK, Queued, StoresGood, Stores, Locked

(* Steps of the callers: the worker is where it was.                          *)
LEMMA CalmReserved == ASSUME Calm PROVE Reserved' \subseteq Reserved
BY DEF Calm, Reserved

LEMMA CallerStep ==
    ASSUME Inv, Safe, Queued, ~Locked, w' = w, Onward(db, db', Reserved), born \subseteq born',
           Reserved' \subseteq Reserved \cup (born' \ born)
    PROVE  Queued'
<1>1. StoresGood'
  BY DEF StoresGood, Stores, Locked, Onward
<1>2. JobQueued'
  BY StoreFacts DEF Queued, JobQueued, Onward, Stays
<1>3. JobTyped(w)'
  BY DEF Queued, JobTyped
<1>4. QED
  BY <1>1, <1>2, <1>3 DEF Queued

LEMMA QuietCaller ==
    ASSUME Inv, Safe, Queued, UNCHANGED <<db, w>>, born \subseteq born',
           Reserved' \subseteq Reserved \cup (born' \ born)
    PROVE  Queued'
<1>1. StoresGood'
  BY DEF Queued, StoresGood, Stores, Locked
<1>2. JobQueued'
  BY DEF Queued, JobQueued
<1>3. JobTyped(w)'
  BY DEF Queued, JobTyped
<1>4. QED
  BY <1>1, <1>2, <1>3 DEF Queued

LEMMA BeginQueued ==
    ASSUME Inv, Safe, Queued, NEW t \in Thread, NEW step, NEW entry, NEW to,
           Begin(t, step, entry, to), UNCHANGED <<db, w>>, born \subseteq born',
           step \notin {"create", "mkdir"} \/ entry.id \in born' \ born
    PROVE  Queued'
<1> DEFINE new == [pc |-> step, entry |-> entry, to |-> to, data |-> NoData]
<1>1. /\ th \in [Thread -> ThreadState] /\ th' = [th EXCEPT ![t] = new]
      /\ new.pc = step /\ new.entry = entry
  BY DEF Inv, TypeOK, Begin
<1> HIDE DEF new
<1>2. Reserved' \subseteq Reserved \cup (born' \ born)
  BY <1>1 DEF Reserved, Creating
<1>3. QED
  BY <1>2, QuietCaller

LEMMA CallQueued == ASSUME Inv, Safe, Queued, NEW t \in Thread, Call(t) PROVE Queued'
<1>0. FileId \ born # {} => FreshId \notin born
  BY DEF FreshId
<1>1. ASSUME NEW p \in UserPath, CreateFile(t, p) PROVE Queued'
  <2> DEFINE row == [id |-> FreshId, path |-> p, kind |-> "File", sync |-> "QueuedUpload",
                     ver |-> NoVersion, cached |-> TRUE]
  <2>1. row.id = FreshId
    OBVIOUS
  <2> HIDE DEF row
  <2>2. row.id \in born' \ born /\ Begin(t, "create", row, RootPath)
    BY <1>0, <1>1, <2>1 DEF CreateFile, row
  <2>3. QED
    BY <1>1, <2>2, BeginQueued DEF CreateFile
<1>2. ASSUME NEW p \in UserPath, MakeDir(t, p) PROVE Queued'
  <2> DEFINE row == [id |-> FreshId, path |-> p, kind |-> "Dir", sync |-> "QueuedUpload",
                     ver |-> NoVersion, cached |-> FALSE]
  <2>1. row.id = FreshId
    OBVIOUS
  <2> HIDE DEF row
  <2>2. row.id \in born' \ born /\ Begin(t, "mkdir", row, RootPath)
    BY <1>0, <1>2, <2>1 DEF MakeDir, row
  <2>3. QED
    BY <1>2, <2>2, BeginQueued DEF MakeDir
<1>3. ASSUME NEW p \in UserPath, WriteFile(t, p) PROVE Queued'
  BY <1>3, BeginQueued DEF WriteFile
<1>4. ASSUME NEW p \in UserPath, Unlink(t, p) PROVE Queued'
  BY <1>4, BeginQueued DEF Unlink
<1>5. ASSUME NEW p \in UserPath, ReadFile(t, p) PROVE Queued'
  BY <1>5, BeginQueued DEF ReadFile
<1>6. ASSUME NEW p \in UserPath, NEW q \in UserPath, Rename(t, p, q) PROVE Queued'
  BY <1>6, BeginQueued DEF Rename
<1>7. QED
  BY <1>1, <1>2, <1>3, <1>4, <1>5, <1>6 DEF Call

LEMMA NewFileOnward ==
    ASSUME Inv, Safe, Queued, NEW t \in Thread, Creating(t), NEW type \in {"Upload", "Mkdir"}
    PROVE  Onward(db, Created(t, type), Reserved)
<1> DEFINE row == th[t].entry
<1>1. row \in Row /\ row.sync = "QueuedUpload"
  BY CallTypes DEF Inv, NewRowsQueued, Creating
<1>2. Sound(db) /\ Good(db, {}) /\ row.id \in Reserved /\ row.id \notin Ids(db)
  BY StoreFacts DEF Reserved
<1>3. CASE RowAt(db, row.path) # {}
  BY <1>2, <1>3 DEF Created, Onward, Stays
<1>4. CASE RowAt(db, row.path) = {}
  <2>1. Created(t, type) = Upsert(InsertRow(db, row), row.id, type, row.path, RootPath)
    BY <1>4 DEF Created, Inserted
  <2> HIDE DEF row
  <2>2. Onward(db, Created(t, type), {row.id})
    BY <1>1, <1>2, <1>4, <2>1, NewFileGood
  <2>3. QED
    BY <1>2, <2>2 DEF Onward
<1>5. QED
  BY <1>3, <1>4

LEMMA CallStepQueued ==
    ASSUME Inv, Safe, Queued, NEW t \in Thread, CallStep(t) PROVE Queued'
<1> DEFINE e == th[t].entry
<1>0. /\ TypeOK /\ Sound(db) /\ db \in Database /\ Good(db, {})
      /\ e.path \in Path /\ th[t].to \in Path
  BY CallTypes, StoreFacts DEF Inv, TypeOK
<1>1. ASSUME Onward(db, db', Reserved), Return(t), ~Locked, UNCHANGED <<born, w>> PROVE Queued'
  <2>1. Reserved' \subseteq Reserved
    BY <1>0, <1>1, CalmReturn, CalmReserved
  <2>2. QED
    BY <1>1, <2>1, CallerStep
<1>2. ASSUME Return(t), UNCHANGED <<db, born, w>> PROVE Queued'
  BY <1>0, <1>2, CalmReturn, CalmReserved, QuietCaller
<1>3. ASSUME NEW step, step \notin {"create", "mkdir"}, NEW data, Advance(t, step, data),
             UNCHANGED <<db, born, w>>
      PROVE  Queued'
  BY <1>0, <1>3, CalmAdvance, CalmReserved, QuietCaller
<1>4. CASE CreateCommit(t)
  BY <1>1, <1>4, NewFileOnward DEF CreateCommit, Creating
<1>5. CASE MkdirCommit(t)
  BY <1>1, <1>5, NewFileOnward DEF MkdirCommit, Creating
<1>6. CASE WriteCopy(t)
  BY <1>3, <1>6 DEF WriteCopy
<1>7. CASE WriteCommit(t)
  <2>1. Onward(db, db', Reserved)
    BY <1>0, <1>7, WriteGood DEF WriteCommit, Written
  <2>2. QED
    BY <1>1, <1>7, <2>1 DEF WriteCommit
<1>8. CASE UnlinkCommit(t)
  <2>1. Onward(db, db', Reserved)
    BY <1>0, <1>8, UnlinkGood, DeleteOnward DEF UnlinkCommit
  <2>2. QED
    BY <1>1, <1>8, <2>1 DEF UnlinkCommit
<1>9. CASE RenameCommit(t)
  <2>1. Onward(db, db', Reserved)
    BY <1>0, <1>9, RenameOnward DEF RenameCommit, Renamed
  <2>2. QED
    BY <1>1, <1>9, <2>1 DEF RenameCommit
<1>10. CASE ReadDownload(t)
  BY <1>2, <1>3, <1>10 DEF ReadDownload
<1>11. CASE ReadDownloadFails(t)
  BY <1>2, <1>11 DEF ReadDownloadFails
<1>12. CASE ReadStore(t)
  BY <1>3, <1>12 DEF ReadStore
<1>13. CASE ReadCommit(t)
  <2>1. Onward(db, db', Reserved)
    BY <1>0, <1>13, HydratedGood DEF ReadCommit
  <2>2. QED
    BY <1>1, <1>13, <2>1 DEF ReadCommit
<1>14. QED
  BY <1>4, <1>5, <1>6, <1>7, <1>8, <1>9, <1>10, <1>11, <1>12, <1>13 DEF CallStep

LEMMA RequestRefreshQueued == ASSUME Inv, Safe, Queued, RequestRefresh PROVE Queued'
<1>1. Onward(db, db', Reserved)
  BY StoreFacts, UpsertOnward DEF RequestRefresh
<1>2. Reserved' = Reserved
  BY DEF RequestRefresh, Reserved, Creating
<1>3. QED
  BY <1>1, <1>2, CallerStep DEF RequestRefresh

LEMMA OutsideQueued ==
    ASSUME Inv, Safe, Queued, UNCHANGED <<db, born, th, w>> PROVE Queued'
<1>1. Reserved' = Reserved
  BY DEF Reserved, Creating
<1>2. QED
  BY <1>1, QuietCaller
-----------------------------------------------------------------------------
(* Steps of the worker on the database: before a row is marked, and on the    *)
(* steps that go with a type or a resource, something has to be shown.        *)
Plain == WorkerPc \ (Early \cup Renaming \cup Refreshing \cup {"u_commit", "m_commit"})

LEMMA PlainStep ==
    ASSUME Good(db', {}), Finish \/ w'.pc \in Plain PROVE Queued'
<1>1. w'.pc \in Plain
  BY DEF Finish, IdleWorker, Plain, WorkerPc, Early, Renaming, Refreshing
<1>2. w'.pc \notin Early /\ w'.pc # "f_apply"
  BY <1>1 DEF Plain, Early, Refreshing
<1>3. StoresGood'
  BY <1>2 DEF StoresGood, Stores, Locked
<1>4. JobTyped(w')
  BY <1>1 DEF JobTyped, Plain, Early
<1>5. QED
  BY <1>2, <1>3, <1>4 DEF Queued, JobQueued

LEMMA PlainPcs ==
    {"idle", "fail", "u_check", "u_conflict", "u_finish", "u_put", "u_fetch", "d_call",
     "d_commit", "m_call", "m_fetch", "l_get", "l_write", "l_commit"} \subseteq Plain
BY DEF Plain, WorkerPc, Early, Renaming, Refreshing

LEMMA TypedStep ==
    ASSUME Good(db', {}), w'.job = w.job,
           \/ w'.pc \in Renaming /\ w.job.type = "Rename"
           \/ w'.pc \in Refreshing \ {"f_apply"} /\ w.job.type = "RefreshTree"
           \/ w'.pc \in {"u_commit", "m_commit"} /\ w'.meta # {}
    PROVE  Queued'
<1>1. w'.pc \notin Early /\ w'.pc # "f_apply"
  BY DEF Early, Renaming, Refreshing
<1>2. StoresGood'
  BY <1>1 DEF StoresGood, Stores, Locked
<1>3. JobTyped(w')
  BY DEF JobTyped, Renaming, Refreshing
<1>4. QED
  BY <1>1, <1>2, <1>3 DEF Queued, JobQueued

LEMMA GotoParts ==
    ASSUME Inv, NEW step, Goto(step) PROVE w'.pc = step /\ w'.job = w.job /\ w'.meta = w.meta
BY WorkerTypes DEF Inv, Goto, WorkerState

LEMMA MetaParts ==
    ASSUME Inv, NEW step, NEW found, w' = [w EXCEPT !.pc = step, !.meta = found]
    PROVE  w'.pc = step /\ w'.job = w.job /\ w'.meta = found
BY WorkerTypes DEF Inv, WorkerState

LEMMA LeasesQueued == ASSUME Inv, Safe, Queued, RecoverLease \/ Lease PROVE Queued'
<1>1. CASE RecoverLease
  <2>1. Good(db', {})
    BY <1>1, StoreFacts, SetStatusGood DEF RecoverLease
  <2>2. w'.pc \in Plain
    BY <1>1, PlainPcs DEF RecoverLease, At
  <2>3. QED
    BY <2>1, <2>2, PlainStep
<1>2. CASE Lease
  <2>1. PICK o \in db.queue : /\ db' = SetStatus(db, o.id, "Leased")
                              /\ w' = [w EXCEPT !.pc = "start", !.job = [o EXCEPT !.status = "Leased"]]
    BY <1>2 DEF Lease, Leasable
  <2>2. /\ Good(db', {}) /\ Ids(db') = Ids(db) /\ \A i : Types(db', i) = Types(db, i)
    BY <2>1, StoreFacts, SetStatusGood
  <2>3. [o EXCEPT !.status = "Leased"].file = o.file /\ [o EXCEPT !.status = "Leased"].type = o.type
    BY StoreFacts DEF Database, Op
  <2>4. w'.pc = "start" /\ w'.job.file = o.file /\ w'.job.type = o.type
    BY <2>1, <2>3, StoreFacts DEF WorkerState
  <2>5. o.file \in born \ Reserved /\ o.type \in Types(db, o.file)
    BY StoreFacts DEF Good, Keyed, Types
  <2>6. Reserved' = Reserved /\ born' = born
    BY <1>2 DEF Lease, Reserved, Creating
  <2>7. JobQueued'
    BY <2>2, <2>4, <2>5, <2>6 DEF JobQueued
  <2>8. StoresGood'
    BY <2>2, <2>4 DEF StoresGood, Stores, Locked
  <2>9. JobTyped(w')
    BY <2>4 DEF JobTyped, Renaming, Refreshing
  <2>10. QED
    BY <2>7, <2>8, <2>9 DEF Queued
<1>3. QED
  BY <1>1, <1>2

LEMMA StartQueued == ASSUME Inv, Safe, Queued, Start PROVE Queued'
<1> DEFINE found == IF w.job.type \in {"Upload", "Mkdir", "Download"} THEN Mine ELSE {RootRow}
           start == IF w.job.type = "RefreshTree" THEN spent.other ELSE 0
           started == [w EXCEPT !.pc = FirstStep[w.job.type], !.entry = The(found),
                                !.walk = {RootPath}, !.before = start]
<1>0. /\ db' = db /\ Good(db', {}) /\ UNCHANGED <<born, th>> /\ w \in WorkerState
      /\ w.pc = "start" /\ w.job.type \in OpType
  BY StoreFacts, WorkerTypes DEF Start, Inv, At
<1>1. Goto("u_finish") \/ Abandon \/ w' = started
  BY DEF Start
<1>2. CASE Goto("u_finish")
  BY <1>0, <1>2, GotoParts, PlainPcs, PlainStep
<1>3. CASE Abandon
  BY <1>0, <1>3, PlainStep DEF Abandon
<1>4. CASE w' = started
  <2> HIDE DEF found, start
  <2>1. w'.pc = FirstStep[w.job.type] /\ w'.job = w.job
    BY <1>0, <1>4 DEF WorkerState
  <2> HIDE DEF started
  <2>2. /\ w'.pc # "f_apply" /\ w'.pc \notin {"u_commit", "m_commit"}
        /\ w'.pc = "u_mark" => w.job.type = "Upload"
        /\ w'.pc = "l_mark" => w.job.type = "Download"
        /\ w'.pc \in Renaming => w.job.type = "Rename"
        /\ w'.pc \in Refreshing => w.job.type = "RefreshTree"
    BY <1>0, <2>1 DEF FirstStep, OpType, Renaming, Refreshing
  <2>3. JobTyped(w')
    BY <2>1, <2>2 DEF JobTyped
  <2>4. StoresGood'
    BY <1>0, <2>2 DEF StoresGood, Stores, Locked
  <2>5. Reserved' = Reserved
    BY <1>0 DEF Reserved, Creating
  <2>6. JobQueued'
    BY <1>0, <2>1, <2>5 DEF Queued, JobQueued, Early
  <2>7. QED
    BY <2>3, <2>4, <2>6 DEF Queued
<1>5. QED
  BY <1>1, <1>2, <1>3, <1>4

(* retry_or_fail: the row says Error, so it needs no operation.               *)
LEMMA RetryOrFailGood ==
    ASSUME NEW d, Sound(d), Good(d, {}), NEW o, NEW again,
           \A q \in d.queue : q.id = o.id => q.file = o.file
    PROVE  Good(RetryOrFail(d, o, again), {})
<1> DEFINE e == IF again THEN SetStatus(d, o.id, "Retryable") ELSE DropOp(d, o.id)
           f == o.file
           g == SetSync(e, f, "Error")
<1>1. d \in Database /\ Good(d, {f})
  BY GoodBut DEF Sound
<1>2. Good(e, {f})
  BY <1>1, SetStatusGood, DropOpGood
<1>3. e \in Database
  <2>1. "Retryable" \in OpStatus
    BY DEF OpStatus
  <2>2. SetStatus(d, o.id, "Retryable") \in Database /\ DropOp(d, o.id) \in Database
    BY <2>1, SetStatusFollows, DropOpFollows, DatabaseOf
  <2>3. QED
    BY <2>2
<1> HIDE DEF e
<1>4. Good(g, {f}) /\ \A r \in g.files : r.id = f => r.sync = "Error"
  BY <1>2, <1>3, SetSyncGood
<1> HIDE DEF g
<1>5. \A r \in g.files : r.id = f => HasWork(g, f, r.sync)
  BY <1>4 DEF HasWork, Busy
<1>6. Good(g, {})
  BY <1>4, <1>5, GoodAgain
<1>7. QED
  BY <1>6 DEF RetryOrFail, e, g

(* The end of a job whose row has just become s.                              *)
LEMMA EndGood ==
    ASSUME NEW d \in Database, NEW f, Good(d, {f}), NEW s, s \notin Busy,
           \A r \in d.files : r.id = f => r.sync = s,
           NEW id, \A q \in d.queue : q.id = id => q.file = f
    PROVE  Good(DropOp(d, id), {})
<1> DEFINE e == DropOp(d, id)
<1>1. Good(e, {f}) /\ e.files = d.files
  BY DropOpGood
<1> HIDE DEF e
<1>2. \A r \in e.files : r.id = f => HasWork(e, f, r.sync)
  BY <1>1 DEF HasWork
<1>3. Good(e, {})
  BY <1>1, <1>2, GoodAgain
<1>4. QED
  BY <1>3 DEF e

LEMMA JobsFile ==
    ASSUME Inv, w.pc # "idle"
    PROVE  \A q \in db.queue : q.id = w.job.id => q.file = w.job.file /\ q.type = w.job.type
BY DEF Inv, JobHeld, Held

LEMMA FailQueued == ASSUME Inv, Safe, Queued, Fail PROVE Queued'
<1>1. \A q \in db.queue : q.id = w.job.id => q.file = w.job.file
  BY JobsFile DEF Fail, At
<1>2. Good(db', {})
  BY <1>1, StoreFacts, RetryOrFailGood DEF Fail
<1>3. QED
  BY <1>2, PlainStep DEF Fail

LEMMA CommitSyncedQueued ==
    ASSUME Inv, Safe, Queued, CommitSynced, w.pc \in {"u_commit", "m_commit", "r_commit"}
    PROVE  Queued'
<1> DEFINE f == w.job.file
           v == RemoteVersion(w.meta)
           e == SetSynced(db, f, v)
<1>1. \A q \in db.queue : q.id = w.job.id => q.file = f /\ q.type = w.job.type
  BY JobsFile
<1>2. db \in Database /\ Sound(db) /\ Good(db, {}) /\ Good(db, {f})
  BY StoreFacts, GoodBut
<1>3. CASE w.meta = {}
  <2>1. w.job.type = "Rename"
    BY <1>3 DEF Queued, JobTyped, Renaming
  <2>2. \A q \in db.queue : q.id = w.job.id => q.type \notin Work
    BY <1>1, <2>1 DEF Work
  <2>3. db' = DropOp(db, w.job.id)
    BY <1>3 DEF CommitSynced
  <2>4. Good(db', {})
    BY <1>2, <2>2, <2>3, DropOpGood
  <2>5. QED
    BY <2>4, PlainStep DEF CommitSynced
<1>4. CASE w.meta # {}
  <2>1. v \in Nat
    BY <1>4, RemoteVersionType, WorkerTypes DEF Inv, TypeOK
  <2>2. e \in Database
    BY <1>2, <2>1, SetSyncedFollows, DatabaseOf
  <2>3. Good(e, {f}) /\ \A r \in e.files : r.id = f => r.sync = "Synced"
    BY <1>2, SetSyncedGood
  <2>4. db' = DropOp(e, w.job.id) /\ e.queue = db.queue
    BY <1>2, <1>4 DEF CommitSynced, SetSynced, Database
  <2> HIDE DEF e, v
  <2>5. "Synced" \notin Busy
    BY DEF Busy
  <2>6. Good(db', {})
    BY <1>1, <2>2, <2>3, <2>4, <2>5, EndGood
  <2>7. QED
    BY <2>6, PlainStep DEF CommitSynced
<1>5. QED
  BY <1>3, <1>4

(* Marking the row: by then its operation is there, or a Delete instead.      *)
LEMMA MarkQueued ==
    ASSUME Inv, Safe, Queued, NEW s, NEW step, step \in Plain,
           \/ At("u_mark") /\ s = "Uploading"
           \/ At("l_mark") /\ s = "Downloading",
           db' = SetSync(db, w.job.file, s), Goto(step)
    PROVE  Queued'
<1> DEFINE f == w.job.file
<1>1. f \in Ids(db) => Types(db, f) \cap {w.job.type, "Delete"} # {}
  BY DEF Queued, JobQueued, Early, At
<1>2. {w.job.type, "Delete"} \subseteq Backing(s)
  BY DEF Queued, JobTyped, At, Backing
<1>3. f \notin Ids(db) \/ HasWork(db, f, s)
  BY <1>1, <1>2 DEF HasWork
<1>4. Good(db', {})
  BY <1>3, StoreFacts, SetSyncGood
<1>5. w'.pc \in Plain
  BY GotoParts
<1>6. QED
  BY <1>4, <1>5, PlainStep
-----------------------------------------------------------------------------
(* The process_ functions.                                                    *)
LEMMA FreshRow ==
    ASSUME Safe, NEW d \in Stores, FileId \ born # {}
    PROVE  FreshId \in FileId /\ FreshId \notin Ids(d)
BY DEF FreshId, Safe, StoresOK

LEMMA UploadConflictQueued == ASSUME Inv, Safe, Queued, UploadConflict PROVE Queued'
<1> DEFINE f == w.job.file
           from == w.entry.path
<1>1. /\ Sound(db) /\ Good(db, {}) /\ f \in FileId /\ from \in Path
      /\ FreshId \in FileId /\ FreshId \notin Ids(db)
  BY StoreFacts, WorkerTypes, FreshRow DEF Inv, UploadConflict, Stores
<1>2. PICK cp \in NextConflictPaths(db, from) :
         IF ConflictFails(db, f, from, cp)
         THEN Abandon /\ UNCHANGED <<db, born>>
         ELSE /\ db' = IF w.meta = {} THEN ApplyConflict(db, f, from, cp)
                       ELSE EnsureRemoteRow(ApplyConflict(db, f, from, cp),
                                            The(w.meta), "Synced", FreshId)
              /\ born' = IF w.meta = {} THEN born ELSE born \cup {FreshId}
              /\ Goto("u_finish")
  BY DEF UploadConflict
<1>3. cp \in Path
  BY <1>1, NextConflictPathsType
<1>4. CASE ConflictFails(db, f, from, cp)
  BY <1>1, <1>2, <1>4, PlainStep DEF Abandon
<1>5. CASE ~ConflictFails(db, f, from, cp)
  <2> DEFINE aside == ApplyConflict(db, f, from, cp)
  <2>1. Sound(aside) /\ Good(aside, {}) /\ FreshId \notin Ids(aside)
    BY <1>1, <1>3, ApplyConflictFollows, ApplyConflictGood, DatabaseOf
  <2>2. w'.pc \in Plain
    BY <1>2, <1>5, GotoParts, PlainPcs
  <2>3. db' = IF w.meta = {} THEN aside ELSE EnsureRemoteRow(aside, The(w.meta), "Synced", FreshId)
    BY <1>2, <1>5
  <2> HIDE DEF aside
  <2>4. w.meta # {} => The(w.meta) \in Resource
    BY WorkerTypes DEF Inv, The
  <2>5. Good(db', {})
    BY <1>1, <2>1, <2>3, <2>4, SyncedRowGood
  <2>6. QED
    BY <2>2, <2>5, PlainStep
<1>6. QED
  BY <1>4, <1>5

LEMMA QuietPlain ==
    ASSUME Inv, Safe, Queued, db' = db, Finish \/ w'.pc \in Plain PROVE Queued'
BY StoreFacts, PlainStep

LEMMA UploadQueued ==
    ASSUME Inv, Safe, Queued,
           \/ UploadMark \/ UploadCheck \/ UploadConflict \/ UploadFinish
           \/ UploadPut \/ UploadFetch \/ UploadCommit
    PROVE  Queued'
<1>1. CASE UploadMark
  BY <1>1, PlainPcs, MarkQueued DEF UploadMark
<1>2. CASE UploadCheck
  <2> DEFINE found == Meta(remote, w.entry.path)
             step == IF w.entry.ver = RemoteVersion(found) THEN "u_put" ELSE "u_conflict"
  <2>1. w' = [w EXCEPT !.pc = step, !.meta = found]
    BY <1>2, WorkerTypes DEF Inv, UploadCheck, WorkerState
  <2>2. step \in Plain
    BY PlainPcs
  <2> HIDE DEF found, step
  <2>3. w'.pc \in Plain
    BY <2>1, <2>2, MetaParts
  <2>4. QED
    BY <1>2, <2>3, QuietPlain DEF UploadCheck
<1>3. CASE UploadFinish
  <2>1. db' = db
    BY <1>3, FinishJobFollows DEF Inv, UploadFinish, At, FinishedJobGone
  <2>2. QED
    BY <1>3, <2>1, QuietPlain DEF UploadFinish
<1>4. CASE UploadPut
  <2>1. w'.pc \in Plain
    BY <1>4, GotoPc, FailPc, PlainPcs DEF UploadPut, AnswerLost
  <2>2. QED
    BY <1>4, <2>1, QuietPlain DEF UploadPut
<1>5. CASE UploadFetch
  <2> DEFINE found == Meta(remote, w.entry.path)
  <2>1. CASE found = {}
    BY <1>5, <2>1, FailPc, PlainPcs, QuietPlain DEF UploadFetch
  <2>2. CASE found # {}
    <3>1. w' = [w EXCEPT !.pc = "u_commit", !.meta = found] /\ db' = db
      BY <1>5, <2>2 DEF UploadFetch
    <3> HIDE DEF found
    <3>2. w'.pc = "u_commit" /\ w'.job = w.job /\ w'.meta # {}
      BY <2>2, <3>1, MetaParts
    <3>3. QED
      BY <3>1, <3>2, StoreFacts, TypedStep
  <2>3. QED
    BY <2>1, <2>2
<1>6. QED
  BY <1>1, <1>2, <1>3, <1>4, <1>5, UploadConflictQueued, CommitSyncedQueued DEF UploadCommit, At

LEMMA RemoteCallQueued ==
    ASSUME Inv, Safe, Queued, NEW step,
           step \in Plain \/ (step \in Renaming /\ w.pc \in Renaming),
           Goto(step) \/ AnswerLost, db' = db
    PROVE  Queued'
<1>1. CASE AnswerLost
  BY <1>1, FailPc, PlainPcs, QuietPlain DEF AnswerLost
<1>2. CASE Goto(step) /\ step \in Plain
  BY <1>2, GotoParts, QuietPlain
<1>3. CASE Goto(step) /\ step \in Renaming /\ w.pc \in Renaming
  BY <1>3, GotoParts, StoreFacts, TypedStep DEF Queued, JobTyped
<1>4. QED
  BY <1>1, <1>2, <1>3

LEMMA DeletionQueued == ASSUME Inv, Safe, Queued, DeleteCall \/ DeleteCommit PROVE Queued'
<1>1. CASE DeleteCall
  BY <1>1, RemoteCallQueued, PlainPcs DEF DeleteCall
<1>2. CASE DeleteCommit
  <2> DEFINE f == w.job.file
             e == DropOp(db, w.job.id)
  <2>1. \A q \in db.queue : q.id = w.job.id => q.file = f
    BY <1>2, JobsFile DEF DeleteCommit, At
  <2>2. db \in Database /\ Good(db, {f}) /\ e \in Database /\ db' = DeleteRow(e, f)
    BY <1>2, StoreFacts, GoodBut, DropOpFollows, DatabaseOf DEF DeleteCommit
  <2>3. Good(e, {f})
    BY <2>1, <2>2, DropOpGood
  <2> HIDE DEF e
  <2>4. Good(db', {f}) /\ Ids(db') = Ids(e) \ {f}
    BY <2>2, <2>3, DeleteRowGood
  <2>5. \A r \in db'.files : r.id = f => HasWork(db', f, r.sync)
    BY <2>4 DEF Ids
  <2>6. Good(db', {})
    BY <2>4, <2>5, GoodAgain
  <2>7. QED
    BY <1>2, <2>6, PlainStep DEF DeleteCommit
<1>3. QED
  BY <1>1, <1>2

LEMMA MakingQueued ==
    ASSUME Inv, Safe, Queued, MkdirCall \/ MkdirFetch \/ MkdirSynced PROVE Queued'
<1>1. CASE MkdirCall
  BY <1>1, RemoteCallQueued, PlainPcs DEF MkdirCall
<1>2. CASE MkdirFetch
  <2> DEFINE found == Meta(remote, w.entry.path)
  <2>1. CASE found = {}
    BY <1>2, <2>1, QuietPlain DEF MkdirFetch, Abandon
  <2>2. CASE found # {}
    <3>1. w' = [w EXCEPT !.pc = "m_commit", !.meta = found] /\ db' = db
      BY <1>2, <2>2 DEF MkdirFetch
    <3> HIDE DEF found
    <3>2. w'.pc = "m_commit" /\ w'.job = w.job /\ w'.meta # {}
      BY <2>2, <3>1, MetaParts
    <3>3. QED
      BY <3>1, <3>2, StoreFacts, TypedStep
  <2>3. QED
    BY <2>1, <2>2
<1>3. QED
  BY <1>1, <1>2, CommitSyncedQueued DEF MkdirSynced, At

LEMMA RenamingQueued ==
    ASSUME Inv, Safe, Queued,
           RenameProbe \/ RenameDelete \/ RenameMove \/ RenameFetch \/ RenameSynced
    PROVE  Queued'
<1>1. {"r_probe", "r_delete", "r_move", "r_fetch", "r_commit"} = Renaming
  BY DEF Renaming
<1>2. CASE RenameProbe
  <2>1. CASE Goto("r_delete")
    BY <1>1, <1>2, <2>1, RemoteCallQueued DEF RenameProbe, At
  <2>2. CASE Goto("r_move")
    BY <1>1, <1>2, <2>2, RemoteCallQueued DEF RenameProbe, At
  <2>3. QED
    BY <1>2, <2>1, <2>2 DEF RenameProbe
<1>3. CASE RenameDelete
  BY <1>1, <1>3, RemoteCallQueued DEF RenameDelete, At
<1>4. CASE RenameMove
  BY <1>1, <1>4, RemoteCallQueued DEF RenameMove, At
<1>5. CASE RenameFetch
  <2>1. w'.pc = "r_commit" /\ w'.job = w.job /\ db' = db
    BY <1>5, MetaParts DEF RenameFetch
  <2>2. w.job.type = "Rename"
    BY <1>5 DEF RenameFetch, At, Queued, JobTyped, Renaming
  <2>3. QED
    BY <1>1, <2>1, <2>2, StoreFacts, TypedStep
<1>6. CASE RenameSynced
  BY <1>6, CommitSyncedQueued DEF RenameSynced, At
<1>7. QED
  BY <1>2, <1>3, <1>4, <1>5, <1>6

LEMMA DownloadingQueued ==
    ASSUME Inv, Safe, Queued, DownloadMark \/ DownloadGet \/ DownloadWrite \/ DownloadCommit
    PROVE  Queued'
<1>1. CASE DownloadMark
  BY <1>1, PlainPcs, MarkQueued DEF DownloadMark
<1>2. CASE DownloadGet
  <2> DEFINE data == The(Meta(remote, w.entry.path)).data
  <2>1. \/ w' = [w EXCEPT !.pc = "l_write", !.data = data]
        \/ w' = [w EXCEPT !.pc = "fail", !.again = FALSE]
    BY <1>2 DEF DownloadGet
  <2> HIDE DEF data
  <2>2. w'.pc \in {"l_write", "fail"}
    BY <2>1, FailPc, WorkerTypes DEF Inv, WorkerState
  <2>3. QED
    BY <1>2, <2>2, PlainPcs, QuietPlain DEF DownloadGet
<1>3. CASE DownloadWrite
  BY <1>3, GotoParts, PlainPcs, QuietPlain DEF DownloadWrite
<1>4. CASE DownloadCommit
  <2> DEFINE f == w.job.file
             e == SetCached(db, f, "Synced")
  <2>1. "Synced" \in SyncState \ {"Conflict"} /\ "Synced" \notin Busy
    BY DEF SyncState, Busy
  <2>2. db \in Database /\ Good(db, {f}) /\ e \in Database
    BY <2>1, StoreFacts, GoodBut, SetCachedFollows, DatabaseOf
  <2>3. Good(e, {f}) /\ \A r \in e.files : r.id = f => r.sync = "Synced"
    BY <2>2, SetCachedGood
  <2>4. db' = DropOp(e, w.job.id) /\ e.queue = db.queue
    BY <1>4, <2>2 DEF DownloadCommit, SetCached, Database
  <2>5. \A q \in e.queue : q.id = w.job.id => q.file = f
    BY <1>4, <2>4, JobsFile DEF DownloadCommit, At
  <2> HIDE DEF e
  <2>6. Good(db', {})
    BY <2>1, <2>2, <2>3, <2>4, <2>5, EndGood
  <2>7. QED
    BY <1>4, <2>6, PlainStep DEF DownloadCommit
<1>5. QED
  BY <1>1, <1>2, <1>3, <1>4
-----------------------------------------------------------------------------
(* process_refresh_tree: the transaction stays good, too.                     *)
LEMMA TxQueued ==
    ASSUME Inv, Safe, Queued, Locked, NEW tx, Good(tx, {}), db' = db,
           w'.tx = tx, w'.pc = w.pc, w'.job = w.job
    PROVE  Queued'
<1>1. StoresGood'
  BY StoreFacts DEF StoresGood, Stores, Locked
<1>2. JobQueued'
  BY DEF JobQueued, Early, Locked
<1>3. JobTyped(w')
  BY DEF Queued, JobTyped, Locked
<1>4. QED
  BY <1>1, <1>2, <1>3 DEF Queued

LEMMA RefreshListQueued == ASSUME Inv, Safe, Queued, RefreshList PROVE Queued'
<1>1. Abandon \/ (w'.pc \in {"f_snap", "f_list"} /\ w'.job = w.job)
  <2>1. PICK p \in IF w.offset = 0 THEN w.walk ELSE {w.dir} :
           LET page == Page(remote, p, w.offset)
               last == LastPage(remote, p, w.offset)
               walk == (IF last THEN w.walk \ {p} ELSE w.walk)
                          \cup {x.path : x \in {y \in page : y.kind = "Dir"}}
           IN  IF \E x \in Meta(remote, p) : x.kind = "Dir"
               THEN w' = [w EXCEPT !.pc = IF walk = {} THEN "f_snap" ELSE "f_list",
                                   !.walk = walk,
                                   !.dir = IF last THEN RootPath ELSE p,
                                   !.offset = IF last THEN 0 ELSE @ + PageSize,
                                   !.seen = Listed(@, page \cup
                                      IF p = RootPath THEN Meta(remote, p) ELSE {})]
               ELSE Abandon
    BY DEF RefreshList
  <2> DEFINE last == LastPage(remote, p, w.offset)
             page == Page(remote, p, w.offset)
             walk == (IF last THEN w.walk \ {p} ELSE w.walk)
                        \cup {x.path : x \in {y \in page : y.kind = "Dir"}}
             seen == Listed(w.seen, page \cup IF p = RootPath THEN Meta(remote, p) ELSE {})
             step == IF walk = {} THEN "f_snap" ELSE "f_list"
             dir == IF last THEN RootPath ELSE p
             offset == IF last THEN 0 ELSE w.offset + PageSize
             listed == [w EXCEPT !.pc = step, !.walk = walk, !.dir = dir, !.offset = offset,
                                 !.seen = seen]
  <2>2. w \in WorkerState
    BY WorkerTypes DEF Inv
  <2>3. Abandon \/ w' = listed
    BY <2>1, <2>2 DEF WorkerState
  <2>4. step \in {"f_snap", "f_list"}
    OBVIOUS
  <2> HIDE DEF walk, seen, step, dir, offset
  <2>5. listed.pc = step /\ listed.job = w.job
    BY <2>2 DEF WorkerState
  <2>6. QED
    BY <2>3, <2>4, <2>5
<1>2. CASE Abandon
  BY <1>2, QuietPlain DEF RefreshList, Abandon
<1>3. CASE w'.pc \in {"f_snap", "f_list"} /\ w'.job = w.job
  <2>1. w.job.type = "RefreshTree" /\ w'.pc \in Refreshing \ {"f_apply"} /\ db' = db
    BY <1>3 DEF RefreshList, At, Queued, JobTyped, Refreshing
  <2>2. QED
    BY <1>3, <2>1, StoreFacts, TypedStep
<1>4. QED
  BY <1>1, <1>2, <1>3

LEMMA RefreshSnapshotQueued == ASSUME Inv, Safe, Queued, RefreshSnapshot PROVE Queued'
<1>1. w'.pc = "f_begin" /\ w'.job = w.job /\ db' = db
  BY WorkerTypes DEF Inv, RefreshSnapshot, WorkerState
<1>2. w.job.type = "RefreshTree" /\ w'.pc \in Refreshing \ {"f_apply"}
  BY <1>1 DEF RefreshSnapshot, At, Queued, JobTyped, Refreshing
<1>3. QED
  BY <1>1, <1>2, StoreFacts, TypedStep

LEMMA RefreshBeginQueued == ASSUME Inv, Safe, Queued, RefreshBegin PROVE Queued'
<1>1. w'.pc = "f_apply" /\ w'.tx = db /\ w'.job = w.job /\ db' = db
  BY WorkerTypes DEF Inv, RefreshBegin, WorkerState
<1>2. StoresGood'
  BY <1>1, StoreFacts DEF StoresGood, Stores
<1>3. JobQueued'
  BY <1>1 DEF JobQueued, Early
<1>4. w.job.type = "RefreshTree"
  BY DEF RefreshBegin, At, Queued, JobTyped, Refreshing
<1>5. JobTyped(w')
  BY <1>1, <1>4 DEF JobTyped, Renaming
<1>6. QED
  BY <1>2, <1>3, <1>5 DEF Queued

LEMMA MergeQueued ==
    ASSUME Inv, Safe, Queued, At("f_apply"), FileId \ born # {}, NEW res \in w.todo,
           MergeConflict(res) \/ MergeOutdated(res) \/ MergePlain(res), db' = db
    PROVE  Queued'
<1>1. /\ Locked /\ res \in Resource /\ w \in WorkerState
      /\ Sound(w.tx) /\ Good(w.tx, {}) /\ FreshId \in FileId /\ FreshId \notin Ids(w.tx)
  BY RefreshTypes, StoreFacts, FreshRow DEF Inv, At, Locked, Stores
<1>2. ASSUME NEW tx, Good(tx, {}), w' = [w EXCEPT !.tx = tx, !.todo = @ \ {res}]
      PROVE  Queued'
  <2>1. w'.tx = tx /\ w'.pc = w.pc /\ w'.job = w.job
    BY <1>1, <1>2 DEF WorkerState
  <2>2. QED
    BY <1>1, <1>2, <2>1, TxQueued
<1>3. CASE MergeConflict(res)
  <2>1. PICK l \in Conflicting(res) : \E cp \in NextConflictPaths(w.tx, l.path) :
           IF ConflictFails(w.tx, l.id, l.path, cp)
           THEN Abandon /\ UNCHANGED born
           ELSE LET aside == ApplyConflict(w.tx, l.id, l.path, cp)
                IN  /\ w' = [w EXCEPT !.tx = EnsureRemoteRow(aside, res, "Synced", FreshId),
                                      !.todo = @ \ {res}]
                    /\ BornFor(aside, res)
    BY <1>3 DEF MergeConflict
  <2>2. PICK cp \in NextConflictPaths(w.tx, l.path) :
           IF ConflictFails(w.tx, l.id, l.path, cp)
           THEN Abandon
           ELSE w' = [w EXCEPT !.tx = EnsureRemoteRow(ApplyConflict(w.tx, l.id, l.path, cp),
                                                      res, "Synced", FreshId),
                               !.todo = @ \ {res}]
    BY <2>1
  <2>3. l.id \in FileId /\ l.path \in Path
    BY RefreshTypes DEF Inv, Conflicting, Local, Row
  <2>4. cp \in Path
    BY <2>3, NextConflictPathsType
  <2>5. CASE ConflictFails(w.tx, l.id, l.path, cp)
    BY <2>2, <2>5, QuietPlain DEF Abandon
  <2>6. CASE ~ConflictFails(w.tx, l.id, l.path, cp)
    <3> DEFINE aside == ApplyConflict(w.tx, l.id, l.path, cp)
               tx == EnsureRemoteRow(aside, res, "Synced", FreshId)
    <3>1. Sound(aside) /\ Good(aside, {}) /\ FreshId \notin Ids(aside)
      BY <1>1, <2>3, <2>4, ApplyConflictFollows, ApplyConflictGood, DatabaseOf
    <3>2. w' = [w EXCEPT !.tx = tx, !.todo = @ \ {res}]
      BY <2>2, <2>6
    <3> HIDE DEF aside
    <3>3. Good(tx, {})
      BY <1>1, <3>1, SyncedRowGood
    <3> HIDE DEF tx
    <3>4. QED
      BY <1>2, <3>2, <3>3
  <2>7. QED
    BY <2>5, <2>6
<1>4. CASE MergeOutdated(res)
  <2> DEFINE merged == EnsureRemoteRow(w.tx, res, "Downloading", FreshId)
             tx == Upsert(merged, The(RowAt(merged, res.path)).id, "Download", res.path, RootPath)
  <2>1. w' = [w EXCEPT !.tx = tx, !.todo = @ \ {res}]
    BY <1>4 DEF MergeOutdated
  <2>2. Good(tx, {})
    BY <1>1, OutdatedGood
  <2> HIDE DEF tx
  <2>3. QED
    BY <1>2, <2>1, <2>2
<1>5. CASE MergePlain(res)
  <2> DEFINE tx == EnsureRemoteRow(w.tx, res, "Synced", FreshId)
  <2>1. w' = [w EXCEPT !.tx = tx, !.todo = @ \ {res}]
    BY <1>5 DEF MergePlain
  <2>2. Good(tx, {})
    BY <1>1, SyncedRowGood
  <2> HIDE DEF tx
  <2>3. QED
    BY <1>2, <2>1, <2>2
<1>6. QED
  BY <1>3, <1>4, <1>5

LEMMA DropQueued ==
    ASSUME Inv, Safe, Queued, At("f_apply"), NEW l \in w.gone,
           DropRow(l) \/ KeepCopy(l) \/ DropConflict(l), db' = db
    PROVE  Queued'
<1>1. /\ l.id \in FileId /\ l.path \in Path /\ w \in WorkerState
      /\ Locked /\ Sound(w.tx) /\ Good(w.tx, {})
  BY RefreshTypes, StoreFacts DEF Inv, At, Row, Locked
<1>2. ASSUME NEW tx, Good(tx, {}), w' = [w EXCEPT !.tx = tx, !.gone = @ \ {l}]
      PROVE  Queued'
  <2>1. w'.tx = tx /\ w'.pc = w.pc /\ w'.job = w.job
    BY <1>1, <1>2 DEF WorkerState
  <2>2. QED
    BY <1>1, <1>2, <2>1, TxQueued
<1>3. CASE DropRow(l)
  <2>1. Good(DeleteRow(w.tx, l.id), {})
    BY <1>1, DeleteRowGood DEF Sound
  <2>2. QED
    BY <1>2, <1>3, <2>1 DEF DropRow
<1>4. CASE KeepCopy(l)
  <2>1. w' = [w EXCEPT !.tx = w.tx, !.gone = @ \ {l}]
    BY <1>1, <1>4 DEF KeepCopy, WorkerState
  <2>2. QED
    BY <1>1, <1>2, <2>1
<1>5. CASE DropConflict(l)
  <2>1. PICK cp \in NextConflictPaths(w.tx, l.path) :
           IF ConflictFails(w.tx, l.id, l.path, cp) THEN Abandon
           ELSE w' = [w EXCEPT !.tx = ApplyConflict(w.tx, l.id, l.path, cp),
                               !.gone = @ \ {l}]
    BY <1>5 DEF DropConflict
  <2>2. cp \in Path
    BY <1>1, <2>1, NextConflictPathsType
  <2>3. Good(ApplyConflict(w.tx, l.id, l.path, cp), {})
    BY <1>1, <2>2, ApplyConflictGood
  <2>4. QED
    BY <1>2, <2>1, <2>3, QuietPlain DEF Abandon
<1>6. QED
  BY <1>3, <1>4, <1>5

LEMMA RefreshCommitQueued == ASSUME Inv, Safe, Queued, RefreshCommit PROVE Queued'
<1>1. w'.pc = "f_done" /\ w'.job = w.job /\ db' = w.tx /\ Good(w.tx, {})
  BY StoreFacts DEF RefreshCommit, WorkerState, At, Locked
<1>2. w.job.type = "RefreshTree" /\ w'.pc \in Refreshing \ {"f_apply"}
  BY <1>1 DEF RefreshCommit, At, Queued, JobTyped, Refreshing
<1>3. QED
  BY <1>1, <1>2, TypedStep

LEMMA RefreshDoneQueued == ASSUME Inv, Safe, Queued, RefreshDone PROVE Queued'
<1>1. w.job.type = "RefreshTree" /\ w.pc # "idle"
  BY DEF RefreshDone, At, Queued, JobTyped, Refreshing
<1>2. \A q \in db.queue : q.id = w.job.id => q.type \notin Work
  BY <1>1, JobsFile DEF Work
<1>3. Good(db', {})
  BY <1>2, StoreFacts, DropOpGood DEF RefreshDone
<1>4. QED
  BY <1>3, PlainStep DEF RefreshDone
-----------------------------------------------------------------------------
(* The network, and a kill between two critical sections.                     *)
LEMMA NetworkFailsQueued == ASSUME Inv, Safe, Queued, NetworkFails PROVE Queued'
<1>1. CASE CallFails
  BY <1>1, FailPc, PlainPcs, QuietPlain DEF NetworkFails, CallFails
<1>2. CASE CallAbandoned
  BY <1>2, QuietPlain DEF NetworkFails, CallAbandoned, Abandon
<1>3. CASE At("r_probe") /\ Goto("r_move")
  BY <1>3, RemoteCallQueued DEF NetworkFails, Renaming, At
<1>4. QED
  BY <1>1, <1>2, <1>3 DEF NetworkFails

LEMMA RestartQueued == ASSUME Inv, Safe, Queued, CrashRestart, Reopen(db) PROVE Queued'
<1>1. Good(db', {})
  BY StoreFacts, UpsertGood DEF Reopen
<1>2. w'.pc \in Plain
  BY PlainPcs DEF CrashRestart, IdleWorker
<1>3. QED
  BY <1>1, <1>2, PlainStep

(* What open_at finds has no row that announces work.                         *)
LEMMA InitQueued == ASSUME Init PROVE Queued
<1> DEFINE row(e) == [id |-> e.id, path |-> e.path, kind |-> e.kind, sync |-> "Synced",
                      ver |-> 1, cached |-> e.local = "cached"]
           known == {row(e) : e \in {x \in InitTree : x.local # "unknown"}}
           opened == [files |-> {RootRow} \cup known, queue |-> {}, copies |-> {}, nextOp |-> 1]
<1>1. opened \in Database
  <2>1. \A e \in InitTree : row(e) \in Row
    <3>1. \A e \in InitTree : e.path \in Path /\ e.kind \in Kind /\ e.id \in FileId
      BY StateAssumption DEF InitEntry
    <3>2. "Synced" \in SyncState /\ 1 \in Nat
      BY DEF SyncState
    <3>3. \A e \in InitTree : (e.local = "cached") \in BOOLEAN
      OBVIOUS
    <3>4. QED
      BY <3>1, <3>2, <3>3 DEF Row
  <2> HIDE DEF row
  <2>2. {RootRow} \cup known \in SUBSET Row
    BY <2>1, RootTypes
  <2> HIDE DEF known
  <2>3. QED
    BY <2>2 DEF Database
<1>2. Good(opened, {})
  <2>1. opened.files = {RootRow} \cup known /\ opened.queue = {}
    OBVIOUS
  <2>2. \A e \in InitTree : row(e).path = e.path /\ row(e).sync = "Synced"
    OBVIOUS
  <2>3. \A e, g \in InitTree : e.path # RootPath /\ (e.path = g.path => e = g)
    BY StateAssumption
  <2>4. RootRow.path = RootPath /\ RootRow.sync = "Placeholder"
    BY DEF RootRow
  <2> HIDE DEF opened, row
  <2>5. PathsOnce(opened)
    BY <2>1, <2>2, <2>3, <2>4 DEF PathsOnce
  <2>6. \A r \in opened.files : r.sync \notin Busy
    BY <2>1, <2>2, <2>4 DEF Busy
  <2>7. QED
    BY <2>1, <2>5, <2>6 DEF Good, Backed, HasWork, Keyed
<1>3. db = Upsert(opened, Root, "RefreshTree", RootPath, RootPath)
  BY DEF Init
<1> HIDE DEF opened
<1>4. Good(db, {})
  BY <1>1, <1>2, <1>3, UpsertGood
<1>5. w.pc = "idle"
  BY DEF Init, IdleWorker
<1>6. QED
  BY <1>4, <1>5 DEF Queued, StoresGood, Stores, Locked, JobQueued, JobTyped, Early, Renaming,
     Refreshing

(* A step of the system that tears nothing apart keeps it so.                 *)
LEMMA QueuedKept == ASSUME Inv, Safe, Queued, [Next]_vars PROVE Queued' \/ Torn'
<1>1. CASE \E t \in Thread : Call(t) \/ CallStep(t)
  BY <1>1, CallQueued, CallStepQueued
<1>2. CASE WorkerStep
  <2>1. Poll => UNCHANGED vars
    BY DEF Poll
  <2>2. UNCHANGED vars => Queued'
    BY OutsideQueued DEF vars
  <2>3. QED
    BY <1>2, <2>1, <2>2, LeasesQueued, StartQueued, FailQueued, UploadQueued, DeletionQueued,
       MakingQueued, RenamingQueued, DownloadingQueued DEF WorkerStep
<1>3. CASE RefreshStep
  <2>1. RefreshMerge => Queued'
    BY MergeQueued DEF RefreshMerge
  <2>2. RefreshDrop => Queued'
    BY DropQueued DEF RefreshDrop
  <2>3. QED
    BY <1>3, <2>1, <2>2, RefreshListQueued, RefreshSnapshotQueued, RefreshBeginQueued,
       RefreshCommitQueued, RefreshDoneQueued DEF RefreshStep
<1>4. CASE CrashRestart
  <2>1. CASE Reopen(db)
    BY <1>4, <2>1, RestartQueued
  <2>2. CASE Spend("half")
    BY <2>2, HalfTears DEF Inv
  <2>3. QED
    BY <1>4, <2>1, <2>2 DEF CrashRestart
<1>5. CASE OtherClient
  BY <1>5, OutsideQueued DEF OtherClient, OtherPut, OtherDelete
<1>6. CASE UNCHANGED vars
  BY <1>6, OutsideQueued DEF vars
<1>7. QED
  BY <1>1, <1>2, <1>3, <1>4, <1>5, <1>6, RequestRefreshQueued, NetworkFailsQueued DEF Next
-----------------------------------------------------------------------------
(* A row that says an upload, a deletion or a download is queued or under way *)
(* has an operation that does it, whatever the callers, the refreshes and the *)
(* worker do to row and queue, unless a kill tears a critical section apart.  *)
THEOREM StatesHaveWork == Spec => []QueueBacked
<1> DEFINE QInv == Inv /\ Safe /\ (Torn \/ Queued)
<1>1. Init => QInv
  BY InitInv, InitSafe, InitQueued
<1>2. QInv /\ [Next]_vars => QInv'
  <2>1. Inv /\ Safe /\ [Next]_vars => (Inv /\ Safe)'
    BY NextKeeps, SafeKept
  <2>2. Inv /\ [Next]_vars /\ Torn => Torn'
    BY NextCounted, TornStays DEF Inv
  <2>3. Inv /\ [Next]_vars /\ Safe /\ Queued => Queued' \/ Torn'
    BY QueuedKept
  <2>4. QED
    BY <2>1, <2>2, <2>3
<1>3. QInv => QueueBacked
  <2>1. Good(db, {}) => \A r \in db.files : r.sync \in Busy => OpsOf(r.id, Backing(r.sync)) # {}
    BY DEF Good, Backed, HasWork, Types, OpsOf
  <2>2. Queued => Good(db, {})
    BY DEF Queued, StoresGood, Stores
  <2>3. QED
    BY <2>1, <2>2 DEF QueueBacked, Busy
<1>4. QED
  BY <1>1, <1>2, <1>3, PTL DEF Spec
=============================================================================
