-------------------------- MODULE LocalFirstProofs --------------------------
(****************************************************************************)
(* Theorems about bytes.  For all constants that keep programs and other     *)
(* clients apart: the sync layer implements LocalFirst, an edit is never lost *)
(* before it is uploaded, and what is quiet is complete.  For all behaviours  *)
(* of other clients without calls of programs: the versions of quiet rows pin *)
(* their bytes.                                                               *)
(*                                                                            *)
(* The invariant of the first three, Worlds, is about two worlds.  Where no   *)
(* program has made a call there is no edit.  Where no other client has       *)
(* changed the remote tree, every row that claims to be synced stands for     *)
(* what is there, so that neither a refresh nor a download has a reason to    *)
(* touch an edit, and every edit waits for an upload of its own.              *)
(*                                                                            *)
(* The invariant of the last, Unattended, says of every cached row that its   *)
(* bytes are those of its version, or that it is a conflict copy, has failed  *)
(* or has a download before it.                                               *)
(****************************************************************************)
EXTENDS RefreshProofs

(* Programs create and write files and do nothing else; where they do, no     *)
(* other client changes the remote tree.  The tree at the start hangs from    *)
(* directories that have rows.                                                *)
EditsApart ==
    /\ UserOps \subseteq {"create", "write"}
    /\ \A l \in Limits : l.user = 0 \/ l.other = 0
    /\ \A e \in InitTree :
          /\ e.kind = "Dir" => e.local # "unknown"
          /\ \A k \in 1 .. Len(e.path) - 1 :
                \E g \in InitTree : g.kind = "Dir" /\ g.path = SubSeq(e.path, 1, k)
-----------------------------------------------------------------------------
(* A path leads through directories of the tree.                              *)
Led(T, p) == \A k \in 0 .. Len(p) - 1 : \E y \in Meta(T, SubSeq(p, 1, k)) : y.kind = "Dir"

FileOf(d, f) == \E r \in RowOf(d, f) : r.kind = "File"

(* What is true of a row when no other client changes the tree: a directory   *)
(* is one of the server's, and what is Synced has the server's version.       *)
RowFits(T, r) ==
    /\ Led(T, r.path)
    /\ r.kind = "File" => r.path # RootPath /\ r.sync \in Unsynced \cup {"Synced"}
    /\ r.kind = "Dir" => /\ r.sync \in {"Synced", "Placeholder"}
                         /\ \E x \in Meta(T, r.path) : x.kind = "Dir"
    /\ r.sync = "Synced" => \E x \in Meta(T, r.path) : x.ver = r.ver

Agrees(T, d) ==
    /\ \A o \in d.queue : o.type = "RefreshTree" \/ (o.type = "Upload" /\ FileOf(d, o.file))
    /\ \A r \in d.files : RowFits(T, r)
    /\ \A x \in T : x.kind = "Dir" => \E r \in RowAt(d, x.path) : r.kind = "Dir"

(* The store has the row, where it is.                                        *)
Placed(d, l) == \E r \in RowOf(d, l.id) : r.path = l.path /\ r.kind = l.kind

(* From d to e the files outside of F stay where they are, none of them       *)
(* becomes Synced, and none of their uploads goes.                            *)
Carries(d, e, F) ==
    /\ \A f : FileOf(d, f) => FileOf(e, f)
    /\ \A r \in d.files : r.id \notin F => Placed(e, r)
    /\ \A f : /\ f \notin F /\ FileOf(d, f)
              /\ \A q \in RowOf(d, f) : q.sync # "Synced"
              => \A r \in RowOf(e, f) : r.sync # "Synced"
    /\ \A o \in d.queue : o.type = "Upload" /\ o.file \notin F =>
          \E q \in e.queue : q.id = o.id /\ q.file = o.file /\ q.type = "Upload"

(* An edit of f waits in d, for an upload other than those that are ending.   *)
Due(d, f, ending) ==
    \/ \E o \in d.queue : /\ o.file = f /\ o.type = "Upload"
                          /\ \A j \in ending : o.id # j.id
    \/ /\ \A r \in RowOf(d, f) : r.sync # "Synced"
       /\ \A j \in ending : j.file # f

Owing(d, edits, ending) ==
    \A f \in FileId : edits[f] # NoData => FileOf(d, f) /\ Due(d, f, ending)
-----------------------------------------------------------------------------
LEMMA CarriesSelf == ASSUME NEW d, NEW F PROVE Carries(d, d, F)
BY DEF Carries, Placed, RowOf

LEMMA CarriesMore ==
    ASSUME NEW d, NEW e, NEW F, NEW H, F \subseteq H, Carries(d, e, F) PROVE Carries(d, e, H)
BY DEF Carries

LEMMA CarriesOn ==
    ASSUME NEW d, NEW e, NEW g, NEW F, Carries(d, e, F), Carries(e, g, F) PROVE Carries(d, g, F)
<1>1. \A f : FileOf(d, f) => FileOf(e, f) /\ FileOf(g, f)
  BY DEF Carries
<1>2. \A r \in d.files : r.id \notin F => Placed(g, r)
  BY DEF Carries, Placed, RowOf
<1>3. \A f : /\ f \notin F /\ FileOf(d, f)
             /\ \A q \in RowOf(d, f) : q.sync # "Synced"
             => \A r \in RowOf(g, f) : r.sync # "Synced"
  BY <1>1 DEF Carries
<1>4. \A o \in d.queue : o.type = "Upload" /\ o.file \notin F =>
          \E q \in g.queue : q.id = o.id /\ q.file = o.file /\ q.type = "Upload"
  BY DEF Carries
<1>5. QED
  BY <1>1, <1>2, <1>3, <1>4 DEF Carries

(* What is carried on is still owed.                                          *)
LEMMA OwingCarried ==
    ASSUME NEW d, NEW e, NEW edits, NEW ending, NEW F, Owing(d, edits, ending), Carries(d, e, F),
           \A f \in FileId \cap F : edits[f] # NoData => Due(e, f, ending)
    PROVE  Owing(e, edits, ending)
<1>1. ASSUME NEW f \in FileId, edits[f] # NoData, f \notin F PROVE Due(e, f, ending)
  <2>1. FileOf(d, f) /\ Due(d, f, ending)
    BY <1>1 DEF Owing
  <2>2. ASSUME NEW o \in d.queue, o.file = f, o.type = "Upload", \A j \in ending : o.id # j.id
        PROVE  Due(e, f, ending)
    <3>1. PICK q \in e.queue : q.id = o.id /\ q.file = o.file /\ q.type = "Upload"
      BY <1>1, <2>2 DEF Carries
    <3>2. QED
      BY <2>2, <3>1 DEF Due
  <2>3. ASSUME \A r \in RowOf(d, f) : r.sync # "Synced", \A j \in ending : j.file # f
        PROVE  Due(e, f, ending)
    BY <1>1, <2>1, <2>3 DEF Carries, Due
  <2>4. QED
    BY <2>1, <2>2, <2>3 DEF Due
<1>2. QED
  BY <1>1 DEF Owing, Carries

LEMMA OwingEnded ==
    ASSUME NEW d, NEW edits, NEW ending, Owing(d, edits, ending) PROVE Owing(d, edits, {})
BY DEF Owing, Due
-----------------------------------------------------------------------------
(* Statements on the queue.                                                   *)
LEMMA QueueAgrees ==
    ASSUME NEW T, NEW d, Agrees(T, d), NEW e, e.files = d.files,
           \A o \in e.queue : o.type = "RefreshTree" \/ (o.type = "Upload" /\ FileOf(d, o.file))
    PROVE  Agrees(T, e)
BY DEF Agrees, FileOf, RowOf, RowAt

LEMMA QueueCarries ==
    ASSUME NEW d, NEW e, NEW F, e.files = d.files,
           \A o \in d.queue : o.type = "Upload" /\ o.file \notin F =>
              \E q \in e.queue : q.id = o.id /\ q.file = o.file /\ q.type = "Upload"
    PROVE  Carries(d, e, F)
BY DEF Carries, FileOf, RowOf, Placed

LEMMA SetStatusAgrees ==
    ASSUME NEW T, NEW d \in Database, Agrees(T, d), NEW i, NEW s
    PROVE  Agrees(T, SetStatus(d, i, s)) /\ Carries(d, SetStatus(d, i, s), {})
<1> DEFINE new(o) == IF o.id = i THEN [o EXCEPT !.status = s] ELSE o
           e == SetStatus(d, i, s)
<1>1. \A o \in d.queue : new(o).id = o.id /\ new(o).file = o.file /\ new(o).type = o.type
  BY DEF Database, Op
<1>2. e.files = d.files /\ e.queue = {new(o) : o \in d.queue}
  BY DEF SetStatus, Database
<1> HIDE DEF new, e
<1>3. \A q \in e.queue : q.type = "RefreshTree" \/ (q.type = "Upload" /\ FileOf(d, q.file))
  BY <1>1, <1>2 DEF Agrees
<1>4. \A o \in d.queue : \E q \in e.queue : q.id = o.id /\ q.file = o.file /\ q.type = o.type
  BY <1>1, <1>2
<1>5. QED
  BY <1>2, <1>3, <1>4, QueueAgrees, QueueCarries DEF e

(* The operation that goes is of the file f, if it is an upload.              *)
LEMMA DropOpAgrees ==
    ASSUME NEW T, NEW d \in Database, Agrees(T, d), NEW i, NEW F,
           \A o \in d.queue : o.id = i /\ o.type = "Upload" => o.file \in F
    PROVE  Agrees(T, DropOp(d, i)) /\ Carries(d, DropOp(d, i), F)
<1> DEFINE e == DropOp(d, i)
<1>1. e.files = d.files /\ e.queue = {o \in d.queue : o.id # i}
  BY DEF DropOp, Database
<1> HIDE DEF e
<1>2. Agrees(T, e)
  <2>1. \A o \in e.queue : o.type = "RefreshTree" \/ (o.type = "Upload" /\ FileOf(d, o.file))
    BY <1>1 DEF Agrees
  <2>2. QED
    BY <1>1, <2>1, QueueAgrees
<1>3. Carries(d, e, F)
  <2>1. \A o \in d.queue : o.type = "Upload" /\ o.file \notin F => o \in e.queue
    BY <1>1
  <2>2. QED
    BY <1>1, <2>1, QueueCarries
<1>4. QED
  BY <1>2, <1>3 DEF e

(* What upsert_operation leaves in the queue: its operation is a new one, or  *)
(* one that was runnable.                                                     *)
Turned(d, q, f, type) ==
    /\ q.file = f /\ q.type = type
    /\ \/ q.id = d.nextOp
       \/ \E o \in d.queue : o.id = q.id /\ o.file = f /\ o.type = type /\ o.status \in Runnable

LEMMA UpsertQueue ==
    ASSUME NEW d \in Database, NEW f, NEW type, NEW from, NEW to
    PROVE  LET e == Upsert(d, f, type, from, to)
           IN  /\ e.files = d.files
               /\ \A o \in d.queue : \E q \in e.queue : q.id = o.id /\ q.file = o.file
                                                          /\ q.type = o.type
               /\ \A q \in e.queue : q \in d.queue \/ Turned(d, q, f, type)
               /\ HasRow(d, f) => \E q \in e.queue : Turned(d, q, f, type)
<1> DEFINE C == Coalesced(d, f, type)
           e == Upsert(d, f, type, from, to)
<1>1. CASE ~HasRow(d, f)
  BY <1>1 DEF Upsert
<1>2. CASE HasRow(d, f) /\ C # {}
  <2> DEFINE new(o) == IF o \in C THEN [o EXCEPT !.status = "Pending", !.from = from, !.to = to]
                       ELSE o
  <2>1. \A o \in d.queue : /\ new(o).id = o.id /\ new(o).file = o.file /\ new(o).type = o.type
                           /\ o \notin C => new(o) = o
    BY DEF Database, Op
  <2>2. e.files = d.files /\ e.queue = {new(o) : o \in d.queue}
    BY <1>2 DEF Upsert, Database
  <2>3. \A o \in C : o \in d.queue /\ o.file = f /\ o.type = type /\ o.status \in Runnable
    BY DEF Coalesced
  <2> HIDE DEF C, new, e
  <2>4. \A o \in d.queue : \E q \in e.queue : q.id = o.id /\ q.file = o.file /\ q.type = o.type
    BY <2>1, <2>2
  <2>5. \A o \in C : Turned(d, new(o), f, type)
    BY <2>1, <2>3 DEF Turned
  <2>6. \A q \in e.queue : q \in d.queue \/ Turned(d, q, f, type)
    BY <2>1, <2>2, <2>5
  <2>7. \E q \in e.queue : Turned(d, q, f, type)
    BY <1>2, <2>2, <2>3, <2>5
  <2>8. QED
    BY <1>2, <2>2, <2>4, <2>6, <2>7 DEF e
<1>3. CASE HasRow(d, f) /\ C = {}
  <2> DEFINE op == [id |-> NewOpId(d), file |-> f, type |-> type,
                    status |-> "Pending", from |-> from, to |-> to]
  <2>1. e.files = d.files /\ e.queue = d.queue \cup {op}
    BY <1>3 DEF Upsert, Database
  <2>2. Turned(d, op, f, type)
    BY DEF NewOpId, Turned
  <2> HIDE DEF op
  <2>3. QED
    BY <1>3, <2>1, <2>2
<1>4. QED
  BY <1>1, <1>2, <1>3

LEMMA UpsertAgrees ==
    ASSUME NEW T, NEW d \in Database, Agrees(T, d), NEW f, NEW type, NEW from, NEW to,
           type = "RefreshTree" \/ (type = "Upload" /\ FileOf(d, f))
    PROVE  LET e == Upsert(d, f, type, from, to) IN Agrees(T, e) /\ Carries(d, e, {})
<1> DEFINE e == Upsert(d, f, type, from, to)
<1>1. /\ e.files = d.files
      /\ \A o \in d.queue : \E q \in e.queue : q.id = o.id /\ q.file = o.file /\ q.type = o.type
      /\ \A q \in e.queue : q \in d.queue \/ (q.file = f /\ q.type = type)
  BY UpsertQueue DEF Turned
<1>2. \A q \in e.queue : q.type = "RefreshTree" \/ (q.type = "Upload" /\ FileOf(d, q.file))
  BY <1>1 DEF Agrees
<1> HIDE DEF e
<1>3. QED
  BY <1>1, <1>2, QueueAgrees, QueueCarries DEF e
-----------------------------------------------------------------------------
(* Statements that change a row, and neither its path nor its kind.           *)
Painted(d, e, f) ==
    /\ e.queue = d.queue
    /\ \A q \in e.files : \E r \in d.files : /\ q.id = r.id /\ q.path = r.path /\ q.kind = r.kind
                                             /\ r.id # f => q = r
    /\ \A r \in d.files : \E q \in e.files : /\ q.id = r.id /\ q.path = r.path /\ q.kind = r.kind
                                             /\ r.id # f => q = r

LEMMA PaintedAgrees ==
    ASSUME NEW T, NEW d, Tidy(d), Agrees(T, d), NEW f, FileOf(d, f), NEW e, Painted(d, e, f),
           \A q \in RowOf(e, f) : \/ q.sync \in Unsynced
                                  \/ q.sync = "Synced" /\ \E x \in Meta(T, q.path) : x.ver = q.ver
    PROVE  /\ Agrees(T, e) /\ Carries(d, e, {f})
           /\ (\A q \in RowOf(e, f) : q.sync \in Unsynced) => Carries(d, e, {})
<1>1. \A g : FileOf(d, g) => FileOf(e, g)
  BY DEF FileOf, RowOf, Painted
<1>2. \A r \in d.files : r.id = f => r.kind = "File"
  BY DEF FileOf, RowOf, Tidy, IdsOnce
<1>3. ASSUME NEW q \in e.files PROVE RowFits(T, q)
  <2>1. PICK r \in d.files : /\ q.id = r.id /\ q.path = r.path /\ q.kind = r.kind
                             /\ r.id # f => q = r
    BY <1>3 DEF Painted
  <2>2. RowFits(T, r)
    BY DEF Agrees
  <2>3. CASE r.id # f
    BY <2>1, <2>2, <2>3
  <2>4. CASE r.id = f
    <3>1. q.kind = "File" /\ q \in RowOf(e, f)
      BY <1>2, <1>3, <2>1, <2>4 DEF RowOf
    <3>2. "Synced" \notin Unsynced
      BY DEF Unsynced
    <3>3. QED
      BY <2>1, <2>2, <3>1, <3>2 DEF RowFits
  <2>5. QED
    BY <2>3, <2>4
<1>4. Agrees(T, e)
  BY <1>1, <1>3 DEF Agrees, Painted, RowAt
<1>5. \A r \in d.files : Placed(e, r)
  BY DEF Painted, Placed, RowOf
<1>6. ASSUME NEW g, g # f \/ \A q \in RowOf(e, f) : q.sync \in Unsynced,
             \A q \in RowOf(d, g) : q.sync # "Synced"
      PROVE  \A r \in RowOf(e, g) : r.sync # "Synced"
  <2>1. CASE g # f
    BY <1>6, <2>1 DEF Painted, RowOf
  <2>2. CASE g = f
    BY <1>6, <2>2 DEF Unsynced
  <2>3. QED
    BY <2>1, <2>2
<1>7. QED
  BY <1>1, <1>4, <1>5, <1>6 DEF Carries, Painted

LEMMA SetSyncPaints ==
    ASSUME NEW d \in Database, NEW f, NEW s
    PROVE  LET e == SetSync(d, f, s)
           IN  Painted(d, e, f) /\ \A q \in RowOf(e, f) : q.sync = s
<1> DEFINE new(r) == IF r.id = f THEN [r EXCEPT !.sync = s] ELSE r
           e == SetSync(d, f, s)
<1>1. \A r \in d.files : /\ new(r).id = r.id /\ new(r).path = r.path /\ new(r).kind = r.kind
                         /\ r.id # f => new(r) = r
                         /\ r.id = f => new(r).sync = s
  BY DEF Database, Row
<1>2. e.queue = d.queue /\ e.files = {new(r) : r \in d.files}
  BY DEF SetSync, Database
<1> HIDE DEF new, e
<1>3. QED
  BY <1>1, <1>2 DEF Painted, RowOf, e

LEMMA SetCachedPaints ==
    ASSUME NEW d \in Database, NEW f, NEW s
    PROVE  LET e == SetCached(d, f, s)
           IN  Painted(d, e, f) /\ \A q \in RowOf(e, f) : q.sync = s
<1> DEFINE new(r) == IF r.id = f THEN [r EXCEPT !.sync = s, !.cached = TRUE] ELSE r
           e == SetCached(d, f, s)
<1>1. \A r \in d.files : /\ new(r).id = r.id /\ new(r).path = r.path /\ new(r).kind = r.kind
                         /\ r.id # f => new(r) = r
                         /\ r.id = f => new(r).sync = s
  BY DEF Database, Row
<1>2. e.queue = d.queue /\ e.files = {new(r) : r \in d.files}
  BY DEF SetCached, Database
<1> HIDE DEF new, e
<1>3. QED
  BY <1>1, <1>2 DEF Painted, RowOf, e

LEMMA SetSyncedPaints ==
    ASSUME NEW d \in Database, NEW f, NEW v
    PROVE  LET e == SetSynced(d, f, v)
           IN  Painted(d, e, f) /\ \A q \in RowOf(e, f) : q.sync = "Synced" /\ q.ver = v
<1> DEFINE new(r) == IF r.id = f THEN [r EXCEPT !.sync = "Synced", !.ver = v] ELSE r
           e == SetSynced(d, f, v)
<1>1. \A r \in d.files : /\ new(r).id = r.id /\ new(r).path = r.path /\ new(r).kind = r.kind
                         /\ r.id # f => new(r) = r
                         /\ r.id = f => new(r).sync = "Synced" /\ new(r).ver = v
  BY DEF Database, Row
<1>2. e.queue = d.queue /\ e.files = {new(r) : r \in d.files}
  BY DEF SetSynced, Database
<1> HIDE DEF new, e
<1>3. QED
  BY <1>1, <1>2 DEF Painted, RowOf, e
-----------------------------------------------------------------------------
(* Every operation with the id is leased.                                     *)
Taken(d, i) == \A o \in d.queue : o.id = i => o.status = "Leased"

LEMMA UpsertTaken ==
    ASSUME NEW d \in Database, NEW f, NEW type, NEW from, NEW to,
           NEW i \in Nat, i < d.nextOp, Taken(d, i)
    PROVE  Taken(Upsert(d, f, type, from, to), i)
<1> DEFINE e == Upsert(d, f, type, from, to)
<1>1. \A q \in e.queue : q \in d.queue \/ Turned(d, q, f, type)
  BY UpsertQueue
<1>2. \A q : Turned(d, q, f, type) => q.id # i
  BY DEF Turned, Taken, Runnable, Database
<1>3. QED
  BY <1>1, <1>2 DEF Taken

(* After a write the file waits for an upload, which is not the one that is   *)
(* leased.                                                                    *)
LEMMA UpsertDue ==
    ASSUME NEW d \in Database, NEW f, FileOf(d, f), NEW from, NEW to, NEW ending,
           \A j \in ending : j.id \in Nat /\ j.id < d.nextOp /\ Taken(d, j.id)
    PROVE  Due(Upsert(d, f, "Upload", from, to), f, ending)
<1> DEFINE e == Upsert(d, f, "Upload", from, to)
<1>1. PICK q \in e.queue : Turned(d, q, f, "Upload")
  <2>1. HasRow(d, f)
    BY DEF FileOf, HasRow
  <2>2. QED
    BY <2>1, UpsertQueue
<1>2. \A j \in ending : q.id # j.id
  BY <1>1 DEF Turned, Taken, Runnable, Database
<1>3. q.file = f /\ q.type = "Upload"
  BY <1>1 DEF Turned
<1> HIDE DEF e
<1>4. Due(e, f, ending)
  BY <1>2, <1>3 DEF Due
<1>5. QED
  BY <1>4 DEF e

LEMMA UnsyncedDue ==
    ASSUME NEW d, NEW f, \A q \in RowOf(d, f) : q.sync \in Unsynced PROVE Due(d, f, {})
BY DEF Due, Unsynced

(* retry_or_fail for an upload: the file is in Error, and waits.              *)
LEMMA RetryOrFailAgrees ==
    ASSUME NEW T, NEW d \in Database, Tidy(d), Agrees(T, d), NEW o, FileOf(d, o.file),
           \A q \in d.queue : q.id = o.id => q.file = o.file, NEW again
    PROVE  LET e == RetryOrFail(d, o, again)
           IN  Agrees(T, e) /\ Carries(d, e, {o.file}) /\ Due(e, o.file, {})
<1> DEFINE c == IF again THEN SetStatus(d, o.id, "Retryable") ELSE DropOp(d, o.id)
           e == SetSync(c, o.file, "Error")
<1>1. Agrees(T, c) /\ Carries(d, c, {o.file})
  <2>1. /\ Agrees(T, SetStatus(d, o.id, "Retryable"))
        /\ Carries(d, SetStatus(d, o.id, "Retryable"), {o.file})
    BY SetStatusAgrees, CarriesMore
  <2>2. Agrees(T, DropOp(d, o.id)) /\ Carries(d, DropOp(d, o.id), {o.file})
    BY DropOpAgrees
  <2>3. QED
    BY <2>1, <2>2
<1>2. c.files = d.files /\ [c EXCEPT !.files = c.files] = c
  BY DEF SetStatus, DropOp, Database
<1>3. Painted(c, e, o.file) /\ \A q \in RowOf(e, o.file) : q.sync = "Error"
  <2> DEFINE new(r) == IF r.id = o.file THEN [r EXCEPT !.sync = "Error"] ELSE r
  <2>1. \A r \in c.files : /\ new(r).id = r.id /\ new(r).path = r.path /\ new(r).kind = r.kind
                           /\ r.id # o.file => new(r) = r
                           /\ r.id = o.file => new(r).sync = "Error"
    BY <1>2 DEF Database, Row
  <2>2. e.queue = c.queue /\ e.files = {new(r) : r \in c.files}
    BY <1>2 DEF SetSync, SetStatus, DropOp, Database
  <2> HIDE DEF new, e
  <2>3. QED
    BY <2>1, <2>2 DEF Painted, RowOf
<1>4. Tidy(c) /\ FileOf(c, o.file)
  BY <1>2 DEF Tidy, IdsOnce, PathsOnce, FileOf, RowOf
<1>5. \A q \in RowOf(e, o.file) : q.sync \in Unsynced
  BY <1>3 DEF Unsynced
<1>6. Agrees(T, e) /\ Carries(c, e, {o.file}) /\ Due(e, o.file, {})
  <2> HIDE DEF c, e
  <2>1. QED
    BY <1>1, <1>3, <1>4, <1>5, PaintedAgrees, UnsyncedDue
<1>7. Carries(d, e, {o.file})
  <2> HIDE DEF c, e
  <2>1. QED
    BY <1>1, <1>6, CarriesOn
<1>8. RetryOrFail(d, o, again) = e
  BY DEF RetryOrFail
<1> HIDE DEF e
<1>9. QED
  BY <1>6, <1>7, <1>8

(* create_file: a new row at a path that leads through directories.           *)
LEMMA InsertAgrees ==
    ASSUME NEW T, NEW d \in Database, Agrees(T, d), NEW row, row.id \notin Ids(d),
           RowFits(T, row)
    PROVE  LET e == InsertRow(d, row) IN Agrees(T, e) /\ Carries(d, e, {})
<1> DEFINE e == InsertRow(d, row)
<1>1. e.files = d.files \cup {row} /\ e.queue = d.queue
  BY DEF InsertRow, Database
<1>2. \A f : RowOf(d, f) # {} => f # row.id
  BY DEF RowOf, Ids
<1> HIDE DEF e
<1>3. \A f : FileOf(d, f) => FileOf(e, f) /\ RowOf(e, f) = RowOf(d, f)
  BY <1>1, <1>2 DEF FileOf, RowOf
<1>4. Agrees(T, e)
  BY <1>1, <1>3 DEF Agrees, RowAt
<1>5. \A r \in d.files : Placed(e, r)
  BY <1>1 DEF Placed, RowOf
<1>6. Carries(d, e, {})
  BY <1>1, <1>3, <1>5 DEF Carries
<1>7. QED
  BY <1>4, <1>6 DEF e
-----------------------------------------------------------------------------
(* The remote tree hangs from its root.                                       *)
Treed(T) ==
    /\ T \subseteq Resource /\ Tree(T)
    /\ \E y \in Meta(T, RootPath) : y.kind = "Dir"
    /\ \A x \in T : Led(T, x.path)

(* ensure_remote_row for a resource of the tree: what waits to be uploaded    *)
(* goes on waiting.                                                            *)
LEMMA EnsureAgrees ==
    ASSUME NEW T, Treed(T), NEW d \in Database, Tidy(d), Agrees(T, d), NEW res \in T,
           NEW id, id \notin Ids(d)
    PROVE  LET e == EnsureRemoteRow(d, res, "Synced", id)
           IN  Agrees(T, e) /\ Carries(d, e, {})
<1> DEFINE e == EnsureRemoteRow(d, res, "Synced", id)
           row == [id |-> id, path |-> res.path, kind |-> res.kind,
                   sync |-> "Synced", ver |-> res.ver, cached |-> FALSE]
           new(r) == IF r.path = res.path
                     THEN [r EXCEPT !.kind = res.kind, !.ver = res.ver,
                                    !.sync = IF r.sync \in Protected THEN r.sync ELSE "Synced"]
                     ELSE r
<1>0. /\ res \in Meta(T, res.path) /\ Led(T, res.path) /\ res.kind \in Kind
      /\ res.kind = "File" => res.path # RootPath
      /\ \A x \in Meta(T, res.path) : x = res
  BY DEF Treed, Tree, Meta, Resource
<1>1. CASE RowAt(d, res.path) = {}
  <2>1. RowFits(T, row)
    BY <1>0 DEF RowFits, Kind
  <2>2. row.id \notin Ids(d) /\ e = InsertRow(d, row)
    BY <1>1 DEF EnsureRemoteRow
  <2> HIDE DEF row, e
  <2>3. QED
    BY <2>1, <2>2, InsertAgrees DEF e
<1>2. CASE RowAt(d, res.path) # {}
  <2>1. \A r \in d.files : r.path = res.path => r.kind = res.kind
    <3>1. ASSUME NEW r \in d.files, r.path = res.path PROVE r.kind = res.kind
      <4>1. CASE res.kind = "Dir"
        BY <3>1, <4>1 DEF Agrees, RowAt, Tidy, PathsOnce
      <4>2. CASE r.kind = "Dir"
        BY <1>0, <3>1, <4>2 DEF Agrees, RowFits
      <4>3. QED
        BY <1>0, <4>1, <4>2 DEF Database, Row, Kind
    <3>2. QED
      BY <3>1
  <2>2. \A r \in d.files : /\ new(r).id = r.id /\ new(r).path = r.path
                           /\ r.path # res.path => new(r) = r
                           /\ r.path = res.path =>
                                 /\ new(r).kind = res.kind /\ new(r).ver = res.ver
                                 /\ new(r).sync = IF r.sync \in Protected THEN r.sync ELSE "Synced"
    BY DEF Database, Row
  <2>3. e.queue = d.queue /\ e.files = {new(r) : r \in d.files}
    BY <1>2 DEF EnsureRemoteRow, Database
  <2> HIDE DEF new, e
  <2>4. \A r \in d.files : new(r).kind = r.kind
    BY <2>1, <2>2
  <2>5. ASSUME NEW r \in d.files
        PROVE  /\ RowFits(T, new(r))
               /\ new(r).sync = "Synced" => r.sync = "Synced" \/ r.kind = "Dir"
    <3>1. RowFits(T, r)
      BY DEF Agrees
    <3>2. CASE r.path # res.path
      BY <2>2, <3>1, <3>2
    <3>3. CASE r.path = res.path
      <4>1. Unsynced \subseteq Protected /\ "Synced" \notin Protected /\ "Placeholder" \notin Protected
        BY DEF Unsynced, Protected
      <4>2. QED
        BY <1>0, <2>1, <2>2, <3>1, <3>3, <4>1 DEF RowFits, Kind
    <3>4. QED
      BY <3>2, <3>3
  <2>6. \A f : FileOf(d, f) => FileOf(e, f)
    BY <2>2, <2>3, <2>4 DEF FileOf, RowOf
  <2>7. \A x \in T : x.kind = "Dir" => \E r \in RowAt(e, x.path) : r.kind = "Dir"
    <3>1. ASSUME NEW x \in T, x.kind = "Dir" PROVE \E r \in RowAt(e, x.path) : r.kind = "Dir"
      <4>1. PICK r \in RowAt(d, x.path) : r.kind = "Dir"
        BY <3>1 DEF Agrees
      <4>2. new(r) \in RowAt(e, x.path) /\ new(r).kind = "Dir"
        BY <2>2, <2>3, <2>4, <4>1 DEF RowAt
      <4>3. QED
        BY <4>2
    <3>2. QED
      BY <3>1
  <2>8. Agrees(T, e)
    BY <2>3, <2>5, <2>6, <2>7 DEF Agrees
  <2>9. \A r \in d.files : Placed(e, r)
    <3>1. \A r \in d.files : new(r) \in RowOf(e, r.id) /\ new(r).path = r.path /\ new(r).kind = r.kind
      BY <2>2, <2>3, <2>4 DEF RowOf
    <3>2. QED
      BY <3>1 DEF Placed
  <2>10. ASSUME NEW f, FileOf(d, f), \A q \in RowOf(d, f) : q.sync # "Synced",
                NEW q \in RowOf(e, f)
         PROVE  q.sync # "Synced"
    <3>1. PICK r \in d.files : q = new(r) /\ r.id = f
      BY <2>2, <2>3 DEF RowOf
    <3>2. r.kind # "Dir"
      BY <2>10, <3>1 DEF FileOf, RowOf, Tidy, IdsOnce
    <3>3. QED
      BY <2>5, <2>10, <3>1, <3>2 DEF RowOf
  <2>11. Carries(d, e, {})
    BY <2>3, <2>6, <2>9, <2>10 DEF Carries
  <2>12. QED
    BY <2>8, <2>11 DEF e
<1>3. QED
  BY <1>1, <1>2
-----------------------------------------------------------------------------
(* A conflict copy is beside its file.                                        *)
LEMMA CopyLed ==
    ASSUME NEW T, NEW d, NEW p \in Path, p # RootPath, Led(T, p),
           NEW cp \in NextConflictPaths(d, p)
    PROVE  cp # RootPath /\ Led(T, cp)
<1>1. cp \in Path /\ Len(cp) = Len(p) /\ \A i \in 1 .. Len(p) - 1 : cp[i] = p[i]
  BY CopyBeside
<1>2. Len(p) \in Nat \ {0} /\ \A i \in 1 .. Len(p) : p[i] \in Name /\ cp[i] \in Name
  BY <1>1, EmptySeq, LenProperties, ElementOfSeq DEF Path, RootPath
<1>3. ASSUME NEW k \in 0 .. Len(p) - 1 PROVE SubSeq(cp, 1, k) = SubSeq(p, 1, k)
  <2>1. /\ SubSeq(p, 1, k) \in Seq(Name) /\ Len(SubSeq(p, 1, k)) = k
        /\ \A i \in 1 .. k : SubSeq(p, 1, k)[i] = p[i]
    BY <1>2, SubSeqProperties DEF Path
  <2>2. /\ SubSeq(cp, 1, k) \in Seq(Name) /\ Len(SubSeq(cp, 1, k)) = k
        /\ \A i \in 1 .. k : SubSeq(cp, 1, k)[i] = cp[i]
    BY <1>1, <1>2, SubSeqProperties DEF Path
  <2>3. QED
    BY <1>1, <2>1, <2>2, SeqEqual
<1>4. QED
  BY <1>1, <1>2, <1>3 DEF Led, RootPath
-----------------------------------------------------------------------------
(* Nothing is below the row of a file: what leads through the path would have *)
(* made it a directory, and what only matches it is a clash.                  *)
LEMMA NothingBelow ==
    ASSUME NEW T, Treed(T), NEW d \in Database, Tidy(d), Agrees(T, d), NEW q \in d.files,
           q.kind = "File", NEW cp \in Path, Clash(d, q.path, cp) = {}, NEW r \in d.files
    PROVE  ~Below(q.path, r.path)
<1> DEFINE p == q.path
<1>1. p \in Path /\ r.path \in Path /\ Len(p) \in Nat /\ Len(r.path) \in Nat
  BY DEF Database, Row, Path
<1>2. SUFFICES ASSUME Below(p, r.path) PROVE FALSE
  OBVIOUS
<1>3. Len(p) < Len(r.path)
  BY <1>2 DEF Below
<1>4. CASE IsPrefix(p, r.path)
  <2>1. p = SubSeq(r.path, 1, Len(p)) /\ Len(p) \in 0 .. Len(r.path) - 1
    BY <1>1, <1>3, <1>4, WholePath DEF IsPrefix
  <2>2. PICK y \in Meta(T, SubSeq(r.path, 1, Len(p))) : y.kind = "Dir"
    BY <2>1 DEF Agrees, RowFits, Led
  <2>3. y \in T /\ y.path = p
    BY <2>1, <2>2 DEF Meta
  <2>4. PICK g \in RowAt(d, p) : g.kind = "Dir"
    BY <2>2, <2>3 DEF Agrees
  <2>5. QED
    BY <2>4 DEF RowAt, Tidy, PathsOnce
<1>5. CASE ~IsPrefix(p, r.path)
  <2>1. Target(r.path, p, cp) = cp /\ Target(p, p, cp) = cp
    BY <1>1, <1>5, SelfMoved DEF Target
  <2>2. r \in Subtree(d, p) /\ q \in Subtree(d, p) /\ q # r
    BY <1>2, <1>3 DEF Subtree
  <2>3. r \in Clash(d, p, cp)
    BY <1>1, <1>3, <2>1, <2>2 DEF Clash
  <2>4. QED
    BY <2>3
<1>6. QED
  BY <1>4, <1>5

(* What apply_conflict_locked leaves in the queue: of the file, an upload.    *)
LEMMA AsideQueue ==
    ASSUME NEW d, Sound(d), NEW f \in FileId, NEW from \in Path, NEW cp \in Path,
           HasRow(ApplyConflict(d, f, from, cp), f)
    PROVE  LET e == ApplyConflict(d, f, from, cp)
           IN  /\ \A o \in d.queue : o.file # f => \E q \in e.queue :
                      q.id = o.id /\ q.file = o.file /\ q.type = o.type
               /\ \A q \in e.queue : \/ q \in d.queue /\ q.file # f
                                     \/ q.file = f /\ q.type = "Upload"
               /\ \E q \in e.queue : q.file = f /\ q.type = "Upload"
<1> DEFINE aside == ForgetVersion(RenameSubtree(d, from, cp), f)
           c == DropOpsOf(aside, f)
           g == Upsert(c, f, "Upload", cp, RootPath)
           e == ApplyConflict(d, f, from, cp)
<1>1. d \in Database /\ aside \in Database /\ aside.queue = d.queue
  <2>1. Follows(d, RenameSubtree(d, from, cp)) /\ Follows(d, aside)
    BY RenameSubtreeFollows, AsideFollows
  <2>2. QED
    BY <2>1 DEF Follows, Sound, ForgetVersion, RenameSubtree, MoveRows, Database
<1>2. e = [g EXCEPT !.copies = @ \cup {<<f, cp>>}]
  BY DEF ApplyConflict, UpsertAlone
<1> HIDE DEF aside, e
<1>3. c \in Database /\ c.queue = {o \in d.queue : o.file # f} /\ c.files = aside.files
  BY <1>1 DEF DropOpsOf, Database
<1> HIDE DEF c
<1>4. g \in Database /\ e.queue = g.queue /\ e.files = g.files
  <2>1. Sound(aside)
    BY AsideFollows DEF Follows, aside
  <2>2. g = UpsertAlone(aside, f, "Upload", cp, RootPath)
    BY DEF UpsertAlone, c
  <2> HIDE DEF g
  <2>3. Follows(aside, UpsertAlone(aside, f, "Upload", cp, RootPath))
    BY <2>1, UpsertAloneFollows, RootTypes DEF OpType
  <2>4. QED
    BY <1>2, <2>2, <2>3 DEF Follows, Sound, Database
<1>5. HasRow(c, f)
  <2>1. g.files = c.files
    BY <1>3, UpsertQueue
  <2>2. QED
    BY <1>4, <2>1 DEF HasRow, RowOf, e
<1>6. /\ \A o \in c.queue : \E q \in g.queue : q.id = o.id /\ q.file = o.file /\ q.type = o.type
      /\ \A q \in g.queue : q \in c.queue \/ Turned(c, q, f, "Upload")
      /\ \E q \in g.queue : Turned(c, q, f, "Upload")
  BY <1>3, <1>5, UpsertQueue
<1> HIDE DEF g
<1>7. QED
  BY <1>3, <1>4, <1>6 DEF Turned, e
(* apply_conflict_locked for a file: it waits for the upload of its copy, and *)
(* what waits elsewhere goes on waiting.                                       *)
LEMMA ConflictAgrees ==
    ASSUME NEW T, Treed(T), NEW d, Sound(d), Tidy(d), Agrees(T, d),
           NEW q \in d.files, q.kind = "File", NEW cp \in NextConflictPaths(d, q.path),
           ~ConflictFails(d, q.id, q.path, cp)
    PROVE  LET e == ApplyConflict(d, q.id, q.path, cp)
           IN  /\ e \in Database /\ Tidy(e) /\ Ids(e) \subseteq Ids(d)
               /\ Agrees(T, e) /\ Carries(d, e, {q.id}) /\ Due(e, q.id, {})
<1> DEFINE f == q.id
           p == q.path
           e == ApplyConflict(d, f, p, cp)
           copy == Copied(q, cp)
<1>1. /\ d \in Database /\ q \in Row /\ p \in Path /\ f \in FileId /\ cp \in Path
      /\ Clash(d, p, cp) = {}
  BY NextConflictPathsType DEF Sound, Database, Row, ConflictFails
<1>2. p # RootPath /\ RowFits(T, q)
  BY DEF Agrees, RowFits
<1>3. \A r \in d.files : ~Below(p, r.path)
  BY <1>1, NothingBelow
<1>4. e.files = (d.files \ {q}) \cup {copy}
  BY <1>1, <1>3, AsideRows
<1>5. copy.id = f /\ copy.path = cp /\ copy.kind = "File" /\ copy.sync = "QueuedUpload"
  BY <1>1 DEF Copied, Row
<1>6. e \in Database /\ Tidy(e) /\ Ids(e) \subseteq Ids(d)
  <2>1. Follows(d, e)
    BY <1>1, ApplyConflictFollows
  <2>2. Kept(d, e, {})
    BY <1>1, ApplyConflictKept
  <2>3. QED
    BY <2>1, <2>2 DEF Follows, Sound, Kept
<1> HIDE DEF copy, e
<1>7. HasRow(e, f)
  BY <1>4, <1>5 DEF HasRow, RowOf
<1>8. /\ \A o \in d.queue : o.file # f => \E i \in e.queue :
             i.id = o.id /\ i.file = o.file /\ i.type = o.type
      /\ \A o \in e.queue : (o \in d.queue /\ o.file # f) \/ (o.file = f /\ o.type = "Upload")
      /\ \E o \in e.queue : o.file = f /\ o.type = "Upload"
  BY <1>1, <1>7, AsideQueue DEF e
<1>9. FileOf(e, f) /\ \A g : g # f => RowOf(e, g) = RowOf(d, g)
  BY <1>4, <1>5 DEF FileOf, RowOf
<1>10. \A g : FileOf(d, g) => FileOf(e, g)
  BY <1>9 DEF FileOf
<1>11. RowFits(T, copy)
  <2>1. cp # RootPath /\ Led(T, cp)
    BY <1>1, <1>2, CopyLed DEF RowFits
  <2>2. QED
    BY <1>5, <2>1 DEF RowFits, Unsynced
<1>12. Agrees(T, e)
  <2>1. \A o \in e.queue : o.type = "RefreshTree" \/ (o.type = "Upload" /\ FileOf(e, o.file))
    BY <1>8, <1>9, <1>10 DEF Agrees
  <2>2. \A r \in e.files : RowFits(T, r)
    BY <1>4, <1>11 DEF Agrees
  <2>3. \A x \in T : x.kind = "Dir" => \E r \in RowAt(e, x.path) : r.kind = "Dir"
    BY <1>4 DEF Agrees, RowAt
  <2>4. QED
    BY <2>1, <2>2, <2>3 DEF Agrees
<1>13. Carries(d, e, {f})
  <2>1. \A r \in d.files : r.id # f => Placed(e, r)
    BY <1>4 DEF Placed, RowOf
  <2>2. QED
    BY <1>8, <1>9, <1>10, <2>1 DEF Carries
<1>14. Due(e, f, {})
  BY <1>8 DEF Due
<1>15. QED
  BY <1>6, <1>12, <1>13, <1>14 DEF e
-----------------------------------------------------------------------------
(* process_upload, retry_or_fail, and process_refresh_tree.                   *)
UploadPc == {"u_mark", "u_check", "u_conflict", "u_put", "u_fetch", "u_commit", "u_finish", "fail"}
TreePc   == {"f_list", "f_snap", "f_begin", "f_apply", "f_done"}

(* The upload that has been sent and will be marked as done.                  *)
Late(v) == IF v.pc \in {"u_fetch", "u_commit"} THEN {v.job} ELSE {}

(* A call holds a new file beside what is on the disk, or one that has a row. *)
CallFits(c, T, bytes, D) ==
    /\ c.pc \in {"idle", "create", "copy", "apply"}
    /\ c.pc = "create" => /\ c.entry.kind = "File" /\ c.entry.path # RootPath
                          /\ Led(T, c.entry.path) /\ bytes[c.entry.id] # NoData
    /\ c.pc \in {"copy", "apply"} => \A d \in D : FileOf(d, c.entry.id)
    /\ c.pc = "apply" => c.data # NoData

(* The worker uploads a file that has its row where it was, or refreshes.     *)
JobFits(v, d, T) ==
    /\ v.pc \in UploadPc \cup TreePc \cup {"idle", "start"}
    /\ v.pc \in UploadPc => v.job.type = "Upload"
    /\ v.pc \in TreePc => v.job.type = "RefreshTree"
    /\ v.pc = "start" => v.job.type \in {"Upload", "RefreshTree"}
    /\ v.pc # "idle" /\ v.job.type = "Upload" => FileOf(d, v.job.file) /\ Taken(d, v.job.id)
    /\ v.pc \in UploadPc \ {"u_finish", "fail"} =>
          \E r \in RowOf(d, v.job.file) : r.path = v.entry.path
    /\ v.pc \in UploadPc \ {"u_mark", "u_finish"} =>
          \A r \in RowOf(d, v.job.file) : r.sync # "Synced"
    /\ v.pc \in {"u_conflict", "u_commit"} => v.meta = Meta(T, v.entry.path)

(* A refresh has the rows where its snapshot has them, as long as it has not  *)
(* treated them.                                                              *)
SnapFits(v, d, T) ==
    /\ v.pc \in {"f_begin", "f_apply"} =>
          \A l \in v.snap : RowFits(T, l) /\ \A k \in v.snap : k.id = l.id => k = l
    /\ v.pc = "f_begin" => \A l \in v.snap : Placed(d, l)
    /\ v.pc = "f_apply" =>
          /\ v.todo \subseteq v.seen
          /\ v.gone \subseteq {l \in v.snap : l.path # RootPath /\ ~Exists(v.seen, l.path)}
          /\ \A l \in v.snap : l \in v.gone \/ Exists(v.todo, l.path) => Placed(v.tx, l)

(* What is true while no other client has changed the tree.                   *)
Solo ==
    /\ Treed(remote)
    /\ \A d \in Stores : Agrees(remote, d) /\ Owing(d, edit, Late(w))
    /\ \A t \in Thread : CallFits(th[t], remote, cache, Stores)
    /\ JobFits(w, db, remote)
    /\ SnapFits(w, db, remote)
-----------------------------------------------------------------------------
LEMMA SoloFacts ==
    ASSUME Inv, Safe, Solo
    PROVE  /\ db \in Database /\ Sound(db) /\ Tidy(db) /\ Ids(db) \subseteq born \ Reserved
           /\ Agrees(remote, db) /\ Owing(db, edit, Late(w)) /\ db \in Stores
           /\ ~Locked => Stores = {db}
           /\ Locked => /\ Stores = {db, w.tx} /\ Agrees(remote, w.tx) /\ Owing(w.tx, edit, {})
                        /\ Sound(w.tx) /\ w.tx \in Database /\ Tidy(w.tx)
                        /\ Ids(w.tx) \subseteq born \ Reserved
<1>1. db \in Stores /\ (~Locked => Stores = {db}) /\ (Locked => Stores = {db, w.tx})
  BY DEF Stores
<1>2. Sound(db) /\ (Locked => Sound(w.tx))
  BY DEF Inv, TxSound, Locked
<1>3. \A d \in Stores : Tidy(d) /\ Ids(d) \subseteq born \ Reserved
  BY DEF Safe, StoresOK
<1>4. \A d \in Stores : Agrees(remote, d) /\ Owing(d, edit, Late(w))
  BY DEF Solo
<1>5. Locked => Late(w) = {}
  BY DEF Locked, Late
<1>6. QED
  BY <1>1, <1>2, <1>3, <1>4, <1>5 DEF Sound

LEMMA JobFacts ==
    ASSUME Inv, w.pc # "idle"
    PROVE  /\ w.job.id \in Nat /\ w.job.id < db.nextOp
           /\ \A o \in db.queue : o.id = w.job.id => o.file = w.job.file /\ o.type = w.job.type
BY WorkerTypes DEF Inv, JobHeld, Held

(* What leaves the rows where they are leaves the worker where it is.         *)
LEMMA JobFitsOn ==
    ASSUME NEW v, NEW d, NEW e, NEW T, JobFits(v, d, T), SnapFits(v, d, T),
           v.pc # "idle" => v.job.id \in Nat /\ v.job.id < d.nextOp,
           Carries(d, e, {}), \A i \in Nat : i < d.nextOp /\ Taken(d, i) => Taken(e, i)
    PROVE  JobFits(v, e, T) /\ SnapFits(v, e, T)
<1>1. \A l : Placed(d, l) => Placed(e, l)
  <2>1. ASSUME NEW l, Placed(d, l) PROVE Placed(e, l)
    <3>1. PICK r \in d.files : r.id = l.id /\ r.path = l.path /\ r.kind = l.kind
      BY <2>1 DEF Placed, RowOf
    <3>2. Placed(e, r)
      BY DEF Carries
    <3>3. QED
      BY <3>1, <3>2 DEF Placed
  <2>2. QED
    BY <2>1
<1>2. \A f, p : (\E r \in RowOf(d, f) : r.path = p) => \E r \in RowOf(e, f) : r.path = p
  <2>1. ASSUME NEW f, NEW p, NEW r \in RowOf(d, f), r.path = p
        PROVE  \E q \in RowOf(e, f) : q.path = p
    <3>1. Placed(d, r) /\ r.id = f
      BY DEF Placed, RowOf
    <3>2. QED
      BY <1>1, <2>1, <3>1 DEF Placed
  <2>2. QED
    BY <2>1
<1>3. v.pc \in UploadPc \ {"u_mark", "u_finish"} =>
          \A r \in RowOf(e, v.job.file) : r.sync # "Synced"
  <2>1. SUFFICES ASSUME v.pc \in UploadPc \ {"u_mark", "u_finish"}
                 PROVE  \A r \in RowOf(e, v.job.file) : r.sync # "Synced"
    OBVIOUS
  <2>2. FileOf(d, v.job.file) /\ \A r \in RowOf(d, v.job.file) : r.sync # "Synced"
    BY <2>1 DEF JobFits, UploadPc
  <2>3. QED
    BY <2>2 DEF Carries
<1>4. v.pc # "idle" /\ v.job.type = "Upload" => FileOf(e, v.job.file) /\ Taken(e, v.job.id)
  BY DEF JobFits, Carries
<1>5. JobFits(v, e, T)
  BY <1>2, <1>3, <1>4 DEF JobFits
<1>6. SnapFits(v, e, T)
  BY <1>1 DEF SnapFits
<1>7. QED
  BY <1>5, <1>6
-----------------------------------------------------------------------------
(* A step of a call on the database.                                          *)
LEMMA CallSolo ==
    ASSUME Inv, Safe, Solo, ~Locked, UNCHANGED <<w, remote>>, Agrees(remote, db'),
           Owing(db', edit', Late(w)), Carries(db, db', {}),
           \A i \in Nat : i < db.nextOp /\ Taken(db, i) => Taken(db', i),
           \A t \in Thread : CallFits(th'[t], remote, cache', {db'})
    PROVE  Solo'
<1>1. Stores' = {db'}
  BY DEF Stores, Locked
<1>2. JobFits(w, db', remote) /\ SnapFits(w, db', remote)
  BY JobFacts, JobFitsOn DEF Solo
<1>3. QED
  BY <1>1, <1>2 DEF Solo

LEMMA QuietSolo ==
    ASSUME Solo, UNCHANGED <<db, w, remote, edit>>,
           \A t \in Thread : CallFits(th'[t], remote, cache', Stores)
    PROVE  Solo'
<1>1. Stores' = Stores
  BY DEF Stores, Locked
<1>2. QED
  BY <1>1 DEF Solo

LEMMA CallsStay ==
    ASSUME Solo, NEW d \in Stores, NEW e, NEW F, Carries(d, e, F), NEW t \in Thread
    PROVE  CallFits(th[t], remote, cache, {e})
BY DEF Solo, CallFits, Carries

(* A step of the worker outside of the transaction.                           *)
LEMMA JobSolo ==
    ASSUME Solo, UNCHANGED <<cache, remote, th, edit>>, w'.pc # "f_apply",
           NEW d \in Stores, NEW F, Carries(d, db', F), Agrees(remote, db'),
           Owing(db', edit, Late(w')), JobFits(w', db', remote), SnapFits(w', db', remote)
    PROVE  Solo'
<1>1. Stores' = {db'}
  BY DEF Stores, Locked
<1>2. \A t \in Thread : CallFits(th[t], remote, cache, {db'})
  BY CallsStay
<1>3. QED
  BY <1>1, <1>2 DEF Solo

LEMMA NoJobFits ==
    ASSUME NEW d, NEW T
    PROVE  /\ JobFits(IdleWorker, d, T) /\ SnapFits(IdleWorker, d, T) /\ Late(IdleWorker) = {}
           /\ IdleWorker.pc = "idle"
BY DEF IdleWorker, JobFits, SnapFits, Late, UploadPc, TreePc

LEMMA JobOver ==
    ASSUME Solo, UNCHANGED <<cache, remote, th, edit>>, Finish,
           NEW d \in Stores, NEW F, Carries(d, db', F), Agrees(remote, db'), Owing(db', edit, {})
    PROVE  Solo'
<1>1. w' = IdleWorker
  BY DEF Finish
<1>2. QED
  BY <1>1, NoJobFits, JobSolo

(* What waits for one upload more waits for those that go on.                 *)
LEMMA JobGivenUp ==
    ASSUME Solo, UNCHANGED <<db, cache, remote, th, edit>>, Finish PROVE Solo'
<1>1. db \in Stores
  BY DEF Stores
<1>2. Agrees(remote, db) /\ Owing(db, edit, {})
  BY <1>1, OwingEnded DEF Solo
<1>3. QED
  BY <1>1, <1>2, CarriesSelf, JobOver

LEMMA JobMoves ==
    ASSUME Solo, UNCHANGED <<db, cache, remote, th, edit>>, w'.pc # "f_apply",
           Late(w') \in {Late(w), {}}, JobFits(w', db, remote), SnapFits(w', db, remote)
    PROVE  Solo'
<1>1. db \in Stores
  BY DEF Stores
<1>2. Agrees(remote, db) /\ Owing(db, edit, Late(w'))
  BY <1>1, OwingEnded DEF Solo
<1>3. QED
  BY <1>1, <1>2, CarriesSelf, JobSolo

(* A step of the transaction.                                                 *)
LEMMA TxSolo ==
    ASSUME Inv, Safe, Solo, Locked, UNCHANGED <<db, cache, remote, th, edit>>,
           w'.pc = "f_apply", w'.job = w.job, NEW F, Carries(w.tx, w'.tx, F),
           Agrees(remote, w'.tx), Owing(w'.tx, edit, {}), SnapFits(w', db, remote)
    PROVE  Solo'
<1>1. Stores' = {db, w'.tx} /\ Stores = {db, w.tx}
  BY DEF Stores, Locked
<1>2. Late(w') = {} /\ Late(w) = {}
  BY DEF Late, Locked
<1>3. \A t \in Thread : CallFits(th[t], remote, cache, {db, w'.tx})
  <2>1. \A t \in Thread : CallFits(th[t], remote, cache, {w'.tx})
    BY <1>1, CallsStay
  <2>2. \A t \in Thread : CallFits(th[t], remote, cache, {db})
    BY <1>1, CarriesSelf, CallsStay
  <2>3. QED
    BY <2>1, <2>2 DEF CallFits
<1>4. JobFits(w', db, remote)
  BY DEF Solo, JobFits, Locked, UploadPc, TreePc
<1>5. QED
  BY <1>1, <1>2, <1>3, <1>4 DEF Solo
-----------------------------------------------------------------------------
(* The calls.                                                                 *)
LEMMA OtherCalls ==
    ASSUME Inv, NEW t \in Thread, NEW new, th' = [th EXCEPT ![t] = new],
           NEW T, NEW bytes, NEW D, CallFits(new, T, bytes, D),
           \A u \in Thread : u # t => CallFits(th[u], T, bytes, D)
    PROVE  \A u \in Thread : CallFits(th'[u], T, bytes, D)
BY DEF Inv, TypeOK

LEMMA IdleFits ==
    ASSUME NEW T, NEW bytes, NEW D PROVE CallFits(IdleThread, T, bytes, D)
BY DEF CallFits, IdleThread
-----------------------------------------------------------------------------
LEMMA CreateFileSolo ==
    ASSUME Inv, Safe, Solo, NEW t \in Thread, NEW p \in UserPath, CreateFile(t, p) PROVE Solo'
<1> DEFINE entry == [id |-> FreshId, path |-> p, kind |-> "File", sync |-> "QueuedUpload",
                     ver |-> NoVersion, cached |-> TRUE]
           new == [pc |-> "create", entry |-> entry, to |-> RootPath, data |-> NoData]
<1>1. /\ cache' = [cache EXCEPT ![FreshId] = clock + 1] /\ FreshId \in FileId
      /\ th' = [th EXCEPT ![t] = new] /\ UNCHANGED <<db, w, remote, edit>>
  BY FreshIdType DEF CreateFile, Begin
<1>2. clock + 1 # NoData /\ cache \in [FileId -> Nat]
  BY DEF Inv, TypeOK, NoData
<1>3. p \in Path /\ p # RootPath
  BY StateAssumption
<1>4. Led(remote, p)
  <2>1. PICK r \in db.files : r.path = Front(p) /\ r.kind = "Dir"
    BY DEF CreateFile, IsDir, RowAt
  <2>2. RowFits(remote, r)
    BY SoloFacts DEF Agrees
  <2>3. Led(remote, Front(p)) /\ \E x \in Meta(remote, Front(p)) : x.kind = "Dir"
    BY <2>1, <2>2 DEF RowFits
  <2>4. ASSUME NEW k \in 0 .. Len(p) - 1
        PROVE  \E y \in Meta(remote, SubSeq(p, 1, k)) : y.kind = "Dir"
    <3>1. /\ Len(p) \in Nat \ {0} /\ Len(Front(p)) = Len(p) - 1
          /\ Front(p) = SubSeq(p, 1, Len(p) - 1) /\ SubSeq(Front(p), 1, k) = SubSeq(p, 1, k)
      BY <1>3, FrontPrefixes
    <3>2. CASE k = Len(p) - 1
      BY <2>3, <3>1, <3>2
    <3>3. CASE k # Len(p) - 1
      <4>1. k \in 0 .. Len(Front(p)) - 1
        BY <3>1, <3>3
      <4>2. QED
        BY <2>3, <3>1, <4>1 DEF Led
    <3>4. QED
      BY <3>2, <3>3
  <2>5. QED
    BY <2>4 DEF Led
<1>5. CallFits(new, remote, cache', Stores)
  BY <1>1, <1>2, <1>3, <1>4 DEF CallFits
<1>6. \A u \in Thread : CallFits(th[u], remote, cache', Stores)
  BY <1>1, <1>2 DEF Solo, CallFits
<1> HIDE DEF new
<1>7. \A u \in Thread : CallFits(th'[u], remote, cache', Stores)
  BY <1>1, <1>5, <1>6, OtherCalls
<1>8. QED
  BY <1>1, <1>7, QuietSolo

LEMMA WriteFileSolo ==
    ASSUME Inv, Safe, Solo, NEW t \in Thread, NEW p, WriteFile(t, p) PROVE Solo'
<1>1. PICK r \in RowAt(db, p) : r.kind = "File" /\ Begin(t, "copy", r, RootPath)
  BY DEF WriteFile
<1> DEFINE new == [pc |-> "copy", entry |-> r, to |-> RootPath, data |-> NoData]
<1>2. ~Locked /\ UNCHANGED <<db, w, remote, edit, cache>> /\ th' = [th EXCEPT ![t] = new]
  BY <1>1 DEF WriteFile, MayCall, Begin
<1>3. Stores = {db} /\ FileOf(db, r.id)
  BY <1>1, <1>2 DEF Stores, FileOf, RowOf, RowAt
<1>4. CallFits(new, remote, cache', Stores)
  BY <1>3 DEF CallFits
<1> HIDE DEF new
<1>5. \A u \in Thread : CallFits(th'[u], remote, cache', Stores)
  BY <1>2, <1>4, OtherCalls DEF Solo
<1>6. QED
  BY <1>2, <1>5, QuietSolo

LEMMA WriteCopySolo ==
    ASSUME Inv, Safe, Solo, NEW t \in Thread, WriteCopy(t) PROVE Solo'
<1> DEFINE new == [[th[t] EXCEPT !.pc = "apply"] EXCEPT !.data = clock + 1]
<1>1. /\ th[t].pc = "copy" /\ cache' = [cache EXCEPT ![th[t].entry.id] = clock + 1]
      /\ UNCHANGED <<db, w, remote, edit>>
      /\ th' = [th EXCEPT ![t].pc = "apply", ![t].data = clock + 1]
  BY DEF WriteCopy, Advance
<1>2. clock + 1 # NoData /\ cache \in [FileId -> Nat] /\ th \in [Thread -> ThreadState]
  BY DEF Inv, TypeOK, NoData
<1>3. th' = [th EXCEPT ![t] = new] /\ new.pc = "apply" /\ new.data = clock + 1
      /\ new.entry = th[t].entry
  BY <1>1, <1>2 DEF ThreadState
<1>4. \A u \in Thread : CallFits(th[u], remote, cache', Stores)
  BY <1>1, <1>2, CallTypes DEF Solo, CallFits, Inv
<1> HIDE DEF new
<1>5. CallFits(new, remote, cache', Stores)
  BY <1>1, <1>2, <1>3, <1>4 DEF CallFits
<1>6. \A u \in Thread : CallFits(th'[u], remote, cache', Stores)
  BY <1>3, <1>4, <1>5, OtherCalls
<1>7. QED
  BY <1>1, <1>6, QuietSolo

(* What is late is the worker's job, and leased.                              *)
LEMMA LateLeased ==
    ASSUME Inv, Solo, NEW j \in Late(w)
    PROVE  j.id \in Nat /\ j.id < db.nextOp /\ Taken(db, j.id) /\ FileOf(db, j.file)
<1>1. j = w.job /\ w.pc \in {"u_fetch", "u_commit"}
  BY DEF Late
<1>2. w.job.id \in Nat /\ w.job.id < db.nextOp
  BY <1>1, JobFacts
<1>3. QED
  BY <1>1, <1>2 DEF Solo, JobFits, UploadPc

(* A committed edit waits.                                                    *)
LEMMA EditOwing ==
    ASSUME NEW d, NEW e, NEW edits, NEW ending, Owing(d, edits, ending), Carries(d, e, {}),
           NEW f \in FileId, NEW x, FileOf(e, f), Due(e, f, ending),
           edits \in [FileId -> Nat]
    PROVE  Owing(e, [edits EXCEPT ![f] = x], ending)
<1>1. Owing(e, edits, ending)
  BY OwingCarried
<1>2. QED
  BY <1>1 DEF Owing

LEMMA CreateCommitSolo ==
    ASSUME Inv, Safe, Solo, NEW t \in Thread, CreateCommit(t) PROVE Solo'
<1> DEFINE entry == th[t].entry
           f == entry.id
           p == entry.path
           c == InsertRow(db, entry)
           e == Upsert(c, f, "Upload", p, RootPath)
<1>1. /\ th[t].pc = "create" /\ ~Locked /\ th' = [th EXCEPT ![t] = IdleThread]
      /\ UNCHANGED <<w, remote, cache>> /\ db' = Created(t, "Upload")
      /\ edit' = [edit EXCEPT ![f] = IF RowAt(db, p) = {} THEN cache[f] ELSE @]
  BY DEF CreateCommit, Return
<1>2. /\ entry \in Row /\ f \in FileId /\ db \in Database /\ edit \in [FileId -> Nat]
      /\ Stores = {db}
  BY <1>1, CallTypes, SoloFacts DEF Inv, TypeOK
<1>3. CASE RowAt(db, p) # {}
  <2>1. db' = db /\ edit' = edit
    BY <1>1, <1>2, <1>3 DEF Created
  <2>2. \A u \in Thread : CallFits(th'[u], remote, cache', Stores)
    BY <1>1, OtherCalls, IdleFits DEF Solo
  <2>3. QED
    BY <1>1, <2>1, <2>2, QuietSolo
<1>4. CASE RowAt(db, p) = {}
  <2>1. db' = e /\ edit' = [edit EXCEPT ![f] = cache[f]]
    BY <1>1, <1>4 DEF Created, Inserted
  <2>2. f \notin Ids(db) /\ RowFits(remote, entry)
    <3>1. f \in Reserved
      BY <1>1 DEF Reserved, Creating
    <3>2. f \notin Ids(db)
      BY <3>1, SoloFacts
    <3>3. CallFits(th[t], remote, cache, Stores) /\ entry.sync = "QueuedUpload"
      BY <1>1 DEF Solo, Inv, NewRowsQueued
    <3>4. QED
      BY <1>1, <3>2, <3>3 DEF CallFits, RowFits, Unsynced
  <2>3. Agrees(remote, c) /\ Carries(db, c, {}) /\ c \in Database /\ FileOf(c, f)
        /\ c.queue = db.queue /\ c.nextOp = db.nextOp
    <3>1. Agrees(remote, c) /\ Carries(db, c, {})
      BY <1>2, <2>2, SoloFacts, InsertAgrees
    <3>2. /\ c \in Database /\ c.files = db.files \cup {entry}
          /\ c.queue = db.queue /\ c.nextOp = db.nextOp
      BY <1>2 DEF InsertRow, Database
    <3>3. entry.kind = "File"
      BY <1>1 DEF Solo, CallFits
    <3>4. QED
      BY <3>1, <3>2, <3>3 DEF FileOf, RowOf
  <2> HIDE DEF c
  <2>4. Agrees(remote, e) /\ Carries(c, e, {})
    BY <2>3, UpsertAgrees
  <2>5. Carries(db, e, {}) /\ FileOf(e, f)
    <3> HIDE DEF e
    <3>1. Carries(db, e, {})
      BY <2>3, <2>4, CarriesOn
    <3>2. FileOf(e, f)
      BY <2>3, <2>4 DEF Carries
    <3>3. QED
      BY <3>1, <3>2
  <2>6. \A j \in Late(w) : j.id \in Nat /\ j.id < c.nextOp /\ Taken(c, j.id)
    BY <2>3, LateLeased DEF Taken
  <2>7. Due(e, f, Late(w))
    BY <2>3, <2>6, UpsertDue
  <2>8. Owing(e, edit', Late(w))
    BY <1>2, <2>1, <2>5, <2>7, SoloFacts, EditOwing
  <2>9. \A i \in Nat : i < db.nextOp /\ Taken(db, i) => Taken(e, i)
    BY <2>3, UpsertTaken DEF Taken
  <2> HIDE DEF e
  <2>10. \A u \in Thread : CallFits(th'[u], remote, cache', {e})
    BY <1>1, <1>2, <2>5, CallsStay, OtherCalls, IdleFits
  <2>11. QED
    BY <1>1, <2>1, <2>4, <2>5, <2>8, <2>9, <2>10, CallSolo
<1>5. QED
  BY <1>3, <1>4
-----------------------------------------------------------------------------
(* A row of a file that waits for nothing but its upload is never on its way  *)
(* out.                                                                       *)
LEMMA WriteCommitSolo ==
    ASSUME Inv, Safe, Solo, NEW t \in Thread, WriteCommit(t)
    PROVE  Solo' /\ edit' = [edit EXCEPT ![th[t].entry.id] = th[t].data]
<1> DEFINE f == th[t].entry.id
           p == th[t].entry.path
           c == SetCached(db, f, "QueuedUpload")
           e == Upsert(c, f, "Upload", p, RootPath)
<1>1. /\ th[t].pc = "apply" /\ ~Locked /\ th' = [th EXCEPT ![t] = IdleThread]
      /\ UNCHANGED <<w, remote, cache>> /\ db' = e
      /\ edit' = [edit EXCEPT ![f] = IF \E r \in RowOf(db, f) : r.sync # "QueuedDelete"
                                     THEN th[t].data ELSE @]
  BY DEF WriteCommit, Written, Return
<1>2. f \in FileId /\ db \in Database /\ edit \in [FileId -> Nat] /\ Stores = {db}
  BY <1>1, CallTypes, SoloFacts DEF Inv, TypeOK
<1>3. FileOf(db, f)
  BY <1>1, <1>2 DEF Solo, CallFits
<1>4. \E r \in RowOf(db, f) : r.sync # "QueuedDelete"
  BY <1>3, SoloFacts DEF FileOf, RowOf, Agrees, RowFits, Unsynced
<1>5. edit' = [edit EXCEPT ![f] = th[t].data]
  BY <1>1, <1>4
<1>6. Painted(db, c, f) /\ \A q \in RowOf(c, f) : q.sync = "QueuedUpload"
  BY <1>2, SetCachedPaints
<1>7. c \in Database /\ c.nextOp = db.nextOp /\ c.queue = db.queue
  <2>1. Follows(db, c)
    BY SoloFacts, SetCachedFollows DEF SyncState
  <2>2. QED
    BY <1>2, <2>1 DEF Follows, Sound, SetCached, Database
<1> HIDE DEF c
<1>8. Agrees(remote, c) /\ Carries(db, c, {})
  <2>1. \A q \in RowOf(c, f) : q.sync \in Unsynced
    BY <1>6 DEF Unsynced
  <2>2. QED
    BY <1>3, <1>6, <2>1, SoloFacts, PaintedAgrees
<1>9. FileOf(c, f)
  BY <1>3, <1>8 DEF Carries
<1>10. Agrees(remote, e) /\ Carries(c, e, {})
  BY <1>7, <1>8, <1>9, UpsertAgrees
<1>11. \A j \in Late(w) : j.id \in Nat /\ j.id < c.nextOp /\ Taken(c, j.id)
  BY <1>7, LateLeased DEF Taken
<1>12. Due(e, f, Late(w))
  BY <1>7, <1>9, <1>11, UpsertDue
<1>13. \A i \in Nat : i < db.nextOp /\ Taken(db, i) => Taken(e, i)
  BY <1>7, UpsertTaken DEF Taken
<1> HIDE DEF e
<1>14. Carries(db, e, {})
  BY <1>8, <1>10, CarriesOn
<1>15. FileOf(e, f)
  BY <1>9, <1>10 DEF Carries
<1>16. Owing(e, edit', Late(w))
  BY <1>2, <1>5, <1>12, <1>14, <1>15, SoloFacts, EditOwing
<1>17. \A u \in Thread : CallFits(th'[u], remote, cache', {e})
  BY <1>1, <1>2, <1>14, CallsStay, OtherCalls, IdleFits
<1>18. QED
  BY <1>1, <1>5, <1>10, <1>13, <1>14, <1>16, <1>17, CallSolo

LEMMA RefreshQueued ==
    ASSUME NEW T, NEW d \in Database, Agrees(T, d)
    PROVE  LET e == Upsert(d, Root, "RefreshTree", RootPath, RootPath)
           IN  Agrees(T, e) /\ Carries(d, e, {})
BY UpsertAgrees

LEMMA RequestRefreshSolo ==
    ASSUME Inv, Safe, Solo, RequestRefresh PROVE Solo'
<1> DEFINE e == Upsert(db, Root, "RefreshTree", RootPath, RootPath)
<1>1. ~Locked /\ db' = e /\ UNCHANGED <<cache, remote, th, w, edit>>
  BY DEF RequestRefresh
<1>2. db \in Database /\ Agrees(remote, db) /\ Owing(db, edit, Late(w)) /\ Stores = {db}
  BY <1>1, SoloFacts
<1>3. Agrees(remote, e) /\ Carries(db, e, {})
  BY <1>2, RefreshQueued
<1>4. \A i \in Nat : i < db.nextOp /\ Taken(db, i) => Taken(e, i)
  BY <1>2, UpsertTaken
<1> HIDE DEF e
<1>5. Owing(e, edit, Late(w))
  BY <1>2, <1>3, OwingCarried
<1>6. \A t \in Thread : CallFits(th[t], remote, cache, {e})
  BY <1>2, <1>3, CallsStay
<1>7. QED
  BY <1>1, <1>3, <1>4, <1>5, <1>6, CallSolo

LEMMA CallsSolo ==
    ASSUME EditsApart, Inv, Safe, Solo, NEW t \in Thread, Call(t) \/ CallStep(t) PROVE Solo'
<1>1. {"mkdir", "unlink", "rename", "read"} \cap UserOps = {}
  BY DEF EditsApart
<1>2. CASE Call(t)
  <2>1. \A p, q : ~MakeDir(t, p) /\ ~Unlink(t, p) /\ ~ReadFile(t, p) /\ ~Rename(t, p, q)
    BY <1>1 DEF MakeDir, Unlink, ReadFile, Rename, MayCall
  <2>2. QED
    BY <1>2, <2>1, CreateFileSolo, WriteFileSolo DEF Call
<1>3. CASE CallStep(t)
  <2>1. th[t].pc \in {"idle", "create", "copy", "apply"}
    BY DEF Solo, CallFits
  <2>2. CreateCommit(t) \/ WriteCopy(t) \/ WriteCommit(t)
    BY <1>3, <2>1 DEF CallStep, MkdirCommit, UnlinkCommit, RenameCommit, ReadDownload,
                      ReadDownloadFails, ReadStore, ReadCommit
  <2>3. QED
    BY <2>2, CreateCommitSolo, WriteCopySolo, WriteCommitSolo
<1>4. QED
  BY <1>2, <1>3
-----------------------------------------------------------------------------
LEMMA RecoverLeaseSolo == ASSUME Inv, Safe, Solo, RecoverLease PROVE Solo'
<1>1. PICK o \in db.queue : db' = SetStatus(db, o.id, "Pending")
  BY DEF RecoverLease
<1>2. w.pc = "idle" /\ UNCHANGED <<cache, remote, th, w, edit>>
  BY DEF RecoverLease, At
<1>3. /\ db \in Database /\ Agrees(remote, db) /\ Owing(db, edit, Late(w)) /\ db \in Stores
      /\ Late(w) = {}
  BY <1>2, SoloFacts DEF Late
<1>4. Agrees(remote, db') /\ Carries(db, db', {})
  BY <1>1, <1>3, SetStatusAgrees
<1>5. Owing(db', edit, {})
  BY <1>3, <1>4, OwingCarried
<1>6. JobFits(w, db', remote) /\ SnapFits(w, db', remote)
  BY <1>2 DEF JobFits, SnapFits, UploadPc, TreePc
<1>7. QED
  BY <1>2, <1>3, <1>4, <1>5, <1>6, JobSolo

LEMMA LeaseSolo == ASSUME Inv, Safe, Solo, Lease PROVE Solo'
<1>1. PICK o \in Leasable(db) :
         /\ db' = SetStatus(db, o.id, "Leased")
         /\ w' = [w EXCEPT !.pc = "start", !.job = [o EXCEPT !.status = "Leased"]]
  BY DEF Lease
<1>2. w.pc = "idle" /\ UNCHANGED <<cache, remote, th, edit>> /\ o \in db.queue
  BY <1>1 DEF Lease, At, Leasable
<1>3. /\ db \in Database /\ Agrees(remote, db) /\ Owing(db, edit, Late(w)) /\ db \in Stores
      /\ Late(w) = {} /\ w \in WorkerState
  BY <1>2, SoloFacts DEF Late, Inv, TypeOK
<1>4. Agrees(remote, db') /\ Carries(db, db', {})
  BY <1>1, <1>3, SetStatusAgrees
<1>5. Owing(db', edit, {})
  BY <1>3, <1>4, OwingCarried
<1>6. w'.pc = "start" /\ w'.job.type = o.type /\ w'.job.file = o.file /\ w'.job.id = o.id
  BY <1>1, <1>2, <1>3 DEF WorkerState, Op, Database
<1>7. Taken(db', o.id)
  <2> DEFINE new(q) == IF q.id = o.id THEN [q EXCEPT !.status = "Leased"] ELSE q
  <2>1. \A q \in db.queue : new(q).id = q.id /\ (q.id = o.id => new(q).status = "Leased")
    BY <1>3 DEF Database, Op
  <2>2. db'.queue = {new(q) : q \in db.queue}
    BY <1>1, <1>3 DEF SetStatus, Database
  <2> HIDE DEF new
  <2>3. QED
    BY <2>1, <2>2 DEF Taken
<1>8. o.type = "RefreshTree" \/ (o.type = "Upload" /\ FileOf(db', o.file))
  BY <1>2, <1>3, <1>4 DEF Agrees, Carries
<1>9. JobFits(w', db', remote) /\ SnapFits(w', db', remote) /\ Late(w') = {}
  BY <1>6, <1>7, <1>8 DEF JobFits, SnapFits, UploadPc, TreePc, Late
<1>10. QED
  BY <1>2, <1>3, <1>4, <1>5, <1>6, <1>9, JobSolo

LEMMA StartSolo == ASSUME Inv, Safe, Solo, Start PROVE Solo'
<1> DEFINE type == w.job.type
           found == IF type \in {"Upload", "Mkdir", "Download"} THEN Mine ELSE {RootRow}
<1>1. w.pc = "start" /\ UNCHANGED <<db, cache, remote, th, edit>>
  BY DEF Start, At
<1>2. db \in Database /\ Sound(db) /\ w \in WorkerState /\ Tidy(db)
  BY SoloFacts DEF Inv, TypeOK
<1>3. /\ type \in {"Upload", "RefreshTree"}
      /\ type = "Upload" => FileOf(db, w.job.file) /\ Taken(db, w.job.id)
  BY <1>1 DEF Solo, JobFits
<1>4. CASE Finish
  BY <1>1, <1>4, JobGivenUp
<1>5. CASE /\ found # {}
           /\ w' = [w EXCEPT !.pc = FirstStep[type], !.entry = The(found),
                               !.walk = {RootPath},
                               !.before = IF type = "RefreshTree" THEN spent.other ELSE 0]
  <2>1. /\ w'.pc = FirstStep[type] /\ w'.job = w.job /\ w'.entry = The(found)
    BY <1>2, <1>5 DEF WorkerState
  <2>2. CASE type = "Upload"
    <3>1. w'.pc = "u_mark" /\ w'.entry \in Mine
      BY <1>5, <2>1, <2>2 DEF FirstStep, The
    <3>2. JobFits(w', db, remote) /\ SnapFits(w', db, remote) /\ Late(w') = {}
      BY <1>3, <2>1, <2>2, <3>1 DEF JobFits, SnapFits, UploadPc, TreePc, Late, Mine
    <3>3. QED
      BY <1>1, <3>1, <3>2, JobMoves
  <2>3. CASE type = "RefreshTree"
    <3>1. w'.pc = "f_list"
      BY <2>1, <2>3 DEF FirstStep
    <3>2. JobFits(w', db, remote) /\ SnapFits(w', db, remote) /\ Late(w') = {}
      BY <2>1, <2>3, <3>1 DEF JobFits, SnapFits, UploadPc, TreePc, Late
    <3>3. QED
      BY <1>1, <3>1, <3>2, JobMoves
  <2>4. QED
    BY <1>3, <2>2, <2>3
<1>6. ~(found # {} /\ \E r \in found : r.sync = "Conflict" /\ type = "Upload")
  BY <1>2 DEF Sound, Mine, RowOf
<1>7. QED
  BY <1>4, <1>5, <1>6 DEF Start, Abandon

LEMMA FailSolo == ASSUME Inv, Safe, Solo, Fail PROVE Solo'
<1> DEFINE f == w.job.file
<1>1. /\ w.pc = "fail" /\ db' = RetryOrFail(db, w.job, w.again) /\ Finish
      /\ UNCHANGED <<cache, remote, th, edit>>
  BY DEF Fail, At
<1>2. /\ db \in Database /\ Tidy(db) /\ Agrees(remote, db) /\ Owing(db, edit, Late(w))
      /\ db \in Stores /\ Late(w) = {}
  BY <1>1, SoloFacts DEF Late
<1>3. FileOf(db, f)
  BY <1>1 DEF Solo, JobFits, UploadPc
<1>4. \A q \in db.queue : q.id = w.job.id => q.file = f
  BY <1>1, JobFacts
<1>5. Agrees(remote, db') /\ Carries(db, db', {f}) /\ Due(db', f, {})
  BY <1>1, <1>2, <1>3, <1>4, RetryOrFailAgrees
<1>6. Owing(db', edit, {})
  BY <1>2, <1>5, OwingCarried
<1>7. QED
  BY <1>1, <1>2, <1>5, <1>6, JobOver
-----------------------------------------------------------------------------
(* process_upload.                                                            *)
LEMMA UploadMarkSolo == ASSUME Inv, Safe, Solo, UploadMark PROVE Solo'
<1> DEFINE f == w.job.file
<1>1. /\ w.pc = "u_mark" /\ db' = SetSync(db, f, "Uploading") /\ Goto("u_check")
      /\ UNCHANGED <<cache, remote, th, edit>>
  BY DEF UploadMark, At
<1>2. /\ db \in Database /\ Tidy(db) /\ Agrees(remote, db) /\ Owing(db, edit, Late(w))
      /\ db \in Stores /\ Late(w) = {}
  BY <1>1, SoloFacts DEF Late
<1>3. w'.pc = "u_check" /\ w'.job = w.job /\ w'.entry = w.entry
  BY <1>1 DEF Goto, Inv, TypeOK, WorkerState
<1>4. /\ FileOf(db, f) /\ Taken(db, w.job.id) /\ w.job.type = "Upload"
      /\ \E r \in RowOf(db, f) : r.path = w.entry.path
  BY <1>1 DEF Solo, JobFits, UploadPc
<1>5. Painted(db, db', f) /\ \A q \in RowOf(db', f) : q.sync = "Uploading"
  BY <1>1, <1>2, SetSyncPaints
<1>6. Agrees(remote, db') /\ Carries(db, db', {})
  <2>1. \A q \in RowOf(db', f) : q.sync \in Unsynced
    BY <1>5 DEF Unsynced
  <2>2. QED
    BY <1>2, <1>4, <1>5, <2>1, PaintedAgrees
<1>7. Owing(db', edit, {})
  BY <1>2, <1>6, OwingCarried
<1>8. JobFits(w', db', remote)
  <2>1. FileOf(db', f) /\ Taken(db', w.job.id)
    BY <1>4, <1>5, <1>6 DEF Carries, Taken, Painted
  <2>2. \E r \in RowOf(db', f) : r.path = w.entry.path
    BY <1>4, <1>5 DEF Painted, RowOf
  <2>3. QED
    BY <1>3, <1>4, <1>5, <2>1, <2>2 DEF JobFits, UploadPc, TreePc
<1>9. SnapFits(w', db', remote) /\ Late(w') = {}
  BY <1>3 DEF SnapFits, Late
<1>10. QED
  BY <1>1, <1>2, <1>3, <1>6, <1>7, <1>8, <1>9, JobSolo

LEMMA UploadCheckSolo == ASSUME Inv, Safe, Solo, UploadCheck PROVE Solo'
<1>1. /\ w.pc = "u_check" /\ UNCHANGED <<db, cache, remote, th, edit>>
      /\ w' = [w EXCEPT !.meta = Meta(remote, w.entry.path),
                        !.pc = IF w.entry.ver = RemoteVersion(Meta(remote, w.entry.path))
                               THEN "u_put" ELSE "u_conflict"]
  BY DEF UploadCheck, At
<1>2. /\ w'.pc \in {"u_put", "u_conflict"} /\ w'.job = w.job /\ w'.entry = w.entry
      /\ w'.meta = Meta(remote, w.entry.path)
  BY <1>1 DEF Inv, TypeOK, WorkerState
<1>3. JobFits(w', db, remote)
  BY <1>1, <1>2 DEF Solo, JobFits, UploadPc, TreePc
<1>4. SnapFits(w', db, remote) /\ Late(w') = {}
  BY <1>2 DEF SnapFits, Late
<1>5. QED
  BY <1>1, <1>2, <1>3, <1>4, JobMoves
-----------------------------------------------------------------------------
(* An upload to the path of a file that is not Synced changes no directory    *)
(* and nothing that a Synced row stands for.                                   *)
LEMMA PutAgrees ==
    ASSUME NEW T, Treed(T), NEW d \in Database, Tidy(d), Agrees(T, d), NEW q \in d.files,
           q.kind = "File", q.sync # "Synced", NEW data \in Nat, NEW v \in Nat
    PROVE  LET S == PutFile(T, q.path, data, v)
           IN  Treed(S) /\ Agrees(S, d) /\ \A p : Led(T, p) => Led(S, p)
<1> DEFINE x == [path |-> q.path, kind |-> "File", ver |-> v, data |-> data]
           S == PutFile(T, q.path, data, v)
<1>1. S = (T \ Meta(T, q.path)) \cup {x} /\ S \subseteq Resource /\ Tree(S)
  BY PutFileType, PutFileTree DEF PutFile, Treed, Database, Row
<1>2. x.path = q.path /\ x.kind = "File"
  OBVIOUS
<1>3. RowFits(T, q) /\ q.path # RootPath /\ Led(T, q.path)
  BY DEF Agrees, RowFits
<1>4. \A y \in Meta(T, q.path) : y.kind # "Dir"
  BY DEF Agrees, Meta, RowAt, Tidy, PathsOnce
<1> HIDE DEF x, S
<1>5. \A p, y : y \in Meta(T, p) /\ y.kind = "Dir" => y \in Meta(S, p)
  BY <1>1, <1>4 DEF Meta
<1>6. \A p : Led(T, p) => Led(S, p)
  BY <1>5 DEF Led
<1>7. \A p : p # q.path => Meta(S, p) = Meta(T, p)
  BY <1>1, <1>2 DEF Meta
<1>8. Treed(S)
  BY <1>1, <1>2, <1>3, <1>5, <1>6 DEF Treed
<1>9. ASSUME NEW r \in d.files PROVE RowFits(S, r)
  <2>1. RowFits(T, r) /\ Led(S, r.path)
    BY <1>6 DEF Agrees, RowFits
  <2>2. CASE r = q
    BY <1>3, <2>1, <2>2 DEF RowFits
  <2>3. CASE r # q
    <3>1. Meta(S, r.path) = Meta(T, r.path)
      BY <1>7, <2>3 DEF Tidy, PathsOnce
    <3>2. QED
      BY <2>1, <3>1 DEF RowFits
  <2>4. QED
    BY <2>2, <2>3
<1>10. Agrees(S, d)
  BY <1>1, <1>2, <1>9 DEF Agrees
<1>11. QED
  BY <1>6, <1>8, <1>10 DEF S

LEMMA UploadPutSolo == ASSUME Inv, Safe, Solo, UploadPut PROVE Solo'
<1> DEFINE f == w.job.file
           p == w.entry.path
<1>1. w.pc = "u_put" /\ UNCHANGED <<db, cache, th>>
  BY DEF UploadPut, At
<1>2. /\ db \in Database /\ Tidy(db) /\ Agrees(remote, db) /\ Owing(db, edit, {})
      /\ Stores = {db} /\ w \in WorkerState /\ Late(w) = {}
      /\ edit \in [FileId -> Nat] /\ f \in FileId
  <2>1. Late(w) = {} /\ ~Locked
    BY <1>1 DEF Late, Locked
  <2>2. QED
    BY <2>1, SoloFacts, WorkerTypes DEF Inv, TypeOK
<1>3. /\ FileOf(db, f) /\ Taken(db, w.job.id) /\ w.job.type = "Upload"
      /\ \E r \in RowOf(db, f) : r.path = p
      /\ \A r \in RowOf(db, f) : r.sync # "Synced"
  BY <1>1 DEF Solo, JobFits, UploadPc
<1>4. CASE cache[f] = NoData
  <2>1. w' = [w EXCEPT !.pc = "fail", !.again = FALSE] /\ UNCHANGED <<remote, edit>>
    BY <1>4 DEF UploadPut
  <2>2. w'.pc = "fail" /\ w'.job = w.job
    BY <1>2, <2>1 DEF WorkerState
  <2>3. JobFits(w', db, remote) /\ SnapFits(w', db, remote) /\ Late(w') = {}
    BY <1>3, <2>2 DEF JobFits, SnapFits, Late, UploadPc, TreePc
  <2>4. QED
    BY <1>1, <2>1, <2>2, <2>3, JobMoves
<1>5. CASE cache[f] # NoData
  <2>1. /\ remote' = PutFile(remote, p, cache[f], clock + 1) /\ edit' = [edit EXCEPT ![f] = NoData]
        /\ Goto("u_fetch") \/ w' = [w EXCEPT !.pc = "fail", !.again = TRUE]
    BY <1>5 DEF UploadPut, AnswerLost
  <2>2. w'.pc \in {"u_fetch", "fail"} /\ w'.job = w.job /\ w'.entry = w.entry
    BY <1>2, <2>1 DEF Goto, WorkerState
  <2>3. PICK q \in db.files : q.id = f /\ q.path = p /\ q.kind = "File" /\ q.sync # "Synced"
    BY <1>2, <1>3 DEF FileOf, RowOf, Tidy, IdsOnce
  <2>4. /\ Treed(remote') /\ Agrees(remote', db) /\ \A k : Led(remote, k) => Led(remote', k)
    <3>1. cache[f] \in Nat /\ clock + 1 \in Nat
      BY <1>2 DEF Inv, TypeOK
    <3>2. QED
      BY <1>2, <2>1, <2>3, <3>1, PutAgrees DEF Solo
  <2>5. Late(w') \subseteq {w.job}
    BY <2>2 DEF Late
  <2>6. \A o \in db.queue : o.id = w.job.id => o.file = f
    BY <1>1, JobFacts
  <2>7. Owing(db, edit', Late(w'))
    <3>1. ASSUME NEW g \in FileId, edit'[g] # NoData PROVE FileOf(db, g) /\ Due(db, g, Late(w'))
      <4>1. g # f /\ edit[g] # NoData
        BY <1>2, <2>1, <3>1
      <4>2. FileOf(db, g) /\ Due(db, g, {})
        BY <1>2, <4>1 DEF Owing
      <4>3. QED
        BY <2>5, <2>6, <4>1, <4>2 DEF Due
    <3>2. QED
      BY <3>1 DEF Owing
  <2>8. JobFits(w', db, remote') /\ SnapFits(w', db, remote')
    BY <1>3, <2>2 DEF JobFits, SnapFits, UploadPc, TreePc
  <2>9. Stores' = {db}
    BY <1>1, <2>2 DEF Stores, Locked
  <2>10. \A t \in Thread : CallFits(th[t], remote', cache, {db})
    BY <1>2, <2>4 DEF Solo, CallFits
  <2>11. QED
    BY <1>1, <2>4, <2>7, <2>8, <2>9, <2>10 DEF Solo
<1>6. QED
  BY <1>4, <1>5

LEMMA UploadFetchSolo == ASSUME Inv, Safe, Solo, UploadFetch PROVE Solo'
<1>1. /\ w.pc = "u_fetch" /\ UNCHANGED <<db, cache, remote, th, edit>>
      /\ \/ w' = [w EXCEPT !.pc = "fail", !.again = FALSE]
         \/ w' = [w EXCEPT !.pc = "u_commit", !.meta = Meta(remote, w.entry.path)]
  BY DEF UploadFetch, At
<1>2. /\ w'.job = w.job /\ w'.entry = w.entry
      /\ w'.pc = "fail" \/ (w'.pc = "u_commit" /\ w'.meta = Meta(remote, w.entry.path))
  BY <1>1 DEF Inv, TypeOK, WorkerState
<1>3. JobFits(w', db, remote)
  BY <1>1, <1>2 DEF Solo, JobFits, UploadPc, TreePc
<1>4. SnapFits(w', db, remote) /\ Late(w') \in {Late(w), {}} /\ w'.pc # "f_apply"
  BY <1>1, <1>2 DEF SnapFits, Late
<1>5. QED
  BY <1>1, <1>3, <1>4, JobMoves

(* The row is Synced at the version of what is at its path, and what was      *)
(* written since is queued.                                                   *)
LEMMA SyncedAgrees ==
    ASSUME Inv, Safe, Solo, w.pc = "u_commit", w.meta # {}
    PROVE  LET e == SetSynced(db, w.job.file, RemoteVersion(w.meta))
           IN  /\ e \in Database /\ e.queue = db.queue
               /\ Agrees(remote, e) /\ Carries(db, e, {w.job.file})
<1> DEFINE f == w.job.file
           v == RemoteVersion(w.meta)
           e == SetSynced(db, f, v)
<1>1. /\ FileOf(db, f) /\ w.meta = Meta(remote, w.entry.path)
      /\ \E r \in RowOf(db, f) : r.path = w.entry.path
  BY DEF Solo, JobFits, UploadPc
<1>2. db \in Database /\ Tidy(db) /\ Agrees(remote, db) /\ v \in Nat /\ Sound(db)
  BY SoloFacts, RemoteVersionType, WorkerTypes DEF Inv
<1>3. e \in Database /\ e.queue = db.queue
  <2>1. Follows(db, e)
    BY <1>2, SetSyncedFollows
  <2>2. QED
    BY <1>2, <2>1 DEF Follows, Sound, SetSynced, Database
<1>4. Painted(db, e, f) /\ \A q \in RowOf(e, f) : q.sync = "Synced" /\ q.ver = v
  BY <1>2, SetSyncedPaints
<1> HIDE DEF e
<1>5. \A q \in RowOf(e, f) : q.path = w.entry.path
  BY <1>1, <1>2, <1>4 DEF Painted, RowOf, Tidy, IdsOnce
<1>6. \E x \in Meta(remote, w.entry.path) : x.ver = v
  BY <1>1 DEF RemoteVersion, The
<1>7. QED
  BY <1>1, <1>2, <1>3, <1>4, <1>5, <1>6, PaintedAgrees DEF e

LEMMA UploadCommitSolo == ASSUME Inv, Safe, Solo, UploadCommit PROVE Solo'
<1> DEFINE f == w.job.file
           c == IF w.meta = {} THEN db ELSE SetSynced(db, f, RemoteVersion(w.meta))
<1>1. /\ w.pc = "u_commit" /\ db' = DropOp(c, w.job.id) /\ Finish
      /\ UNCHANGED <<cache, remote, th, edit>>
  BY DEF UploadCommit, CommitSynced, At
<1>2. /\ db \in Database /\ Agrees(remote, db) /\ Owing(db, edit, {w.job}) /\ db \in Stores
  BY <1>1, SoloFacts DEF Late
<1>3. c \in Database /\ c.queue = db.queue /\ Agrees(remote, c) /\ Carries(db, c, {f})
  BY <1>1, <1>2, SyncedAgrees, CarriesSelf
<1> HIDE DEF c
<1>4. \A o \in c.queue : o.id = w.job.id => o.file = f
  BY <1>1, <1>3, JobFacts
<1>5. Agrees(remote, db') /\ Carries(c, db', {f})
  BY <1>1, <1>3, <1>4, DropOpAgrees
<1>6. Carries(db, db', {f})
  BY <1>3, <1>5, CarriesOn
<1>7. Owing(db', edit, {})
  <2>1. Owing(db, edit, {})
    BY <1>2, OwingEnded
  <2>2. ASSUME edit[f] # NoData, f \in FileId PROVE Due(db', f, {})
    <3>1. PICK o \in db.queue : o.file = f /\ o.type = "Upload" /\ o.id # w.job.id
      BY <1>2, <2>2 DEF Owing, Due
    <3>2. o \in db'.queue
      BY <1>1, <1>3, <3>1 DEF DropOp, Database
    <3>3. QED
      BY <3>1, <3>2 DEF Due
  <2>3. QED
    BY <1>6, <2>1, <2>2, OwingCarried
<1>8. QED
  BY <1>1, <1>2, <1>5, <1>6, <1>7, JobOver
-----------------------------------------------------------------------------
LEMMA FreshNotThere ==
    ASSUME Inv, FileId \ born # {}, NEW d, Ids(d) \subseteq born \ Reserved
    PROVE  FreshId \in FileId /\ FreshId \notin Ids(d)
BY DEF FreshId

LEMMA UploadConflictSolo ==
    ASSUME Inv, Inv', Safe, Solo, UploadConflict PROVE Solo'
<1> DEFINE f == w.job.file
           p == w.entry.path
<1>1. /\ w.pc = "u_conflict" /\ FileId \ born # {} /\ UNCHANGED <<cache, remote, th, edit>>
  BY DEF UploadConflict, At
<1>2. /\ db \in Database /\ Sound(db) /\ Tidy(db) /\ Ids(db) \subseteq born \ Reserved
      /\ Agrees(remote, db) /\ Owing(db, edit, {}) /\ db \in Stores /\ w \in WorkerState
  <2>1. Late(w) = {}
    BY <1>1 DEF Late
  <2>2. QED
    BY <2>1, SoloFacts DEF Inv, TypeOK
<1>3. /\ FileOf(db, f) /\ w.job.type = "Upload" /\ w.meta = Meta(remote, p)
      /\ \E r \in RowOf(db, f) : r.path = p
  BY <1>1 DEF Solo, JobFits, UploadPc
<1>4. PICK q \in db.files : q.id = f /\ q.path = p /\ q.kind = "File"
  BY <1>2, <1>3 DEF FileOf, RowOf, Tidy, IdsOnce
<1>5. PICK cp \in NextConflictPaths(db, p) :
         IF ConflictFails(db, f, p, cp)
         THEN Abandon /\ UNCHANGED <<db, born>>
         ELSE /\ db' = IF w.meta = {} THEN ApplyConflict(db, f, p, cp)
                       ELSE EnsureRemoteRow(ApplyConflict(db, f, p, cp),
                                            The(w.meta), "Synced", FreshId)
              /\ Goto("u_finish")
  BY DEF UploadConflict
<1>6. CASE ConflictFails(db, f, p, cp)
  BY <1>1, <1>5, <1>6, JobGivenUp DEF Abandon
<1>7. CASE ~ConflictFails(db, f, p, cp)
  <2> DEFINE e == ApplyConflict(db, f, p, cp)
  <2>1. /\ e \in Database /\ Tidy(e) /\ Ids(e) \subseteq Ids(db)
        /\ Agrees(remote, e) /\ Carries(db, e, {f}) /\ Due(e, f, {})
    BY <1>2, <1>4, <1>7, ConflictAgrees DEF Solo
  <2>2. db' = (IF w.meta = {} THEN e ELSE EnsureRemoteRow(e, The(w.meta), "Synced", FreshId))
        /\ Goto("u_finish")
    BY <1>5, <1>7
  <2> HIDE DEF e
  <2>3. Agrees(remote, db') /\ Carries(e, db', {})
    <3>1. CASE w.meta = {}
      BY <2>1, <2>2, <3>1, CarriesSelf
    <3>2. CASE w.meta # {}
      <4>1. The(w.meta) \in remote
        BY <1>3, <3>2 DEF The, Meta
      <4>2. FreshId \notin Ids(e)
        BY <1>1, <1>2, <2>1, FreshNotThere
      <4>3. QED
        BY <2>1, <2>2, <3>2, <4>1, <4>2, EnsureAgrees DEF Solo
    <3>3. QED
      BY <3>1, <3>2
  <2>4. Carries(db, db', {f})
    BY <2>1, <2>3, CarriesMore, CarriesOn
  <2>5. Due(db', f, {})
    <3>1. Owing(e, [g \in FileId |-> IF g = f THEN 1 ELSE NoData], {})
      BY <1>2, <2>1, <1>3 DEF Owing, Carries, NoData
    <3>2. Owing(db', [g \in FileId |-> IF g = f THEN 1 ELSE NoData], {})
      BY <2>3, <3>1, OwingCarried
    <3>3. f \in FileId
      BY WorkerTypes DEF Inv
    <3>4. QED
      BY <3>2, <3>3 DEF Owing, NoData
  <2>6. Owing(db', edit, {})
    BY <1>2, <2>4, <2>5, OwingCarried
  <2>7. w'.pc = "u_finish" /\ w'.job = w.job
    BY <1>2, <2>2 DEF Goto, WorkerState
  <2>8. JobFits(w', db', remote) /\ SnapFits(w', db', remote) /\ Late(w') = {}
    <3>1. Taken(db', w'.job.id)
      BY <2>7 DEF Inv, FinishedJobGone, Taken
    <3>2. FileOf(db', f)
      BY <1>3, <2>4 DEF Carries
    <3>3. QED
      BY <1>3, <2>7, <3>1, <3>2 DEF JobFits, SnapFits, Late, UploadPc, TreePc
  <2>9. QED
    BY <1>1, <1>2, <2>3, <2>4, <2>6, <2>7, <2>8, JobSolo
<1>8. QED
  BY <1>6, <1>7

LEMMA UploadFinishSolo == ASSUME Inv, Safe, Solo, UploadFinish PROVE Solo'
<1>1. FinishJob(db, w.job.id) = db
  BY SoloFacts, FinishJobFollows DEF UploadFinish, At, Inv, FinishedJobGone
<1>2. QED
  BY <1>1, JobGivenUp DEF UploadFinish

LEMMA FaultSolo == ASSUME Inv, Safe, Solo, NetworkFails PROVE Solo'
<1>1. UNCHANGED <<db, cache, remote, th, edit>>
  BY DEF NetworkFails
<1>2. CASE CallFails /\ w.pc \in {"u_check", "u_put", "u_fetch"}
  <2>1. PICK kind : w' = [w EXCEPT !.pc = "fail", !.again = (kind = "retry")]
    BY <1>2 DEF CallFails
  <2>2. w'.pc = "fail" /\ w'.job = w.job
    BY <2>1 DEF Inv, TypeOK, WorkerState
  <2>3. JobFits(w', db, remote) /\ SnapFits(w', db, remote) /\ Late(w') = {}
    BY <1>2, <2>2 DEF Solo, JobFits, SnapFits, Late, UploadPc, TreePc
  <2>4. QED
    BY <1>1, <2>2, <2>3, JobMoves
<1>3. CASE Finish
  BY <1>1, <1>3, JobGivenUp
<1>4. w.pc \notin {"d_call", "m_call", "r_delete", "r_move", "l_get", "r_probe"}
  BY DEF Solo, JobFits, UploadPc, TreePc
<1>5. QED
  BY <1>2, <1>3, <1>4 DEF NetworkFails, CallAbandoned, Abandon, At

LEMMA WorkerSolo == ASSUME Inv, Inv', Safe, Solo, WorkerStep PROVE Solo'
<1>1. w.pc \in UploadPc \cup TreePc \cup {"idle", "start"}
  BY DEF Solo, JobFits
<1>2. CASE Poll
  <2>1. UNCHANGED vars
    BY <1>2 DEF Poll
  <2>2. \A t \in Thread : CallFits(th[t], remote, cache, Stores)
    BY DEF Solo
  <2>3. QED
    BY <2>1, <2>2, QuietSolo DEF vars
<1>3. \/ RecoverLease \/ Lease \/ Poll \/ Start \/ Fail
      \/ UploadMark \/ UploadCheck \/ UploadConflict \/ UploadFinish
      \/ UploadPut \/ UploadFetch \/ UploadCommit
  BY <1>1 DEF WorkerStep, UploadPc, TreePc, At, DeleteCall, DeleteCommit, MkdirCall, MkdirFetch,
              MkdirSynced, RenameProbe, RenameDelete, RenameMove, RenameFetch, RenameSynced,
              DownloadMark, DownloadGet, DownloadWrite, DownloadCommit
<1>4. QED
  BY <1>2, <1>3, RecoverLeaseSolo, LeaseSolo, StartSolo, FailSolo, UploadMarkSolo,
     UploadCheckSolo, UploadConflictSolo, UploadFinishSolo, UploadPutSolo, UploadFetchSolo,
     UploadCommitSolo
-----------------------------------------------------------------------------
(* process_refresh_tree, while no other client has changed the tree.          *)
LEMMA SeenAll ==
    ASSUME Inv, RefreshInv, Solo, spent.other = 0, w.pc \in {"f_snap", "f_begin", "f_apply"}
    PROVE  w.seen = remote
<1>1. w.before \in Nat /\ w.before <= spent.other
  BY DEF Inv, TypeOK, WorkerState, RefreshInv, Walking
<1>2. Whole(w.seen)
  BY <1>1 DEF RefreshInv, Still
<1>3. Rooted = remote
  BY DEF Rooted, Solo, Treed, Led
<1>4. QED
  BY <1>2, <1>3 DEF Whole

(* A page of the walk: it goes on, ends, or gives up.                         *)
LEMMA RefreshListMoves ==
    ASSUME Inv, RefreshList
    PROVE  Finish \/ (w'.pc \in {"f_list", "f_snap"} /\ w'.job = w.job)
<1>1. PICK p \in IF w.offset = 0 THEN w.walk ELSE {w.dir} :
        LET page == Page(remote, p, w.offset)
            last == LastPage(remote, p, w.offset)
            walk == (IF last THEN w.walk \ {p} ELSE w.walk)
                       \cup {x.path : x \in {y \in page : y.kind = "Dir"}}
        IN  IF \E x \in Meta(remote, p) : x.kind = "Dir"
            THEN w' = [w EXCEPT !.pc = IF walk = {} THEN "f_snap" ELSE "f_list",
                                !.walk = walk,
                                !.dir = IF last THEN RootPath ELSE p,
                                !.offset = IF last THEN 0 ELSE @ + PageSize,
                                !.seen = Listed(@, page \cup
                                   IF p = RootPath THEN Meta(remote, p) ELSE {})]
            ELSE Abandon
  BY DEF RefreshList
<1> DEFINE page == Page(remote, p, w.offset)
           last == LastPage(remote, p, w.offset)
           walk == (IF last THEN w.walk \ {p} ELSE w.walk)
                       \cup {x.path : x \in {y \in page : y.kind = "Dir"}}
           dir == IF last THEN RootPath ELSE p
           offset == IF last THEN 0 ELSE w.offset + PageSize
           seen == Listed(w.seen, page \cup IF p = RootPath THEN Meta(remote, p) ELSE {})
<1>2. Abandon \/ w' = [w EXCEPT !.pc = IF walk = {} THEN "f_snap" ELSE "f_list",
                                !.walk = walk, !.dir = dir, !.offset = offset, !.seen = seen]
  BY <1>1
<1> HIDE DEF walk, dir, offset, seen
<1>3. QED
  BY <1>2 DEF Abandon, Inv, TypeOK, WorkerState

LEMMA RefreshListSolo == ASSUME Inv, Safe, Solo, RefreshList PROVE Solo'
<1>1. w.pc = "f_list" /\ UNCHANGED <<db, cache, remote, th, edit>> /\ w \in WorkerState
  BY DEF RefreshList, At, Inv, TypeOK
<1>2. CASE Finish
  BY <1>1, <1>2, JobGivenUp
<1>3. CASE w'.pc \in {"f_list", "f_snap"} /\ w'.job = w.job
  <2>1. JobFits(w', db, remote) /\ SnapFits(w', db, remote) /\ Late(w') = {}
    BY <1>1, <1>3 DEF Solo, JobFits, SnapFits, Late, UploadPc, TreePc
  <2>2. QED
    BY <1>1, <1>3, <2>1, JobMoves
<1>4. QED
  BY <1>2, <1>3, RefreshListMoves

LEMMA RefreshSnapshotSolo == ASSUME Inv, Safe, Solo, RefreshSnapshot PROVE Solo'
<1>1. /\ w.pc = "f_snap" /\ UNCHANGED <<db, cache, remote, th, edit>> /\ w \in WorkerState
      /\ w' = [w EXCEPT !.pc = "f_begin", !.snap = db.files]
  BY DEF RefreshSnapshot, At, Inv, TypeOK
<1>2. w'.pc = "f_begin" /\ w'.snap = db.files /\ w'.job = w.job
  BY <1>1 DEF WorkerState
<1>3. Tidy(db) /\ Agrees(remote, db)
  BY SoloFacts
<1>4. SnapFits(w', db, remote)
  BY <1>2, <1>3 DEF SnapFits, Agrees, Tidy, IdsOnce, Placed, RowOf
<1>5. JobFits(w', db, remote) /\ Late(w') = {}
  BY <1>1, <1>2 DEF Solo, JobFits, Late, UploadPc, TreePc
<1>6. QED
  BY <1>1, <1>2, <1>4, <1>5, JobMoves

LEMMA RefreshBeginSolo == ASSUME Inv, Safe, Solo, RefreshBegin PROVE Solo'
<1>1. /\ w.pc = "f_begin" /\ UNCHANGED <<db, cache, remote, th, edit>> /\ w \in WorkerState
      /\ w' = [w EXCEPT !.pc = "f_apply", !.tx = db, !.todo = w.seen,
                        !.gone = {r \in w.snap : r.path # RootPath
                                                 /\ \A x \in w.seen : x.path # r.path}]
  BY DEF RefreshBegin, At, Inv, TypeOK
<1>2. /\ w'.pc = "f_apply" /\ w'.job = w.job /\ w'.tx = db /\ w'.todo = w.seen
      /\ w'.seen = w.seen /\ w'.snap = w.snap
      /\ w'.gone = {r \in w.snap : r.path # RootPath /\ \A x \in w.seen : x.path # r.path}
  BY <1>1 DEF WorkerState
<1>3. Stores' = {db} /\ Stores = {db} /\ Late(w') = {} /\ Late(w) = {}
  BY <1>1, <1>2 DEF Stores, Locked, Late
<1>4. SnapFits(w', db, remote)
  BY <1>1, <1>2 DEF Solo, SnapFits, Exists, Meta
<1>5. JobFits(w', db, remote)
  BY <1>1, <1>2 DEF Solo, JobFits, UploadPc, TreePc
<1>6. QED
  BY <1>1, <1>3, <1>4, <1>5 DEF Solo
-----------------------------------------------------------------------------
(* A step of the transaction that treats some of the snapshot's rows.         *)
LEMMA TxCarried ==
    ASSUME Inv, Safe, Solo, Locked, UNCHANGED <<db, cache, remote, th, edit>>,
           w'.pc = "f_apply", w'.job = w.job, w'.seen = w.seen, w'.snap = w.snap,
           w'.todo \subseteq w.todo, w'.gone \subseteq w.gone,
           NEW F, Carries(w.tx, w'.tx, F), Agrees(remote, w'.tx), Owing(w'.tx, edit, {}),
           \A l \in w.snap : l.id \in F => l \notin w'.gone /\ ~Exists(w'.todo, l.path)
    PROVE  Solo'
<1>1. ASSUME NEW l \in w.snap, l \in w'.gone \/ Exists(w'.todo, l.path) PROVE Placed(w'.tx, l)
  <2>1. l.id \notin F /\ (l \in w.gone \/ Exists(w.todo, l.path))
    BY <1>1 DEF Exists, Meta
  <2>2. PICK r \in w.tx.files : r.id = l.id /\ r.path = l.path /\ r.kind = l.kind
    BY <2>1 DEF Solo, SnapFits, Locked, Placed, RowOf
  <2>3. Placed(w'.tx, r)
    BY <2>1, <2>2 DEF Carries
  <2>4. QED
    BY <2>2, <2>3 DEF Placed
<1>2. SnapFits(w', db, remote)
  BY <1>1 DEF Solo, SnapFits, Locked
<1>3. QED
  BY <1>2, TxSolo

(* The local file of a conflict steps aside.                                  *)
LEMMA AsideFits ==
    ASSUME Inv, Safe, Solo, Locked, NEW l \in w.snap, l.sync \in Unsynced,
           l \in w.gone \/ Exists(w.todo, l.path),
           NEW cp \in NextConflictPaths(w.tx, l.path), ~ConflictFails(w.tx, l.id, l.path, cp)
    PROVE  LET e == ApplyConflict(w.tx, l.id, l.path, cp)
           IN  /\ e \in Database /\ Tidy(e) /\ Ids(e) \subseteq Ids(w.tx)
               /\ Agrees(remote, e) /\ Carries(w.tx, e, {l.id}) /\ Due(e, l.id, {})
               /\ FileOf(w.tx, l.id)
<1>1. RowFits(remote, l) /\ Placed(w.tx, l)
  BY DEF Solo, SnapFits, Locked
<1>2. PICK q \in w.tx.files : q.id = l.id /\ q.path = l.path /\ q.kind = l.kind
  BY <1>1 DEF Placed, RowOf
<1>3. q.kind = "File"
  <2>1. q.kind \in Kind
    BY <1>2, SoloFacts DEF Database, Row
  <2>2. CASE q.kind = "Dir"
    BY <1>1, <1>2, <2>2 DEF RowFits, Unsynced
  <2>3. QED
    BY <2>1, <2>2 DEF Kind
<1>4. FileOf(w.tx, l.id)
  BY <1>2, <1>3 DEF FileOf, RowOf
<1>5. QED
  BY <1>2, <1>3, <1>4, SoloFacts, ConflictAgrees DEF Solo

(* What is carried on beside the one that is due is owed.                     *)
LEMMA AsideOwing ==
    ASSUME NEW d, NEW e, NEW f, Owing(d, edit, {}), Carries(d, e, {f}), Due(e, f, {})
    PROVE  Owing(e, edit, {})
BY OwingCarried

LEMMA DueCarried ==
    ASSUME NEW d, NEW e, NEW f \in FileId, FileOf(d, f), Due(d, f, {}), Carries(d, e, {})
    PROVE  Due(e, f, {})
<1>1. Owing(d, [g \in FileId |-> IF g = f THEN 1 ELSE NoData], {})
  BY DEF Owing, NoData
<1>2. Owing(e, [g \in FileId |-> IF g = f THEN 1 ELSE NoData], {})
  BY <1>1, OwingCarried
<1>3. QED
  BY <1>2 DEF Owing, NoData
-----------------------------------------------------------------------------
LEMMA MergeConflictSolo ==
    ASSUME Inv, Safe, RefreshInv, Solo, spent.other = 0, Locked, FileId \ born # {},
           UNCHANGED <<db, cache, remote, th, edit>>, NEW res \in w.todo, MergeConflict(res)
    PROVE  Solo'
<1>0. PICK l \in Conflicting(res) : \E cp \in NextConflictPaths(w.tx, l.path) :
         IF ConflictFails(w.tx, l.id, l.path, cp)
         THEN Abandon /\ UNCHANGED born
         ELSE LET aside == ApplyConflict(w.tx, l.id, l.path, cp)
              IN  /\ w' = [w EXCEPT !.tx = EnsureRemoteRow(aside, res, "Synced", FreshId),
                                    !.todo = @ \ {res}]
                  /\ BornFor(aside, res)
  BY DEF MergeConflict
<1>1. PICK cp \in NextConflictPaths(w.tx, l.path) :
         IF ConflictFails(w.tx, l.id, l.path, cp)
         THEN Abandon /\ UNCHANGED born
         ELSE LET aside == ApplyConflict(w.tx, l.id, l.path, cp)
              IN  /\ w' = [w EXCEPT !.tx = EnsureRemoteRow(aside, res, "Synced", FreshId),
                                    !.todo = @ \ {res}]
                  /\ BornFor(aside, res)
  BY <1>0
<1>2. /\ l \in w.snap /\ l.path = res.path /\ l.sync \in Unsynced
      /\ Exists(w.todo, l.path)
  BY DEF Conflicting, Local, Exists, Meta
<1>3. w.seen = remote /\ w.todo \subseteq remote /\ w \in WorkerState
  <2>1. w.seen = remote
    BY SeenAll DEF Locked
  <2>2. QED
    BY <2>1 DEF Inv, TypeOK, Solo, SnapFits, Locked
<1>4. CASE ConflictFails(w.tx, l.id, l.path, cp)
  BY <1>1, <1>4, JobGivenUp DEF Abandon
<1>5. CASE ~ConflictFails(w.tx, l.id, l.path, cp)
  <2> DEFINE e == ApplyConflict(w.tx, l.id, l.path, cp)
             g == EnsureRemoteRow(e, res, "Synced", FreshId)
  <2>1. /\ e \in Database /\ Tidy(e) /\ Ids(e) \subseteq Ids(w.tx)
        /\ Agrees(remote, e) /\ Carries(w.tx, e, {l.id}) /\ Due(e, l.id, {})
        /\ FileOf(w.tx, l.id)
    BY <1>2, <1>5, AsideFits
  <2>2. w' = [w EXCEPT !.tx = g, !.todo = @ \ {res}]
    BY <1>1, <1>5
  <2> HIDE DEF e
  <2>3. Agrees(remote, g) /\ Carries(e, g, {})
    <3>1. FreshId \notin Ids(e)
      BY <2>1, SoloFacts, FreshNotThere
    <3>2. res \in remote
      BY <1>3
    <3>3. QED
      BY <2>1, <3>1, <3>2, EnsureAgrees DEF Solo
  <2> HIDE DEF g
  <2>4. Carries(w.tx, g, {l.id})
    BY <2>1, <2>3, CarriesMore, CarriesOn
  <2>5. Due(g, l.id, {})
    <3>1. l.id \in FileId /\ FileOf(e, l.id)
      <4>1. l \in Row
        BY <1>2, RefreshTypes
      <4>2. QED
        BY <2>1, <4>1 DEF Row, Carries
    <3>2. QED
      BY <2>1, <2>3, <3>1, DueCarried
  <2>6. Owing(g, edit, {})
    BY <2>4, <2>5, SoloFacts, AsideOwing
  <2>7. /\ w'.pc = "f_apply" /\ w'.job = w.job /\ w'.seen = w.seen /\ w'.snap = w.snap
        /\ w'.tx = g /\ w'.todo = w.todo \ {res} /\ w'.gone = w.gone
    BY <1>3, <2>2 DEF WorkerState, Locked
  <2>8. ASSUME NEW k \in w.snap, k.id = l.id PROVE k \notin w.gone /\ ~Exists(w.todo \ {res}, k.path)
    <3>1. k = l
      BY <1>2, <2>8 DEF Solo, SnapFits, Locked
    <3>2. l \notin w.gone
      BY <1>2, <1>3 DEF Solo, SnapFits, Locked, Exists, Meta
    <3>3. \A x \in w.todo : x.path = res.path => x = res
      BY <1>3 DEF Solo, Treed, Tree
    <3>4. QED
      BY <1>2, <3>1, <3>2, <3>3 DEF Exists, Meta
  <2>9. \A k \in w.snap : k.id \in {l.id} => k \notin w'.gone /\ ~Exists(w'.todo, k.path)
    BY <2>7, <2>8
  <2>10. QED
    BY <2>3, <2>4, <2>6, <2>7, <2>9, TxCarried
<1>6. QED
  BY <1>4, <1>5

LEMMA MergePlainSolo ==
    ASSUME Inv, Safe, RefreshInv, Solo, spent.other = 0, Locked, FileId \ born # {},
           UNCHANGED <<db, cache, remote, th, edit>>, NEW res \in w.todo, MergePlain(res)
    PROVE  Solo'
<1> DEFINE g == EnsureRemoteRow(w.tx, res, "Synced", FreshId)
<1>1. w' = [w EXCEPT !.tx = g, !.todo = @ \ {res}]
  BY DEF MergePlain
<1>2. res \in remote /\ w \in WorkerState
  <2>1. w.seen = remote
    BY SeenAll DEF Locked
  <2>2. QED
    BY <2>1 DEF Inv, TypeOK, Solo, SnapFits, Locked
<1>3. Agrees(remote, g) /\ Carries(w.tx, g, {})
  <2>1. FreshId \notin Ids(w.tx)
    BY SoloFacts, FreshNotThere
  <2>2. QED
    BY <1>2, <2>1, SoloFacts, EnsureAgrees DEF Solo
<1> HIDE DEF g
<1>4. Owing(g, edit, {})
  BY <1>3, SoloFacts, OwingCarried
<1>5. /\ w'.pc = "f_apply" /\ w'.job = w.job /\ w'.seen = w.seen /\ w'.snap = w.snap
      /\ w'.tx = g /\ w'.todo = w.todo \ {res} /\ w'.gone = w.gone
  BY <1>1, <1>2 DEF WorkerState, Locked
<1>6. QED
  BY <1>3, <1>4, <1>5, TxCarried

(* The rows of the cache are never older than the tree.                       *)
LEMMA NothingOutdated ==
    ASSUME Inv, Safe, RefreshInv, Solo, spent.other = 0, Locked, NEW res \in w.todo,
           Conflicting(res) = {}
    PROVE  Outdated(res) = {}
<1>1. SUFFICES ASSUME NEW l \in Outdated(res) PROVE FALSE
  OBVIOUS
<1>2. /\ l \in w.snap /\ l.path = res.path /\ res.kind = "File" /\ l.ver # res.ver
      /\ l.sync \notin Unsynced /\ l.kind \in Kind
  BY RefreshTypes DEF Outdated, Conflicting, Local, Row
<1>3. res \in remote
  <2>1. w.seen = remote
    BY SeenAll DEF Locked
  <2>2. QED
    BY <2>1 DEF Solo, SnapFits, Locked
<1>4. \A x \in Meta(remote, l.path) : x = res
  BY <1>2, <1>3 DEF Meta, Solo, Treed, Tree
<1>5. RowFits(remote, l)
  BY <1>2 DEF Solo, SnapFits, Locked
<1>6. QED
  BY <1>2, <1>4, <1>5 DEF RowFits, Kind

LEMMA RefreshMergeSolo ==
    ASSUME Inv, Safe, RefreshInv, Solo, spent.other = 0, RefreshMerge PROVE Solo'
<1>1. Locked /\ FileId \ born # {} /\ UNCHANGED <<db, cache, remote, th, edit>>
  BY DEF RefreshMerge, At, Locked
<1>2. PICK res \in w.todo : MergeConflict(res) \/ MergeOutdated(res) \/ MergePlain(res)
  BY DEF RefreshMerge
<1>3. ~MergeOutdated(res)
  BY <1>1, NothingOutdated DEF MergeOutdated
<1>4. QED
  BY <1>1, <1>2, <1>3, MergeConflictSolo, MergePlainSolo

(* What the server no longer has waits to be uploaded, or is a copy.          *)
LEMMA GoneUnsynced ==
    ASSUME Inv, Safe, RefreshInv, Solo, spent.other = 0, Locked, NEW l \in w.gone
    PROVE  l \in w.snap /\ l.sync \in Unsynced
<1>1. w.seen = remote
  BY SeenAll DEF Locked
<1>2. l \in w.snap /\ Meta(remote, l.path) = {}
  BY <1>1 DEF Solo, SnapFits, Locked, Exists
<1>3. RowFits(remote, l) /\ l.kind \in Kind
  BY <1>2, RefreshTypes DEF Solo, SnapFits, Locked, Row
<1>4. QED
  BY <1>2, <1>3 DEF RowFits, Kind

LEMMA RefreshDropSolo ==
    ASSUME Inv, Safe, RefreshInv, Solo, spent.other = 0, RefreshDrop
    PROVE  Solo' /\ UNCHANGED cache
<1>1. Locked /\ w.todo = {} /\ UNCHANGED <<db, remote, th, edit>> /\ w \in WorkerState
  BY DEF RefreshDrop, At, Locked, Inv, TypeOK
<1>2. PICK l \in w.gone : DropRow(l) \/ KeepCopy(l) \/ DropConflict(l)
  BY DEF RefreshDrop
<1>3. l \in w.snap /\ l.sync \in Unsynced
  BY <1>1, GoneUnsynced
<1>4. ~DropRow(l)
  BY <1>3 DEF DropRow, Unsynced
<1>5. UNCHANGED cache
  BY <1>2, <1>4 DEF KeepCopy, DropConflict
<1>6. CASE KeepCopy(l)
  <2>1. w' = [w EXCEPT !.gone = @ \ {l}]
    BY <1>6 DEF KeepCopy
  <2>2. /\ w'.pc = "f_apply" /\ w'.job = w.job /\ w'.seen = w.seen /\ w'.snap = w.snap
        /\ w'.tx = w.tx /\ w'.todo = w.todo /\ w'.gone = w.gone \ {l}
    BY <1>1, <2>1 DEF WorkerState, Locked
  <2>3. QED
    BY <1>1, <1>5, <2>2, SoloFacts, CarriesSelf, TxCarried
<1>7. CASE DropConflict(l)
  <2>1. PICK cp \in NextConflictPaths(w.tx, l.path) :
          IF ConflictFails(w.tx, l.id, l.path, cp) THEN Abandon
          ELSE w' = [w EXCEPT !.tx = ApplyConflict(w.tx, l.id, l.path, cp),
                              !.gone = @ \ {l}]
    BY <1>7 DEF DropConflict
  <2>2. CASE ConflictFails(w.tx, l.id, l.path, cp)
    BY <1>1, <1>5, <2>1, <2>2, JobGivenUp DEF Abandon
  <2>3. CASE ~ConflictFails(w.tx, l.id, l.path, cp)
    <3> DEFINE e == ApplyConflict(w.tx, l.id, l.path, cp)
    <3>1. Agrees(remote, e) /\ Carries(w.tx, e, {l.id}) /\ Due(e, l.id, {})
      BY <1>1, <1>3, <2>3, AsideFits
    <3>2. w' = [w EXCEPT !.tx = e, !.gone = @ \ {l}]
      BY <2>1, <2>3
    <3> HIDE DEF e
    <3>3. Owing(e, edit, {})
      BY <1>1, <3>1, SoloFacts, AsideOwing
    <3>4. /\ w'.pc = "f_apply" /\ w'.job = w.job /\ w'.seen = w.seen /\ w'.snap = w.snap
          /\ w'.tx = e /\ w'.todo = w.todo /\ w'.gone = w.gone \ {l}
      BY <1>1, <3>2 DEF WorkerState, Locked
    <3>5. \A k \in w.snap : k.id = l.id => k = l
      BY <1>1, <1>3 DEF Solo, SnapFits, Locked
    <3>6. \A k \in w.snap : k.id \in {l.id} => k \notin w'.gone /\ ~Exists(w'.todo, k.path)
      BY <1>1, <3>4, <3>5 DEF Exists, Meta
    <3>7. QED
      BY <1>1, <1>5, <3>1, <3>3, <3>4, <3>6, TxCarried
  <2>4. QED
    BY <2>2, <2>3
<1>8. QED
  BY <1>2, <1>4, <1>5, <1>6, <1>7

LEMMA RefreshCommitSolo == ASSUME Inv, Safe, Solo, RefreshCommit PROVE Solo'
<1>1. /\ Locked /\ db' = w.tx /\ UNCHANGED <<cache, remote, th, edit>> /\ w \in WorkerState
      /\ w' = [w EXCEPT !.pc = "f_done", !.tx = NoTx, !.seen = {}, !.snap = {},
                        !.before = 0]
  BY DEF RefreshCommit, At, Locked, Inv, TypeOK
<1>2. w'.pc = "f_done" /\ w'.job = w.job
  BY <1>1 DEF WorkerState
<1>3. JobFits(w', db', remote) /\ SnapFits(w', db', remote) /\ Late(w') = {}
  BY <1>1, <1>2 DEF Solo, JobFits, SnapFits, Late, UploadPc, TreePc, Locked
<1>4. w.tx \in Stores /\ Agrees(remote, w.tx) /\ Owing(w.tx, edit, {})
  BY <1>1, SoloFacts
<1>5. QED
  BY <1>1, <1>2, <1>3, <1>4, CarriesSelf, JobSolo

LEMMA RefreshDoneSolo == ASSUME Inv, Safe, Solo, RefreshDone PROVE Solo'
<1>1. /\ w.pc = "f_done" /\ db' = DropOp(db, w.job.id) /\ Finish
      /\ UNCHANGED <<cache, remote, th, edit>>
  BY DEF RefreshDone, At
<1>2. \A o \in db.queue : o.id = w.job.id => o.type # "Upload"
  BY <1>1, JobFacts DEF Solo, JobFits, TreePc
<1>3. Agrees(remote, db') /\ Carries(db, db', {})
  BY <1>1, <1>2, SoloFacts, DropOpAgrees
<1>4. Owing(db', edit, {})
  <2>1. Late(w) = {}
    BY <1>1 DEF Late
  <2>2. QED
    BY <1>3, <2>1, SoloFacts, OwingCarried
<1>5. QED
  BY <1>1, <1>3, <1>4, SoloFacts, JobOver

LEMMA RefreshSolo ==
    ASSUME Inv, Safe, RefreshInv, Solo, spent.other = 0, RefreshStep PROVE Solo'
BY RefreshListSolo, RefreshSnapshotSolo, RefreshBeginSolo, RefreshMergeSolo, RefreshDropSolo,
   RefreshCommitSolo, RefreshDoneSolo DEF RefreshStep
-----------------------------------------------------------------------------
(* A kill between two statements leaves what agrees with the tree, and an     *)
(* edit goes on waiting.                                                       *)
LEMMA HalfCallAgrees ==
    ASSUME Inv, Safe, Solo, ~Locked, NEW t \in Thread, NEW left \in HalfCall(t)
    PROVE  Agrees(remote, left) /\ Owing(left, edit, {})
<1> DEFINE f == th[t].entry.id
<1>1. /\ db \in Database /\ Tidy(db) /\ Agrees(remote, db) /\ Owing(db, edit, {})
      /\ db \in Stores /\ Ids(db) \subseteq born \ Reserved
  BY SoloFacts, OwingEnded
<1>2. CallFits(th[t], remote, cache, Stores)
  BY DEF Solo
<1>3. CASE th[t].pc = "create"
  <2>1. left = InsertRow(db, th[t].entry)
    BY <1>3 DEF HalfCall, Inserted
  <2>2. f \notin Ids(db) /\ RowFits(remote, th[t].entry)
    <3>1. f \notin Ids(db)
      BY <1>1, <1>3 DEF Reserved, Creating
    <3>2. th[t].entry.sync = "QueuedUpload"
      BY <1>3 DEF Inv, NewRowsQueued
    <3>3. QED
      BY <1>2, <1>3, <3>1, <3>2 DEF CallFits, RowFits, Unsynced
  <2>3. Agrees(remote, left) /\ Carries(db, left, {})
    BY <1>1, <2>1, <2>2, InsertAgrees
  <2>4. QED
    BY <1>1, <2>3, OwingCarried
<1>4. CASE th[t].pc = "apply"
  <2>1. left = SetCached(db, f, "QueuedUpload")
    BY <1>4 DEF HalfCall, Written
  <2>2. Painted(db, left, f) /\ \A q \in RowOf(left, f) : q.sync = "QueuedUpload"
    BY <1>1, <2>1, SetCachedPaints
  <2>3. FileOf(db, f)
    BY <1>1, <1>2, <1>4 DEF CallFits
  <2>4. \A q \in RowOf(left, f) : q.sync \in Unsynced
    BY <2>2 DEF Unsynced
  <2>5. Agrees(remote, left) /\ Carries(db, left, {})
    BY <1>1, <2>2, <2>3, <2>4, PaintedAgrees
  <2>6. QED
    BY <1>1, <2>5, OwingCarried
<1>5. QED
  BY <1>2, <1>3, <1>4 DEF CallFits, HalfCall

LEMMA HalfJobAgrees ==
    ASSUME Inv, Safe, Solo, ~Locked, NEW left \in HalfJob
    PROVE  Agrees(remote, left) /\ Owing(left, edit, {})
<1> DEFINE f == w.job.file
<1>1. /\ db \in Database /\ Tidy(db) /\ Agrees(remote, db) /\ Owing(db, edit, Late(w))
      /\ f \in FileId
  BY SoloFacts, WorkerTypes DEF Inv
<1>2. w.pc \in UploadPc \cup TreePc \cup {"idle", "start"}
  BY DEF Solo, JobFits
<1>3. CASE w.pc = "u_commit"
  <2>1. w.meta # {} /\ left = SetSynced(db, f, RemoteVersion(w.meta))
    BY <1>3 DEF HalfJob
  <2>2. left.queue = db.queue /\ Agrees(remote, left) /\ Carries(db, left, {f})
    BY <1>3, <2>1, SyncedAgrees
  <2>3. ASSUME edit[f] # NoData PROVE Due(left, f, {})
    <3>1. Due(db, f, {w.job})
      BY <1>1, <1>3, <2>3 DEF Owing, Late
    <3>2. QED
      BY <2>2, <3>1 DEF Due
  <2>4. QED
    BY <1>1, <2>2, <2>3, OwingEnded, OwingCarried
<1>4. CASE w.pc = "fail"
  <2>1. \A r \in RowOf(db, f) : r.sync # "Synced"
    BY <1>4 DEF Solo, JobFits, UploadPc
  <2>2. Owing(db, edit, {})
    BY <1>1, OwingEnded
  <2>3. CASE w.again
    <3>1. left = SetStatus(db, w.job.id, "Retryable")
      BY <1>4, <2>3 DEF HalfJob
    <3>2. Agrees(remote, left) /\ Carries(db, left, {})
      BY <1>1, <3>1, SetStatusAgrees
    <3>3. QED
      BY <2>2, <3>2, OwingCarried
  <2>4. CASE ~w.again
    <3>1. left = DropOp(db, w.job.id)
      BY <1>4, <2>4 DEF HalfJob
    <3>2. \A o \in db.queue : o.id = w.job.id => o.file = f
      BY <1>4, JobFacts
    <3>3. Agrees(remote, left) /\ Carries(db, left, {f})
      BY <1>1, <3>1, <3>2, DropOpAgrees
    <3>4. left.files = db.files
      BY <1>1, <3>1 DEF DropOp, Database
    <3>5. Due(left, f, {})
      BY <2>1, <3>4 DEF Due, RowOf
    <3>6. QED
      BY <2>2, <3>3, <3>5, OwingCarried
  <2>5. QED
    BY <2>3, <2>4
<1>5. QED
  BY <1>2, <1>3, <1>4 DEF HalfJob, UploadPc, TreePc

LEMMA CrashSolo == ASSUME Inv, Safe, Solo, CrashRestart PROVE Solo'
<1>1. /\ th' = [t \in Thread |-> IdleThread] /\ w' = IdleWorker
      /\ UNCHANGED <<cache, remote, edit>>
  BY DEF CrashRestart
<1>2. PICK left : left \in {db} \cup LeftBehind /\ Reopen(left)
  BY DEF CrashRestart
<1>3. Agrees(remote, left) /\ Owing(left, edit, {}) /\ left \in Database
  <2>1. CASE left = db
    BY <2>1, SoloFacts, OwingEnded
  <2>2. CASE left \in LeftBehind
    <3>1. ~Locked /\ (left \in HalfJob \/ \E t \in Thread : left \in HalfCall(t))
      BY <2>2 DEF LeftBehind
    <3>2. left \in Database
      BY <3>1, HalfJobFollows, HalfCallFollows DEF Follows, Sound
    <3>3. QED
      BY <3>1, <3>2, HalfJobAgrees, HalfCallAgrees
  <2>3. QED
    BY <1>2, <2>1, <2>2
<1>4. Agrees(remote, db') /\ Owing(db', edit, {})
  <2> DEFINE e == Upsert(left, Root, "RefreshTree", RootPath, RootPath)
  <2>1. Agrees(remote, e) /\ Carries(left, e, {})
    BY <1>3, RefreshQueued
  <2>2. db' = e
    BY <1>2 DEF Reopen
  <2> HIDE DEF e
  <2>3. QED
    BY <1>3, <2>1, <2>2, OwingCarried
<1>5. Stores' = {db'} /\ Late(w') = {}
  BY <1>1 DEF Stores, Locked, IdleWorker, Late
<1>6. \A t \in Thread : CallFits(th'[t], remote, cache, {db'})
  BY <1>1, IdleFits
<1>7. QED
  BY <1>1, <1>4, <1>5, <1>6, NoJobFits DEF Solo
-----------------------------------------------------------------------------
(* The tree at the start, and the rows of what is known of it.                *)
LEMMA InitSolo == ASSUME EditsApart, Inv, RefreshInv, Init PROVE Solo
<1> DEFINE res(e) == [path |-> e.path, kind |-> e.kind, ver |-> 1,
                      data |-> IF e.kind = "File" THEN 1 ELSE NoData]
           row(e) == [id |-> e.id, path |-> e.path, kind |-> e.kind, sync |-> "Synced",
                      ver |-> 1, cached |-> e.local = "cached"]
           known == {x \in InitTree : x.local # "unknown"}
           start == [files |-> {RootRow} \cup {row(e) : e \in known},
                     queue |-> {}, copies |-> {}, nextOp |-> 1]
<1>1. /\ remote = {RootResource} \cup {res(e) : e \in InitTree}
      /\ db = Upsert(start, Root, "RefreshTree", RootPath, RootPath)
      /\ th = [t \in Thread |-> IdleThread] /\ w = IdleWorker
      /\ edit = [f \in FileId |-> NoData]
  BY DEF Init
<1>2. \A e \in InitTree : e.path \in Path /\ e.path # RootPath /\ e.kind \in Kind /\ e.id \in FileId
  BY StateAssumption DEF InitEntry
<1>3. \A e \in InitTree : res(e).path = e.path /\ res(e).kind = e.kind /\ res(e).ver = 1
  OBVIOUS
<1>4. \A e \in InitTree : row(e).path = e.path /\ row(e).kind = e.kind
                          /\ row(e).sync = "Synced" /\ row(e).ver = 1
  OBVIOUS
<1>5. start \in Database
  <2>1. \A e \in InitTree : row(e) \in Row
    BY <1>2 DEF Row, SyncState
  <2>2. start.files \in SUBSET Row
    BY <2>1, RootTypes
  <2>3. QED
    BY <2>2 DEF Database
<1>6. \A x \in remote : x = RootResource \/ \E e \in InitTree : x = res(e)
  BY <1>1
<1>7. \A e \in InitTree : res(e) \in remote
  BY <1>1
<1>8. start.files = {RootRow} \cup {row(e) : e \in known} /\ start.queue = {}
  OBVIOUS
<1> HIDE DEF res, row, start
<1>9. /\ \E y \in Meta(remote, RootPath) : y.kind = "Dir"
      /\ RootResource.path = RootPath /\ RootRow.path = RootPath /\ RootRow.kind = "Dir"
      /\ RootRow \in start.files
  <2>1. RootResource \in remote /\ RootRow \in start.files
    BY <1>1, <1>8
  <2>2. RootResource.path = RootPath /\ RootResource.kind = "Dir"
    BY DEF RootResource
  <2>3. RootRow.path = RootPath /\ RootRow.kind = "Dir"
    BY DEF RootRow
  <2>4. QED
    BY <2>1, <2>2, <2>3 DEF Meta
<1>10. ASSUME NEW e \in InitTree PROVE Led(remote, e.path)
  <2>1. SUFFICES ASSUME NEW k \in 0 .. Len(e.path) - 1
                 PROVE  \E y \in Meta(remote, SubSeq(e.path, 1, k)) : y.kind = "Dir"
    BY DEF Led
  <2>2. CASE k = 0
    <3>1. SubSeq(e.path, 1, k) = RootPath
      BY <1>2, <2>2 DEF Path, RootPath
    <3>2. QED
      BY <1>9, <3>1
  <2>3. CASE k # 0
    <3>1. k \in 1 .. Len(e.path) - 1
      BY <1>2, <2>3 DEF Path
    <3>2. PICK g \in InitTree : g.kind = "Dir" /\ g.path = SubSeq(e.path, 1, k)
      BY <3>1 DEF EditsApart
    <3>3. QED
      BY <1>3, <1>7, <3>2 DEF Meta
  <2>4. QED
    BY <2>2, <2>3
<1>11. Treed(remote)
  <2>1. Led(remote, RootPath)
    BY DEF Led, RootPath
  <2>2. \A x \in remote : Led(remote, x.path)
    BY <1>3, <1>6, <1>10, <2>1 DEF RootResource
  <2>3. QED
    BY <1>9, <2>2 DEF Treed, Inv, TypeOK, RefreshInv
<1>12. Agrees(remote, start)
  <2>1. RowFits(remote, RootRow)
    BY <1>9 DEF RowFits, RootRow, Led, RootPath
  <2>2. ASSUME NEW e \in known PROVE RowFits(remote, row(e))
    <3>1. e \in InitTree /\ res(e) \in Meta(remote, e.path)
      BY <1>3, <1>7 DEF Meta
    <3>2. QED
      BY <1>2, <1>3, <1>4, <1>10, <3>1 DEF RowFits
  <2>3. ASSUME NEW x \in remote, x.kind = "Dir" PROVE \E r \in RowAt(start, x.path) : r.kind = "Dir"
    <3>1. CASE x = RootResource
      BY <1>9, <3>1 DEF RowAt
    <3>2. CASE x # RootResource
      <4>1. PICK e \in InitTree : x = res(e)
        BY <1>6, <3>2
      <4>2. e \in known
        BY <1>3, <2>3, <4>1 DEF EditsApart
      <4>3. QED
        BY <1>3, <1>4, <1>8, <2>3, <4>1, <4>2 DEF RowAt
    <3>3. QED
      BY <3>1, <3>2
  <2>4. QED
    BY <1>8, <2>1, <2>2, <2>3 DEF Agrees
<1>13. Agrees(remote, db)
  <2> DEFINE e == Upsert(start, Root, "RefreshTree", RootPath, RootPath)
  <2>1. Agrees(remote, e)
    BY <1>5, <1>12, RefreshQueued
  <2> HIDE DEF e
  <2>2. QED
    BY <1>1, <2>1 DEF e
<1>14. Owing(db, edit, {})
  BY <1>1 DEF Owing
<1>15. Stores = {db} /\ Late(w) = {}
  BY <1>1 DEF Stores, Locked, IdleWorker, Late
<1>16. \A t \in Thread : CallFits(th[t], remote, cache, {db})
  BY <1>1, IdleFits
<1>17. QED
  BY <1>1, <1>11, <1>13, <1>14, <1>15, <1>16, NoJobFits DEF Solo
-----------------------------------------------------------------------------
(* The invariant: programs or other clients, never both.  Where there was no  *)
(* call there is no edit; where no other client was, what waits agrees with   *)
(* the tree.                                                                   *)
Worlds ==
    /\ spent.user = 0 \/ spent.other = 0
    /\ spent.user = 0 => /\ \A f \in FileId : edit[f] = NoData
                         /\ \A t \in Thread : th[t].pc = "idle"
    /\ spent.other = 0 => Solo

LEMMA StepCounted == ASSUME [Next]_vars PROVE Counted
<1>1. CASE WorkerStep
  BY <1>1 DEF WorkerStep, RecoverLease, Lease, Poll, Start, Fail, UploadMark, UploadCheck,
     UploadConflict, UploadFinish, UploadPut, UploadFetch, UploadCommit, CommitSynced,
     DeleteCall, DeleteCommit, MkdirCall, MkdirFetch, MkdirSynced, RenameProbe, RenameDelete,
     RenameMove, RenameFetch, RenameSynced, DownloadMark, DownloadGet, DownloadWrite,
     DownloadCommit, Counted, vars
<1>2. CASE RefreshStep
  BY <1>2 DEF RefreshStep, RefreshList, RefreshSnapshot, RefreshBegin, RefreshMerge, RefreshDrop,
     RefreshCommit, RefreshDone, Counted
<1>3. CASE RequestRefresh \/ NetworkFails \/ OtherClient \/ CrashRestart
  BY <1>3 DEF RequestRefresh, NetworkFails, OtherClient, OtherPut, OtherDelete, CrashRestart,
     Counted
<1>4. CASE UNCHANGED vars
  BY <1>4 DEF vars, Counted
<1>5. QED
  BY <1>1, <1>2, <1>3, <1>4, CallCounted DEF Next

LEMMA SpentApart ==
    ASSUME EditsApart, TypeOK, Counted, spent.user = 0 \/ spent.other = 0
    PROVE  /\ spent.user \in Nat /\ spent.other \in Nat
           /\ spent'.user = 0 \/ spent'.other = 0
           /\ spent'.user = 0 => spent.user = 0 /\ ~Spend("user")
           /\ spent'.other = 0 => spent.other = 0 /\ ~Spend("other")
<1>1. spent \in [EventKind -> Nat] /\ {"user", "other"} \subseteq EventKind
  BY DEF TypeOK, Events, EventKind
<1>2. spent.user \in Nat /\ spent.other \in Nat
  BY <1>1
<1>3. CASE UNCHANGED spent
  <2>1. ~Spend("user") /\ ~Spend("other")
    BY <1>1, <1>2, <1>3 DEF Spend
  <2>2. QED
    BY <1>2, <1>3, <2>1
<1>4. CASE \E kind : Spend(kind)
  <2>1. PICK kind : Spend(kind)
    BY <1>4
  <2>2. /\ spent' = [spent EXCEPT ![kind] = @ + 1]
        /\ \E limit \in Limits : \A k \in EventKind : spent'[k] <= limit[k]
    BY <2>1 DEF Spend
  <2>3. PICK limit \in Limits : \A k \in EventKind : spent'[k] <= limit[k]
    BY <2>2
  <2>4. /\ spent'.user \in {spent.user, spent.user + 1}
        /\ spent'.other \in {spent.other, spent.other + 1}
    BY <1>1, <2>2
  <2>5. limit.user = 0 \/ limit.other = 0
    BY <2>3 DEF EditsApart
  <2>6. spent'.user <= limit.user /\ spent'.other <= limit.other
    BY <1>1, <2>3
  <2>7. spent'.user = 0 \/ spent'.other = 0
    BY <1>2, <2>4, <2>5, <2>6
  <2>8. Spend("user") => spent'.user = spent.user + 1
    BY <1>1 DEF Spend
  <2>9. Spend("other") => spent'.other = spent.other + 1
    BY <1>1 DEF Spend
  <2>10. QED
    BY <1>2, <2>4, <2>7, <2>8, <2>9
<1>5. QED
  BY <1>3, <1>4 DEF Counted

LEMMA SoloKept ==
    ASSUME EditsApart, Inv, Inv', Safe, RefreshInv, Solo, spent.other = 0, [Next]_vars,
           ~Spend("other")
    PROVE  Solo'
<1>1. CASE UNCHANGED vars
  <2>1. \A t \in Thread : CallFits(th[t], remote, cache, Stores)
    BY DEF Solo
  <2>2. QED
    BY <1>1, <2>1, QuietSolo DEF vars
<1>2. CASE \E t \in Thread : Call(t) \/ CallStep(t)
  BY <1>2, CallsSolo
<1>3. ~OtherClient
  BY DEF OtherClient, OtherPut, OtherDelete
<1>4. QED
  BY <1>1, <1>2, <1>3, WorkerSolo, RefreshSolo, FaultSolo, RequestRefreshSolo, CrashSolo DEF Next

(* Without calls there are no edits.                                          *)
LEMMA NoEdits ==
    ASSUME \A f \in FileId : edit[f] = NoData, \A t \in Thread : th[t].pc = "idle",
           Inv, [Next]_vars, ~Spend("user")
    PROVE  /\ \A f \in FileId : edit'[f] = NoData
           /\ \A t \in Thread : th'[t].pc = "idle"
<1>0. edit \in [FileId -> Nat]
  BY DEF Inv, TypeOK
<1>1. \A t \in Thread : ~Call(t) /\ ~CallStep(t)
  BY DEF Call, CreateFile, MakeDir, WriteFile, Unlink, Rename, ReadFile, MayCall, CallStep,
     CreateCommit, MkdirCommit, WriteCopy, WriteCommit, UnlinkCommit, RenameCommit,
     ReadDownload, ReadDownloadFails, ReadStore, ReadCommit
<1>2. CASE CrashRestart
  BY <1>2 DEF CrashRestart, IdleThread
<1>3. CASE UploadPut
  BY <1>0, <1>3 DEF UploadPut
<1>4. CASE UNCHANGED <<edit, th>>
  BY <1>4
<1>5. CASE WorkerStep
  <2>1. UploadPut \/ UNCHANGED <<edit, th>>
    BY <1>5 DEF WorkerStep, RecoverLease, Lease, Poll, Start, Fail, UploadMark, UploadCheck,
     UploadConflict, UploadFinish, UploadFetch, UploadCommit, CommitSynced,
     DeleteCall, DeleteCommit, MkdirCall, MkdirFetch, MkdirSynced, RenameProbe, RenameDelete,
     RenameMove, RenameFetch, RenameSynced, DownloadMark, DownloadGet, DownloadWrite,
     DownloadCommit, vars
  <2>2. QED
    BY <1>3, <1>4, <2>1
<1>6. CASE RefreshStep
  <2>1. UNCHANGED <<edit, th>>
    BY <1>6 DEF RefreshStep, RefreshList, RefreshSnapshot, RefreshBegin, RefreshMerge,
       RefreshDrop, RefreshCommit, RefreshDone
  <2>2. QED
    BY <1>4, <2>1
<1>7. CASE RequestRefresh \/ NetworkFails \/ OtherClient \/ UNCHANGED vars
  <2>1. UNCHANGED <<edit, th>>
    BY <1>7 DEF RequestRefresh, NetworkFails, OtherClient, OtherPut, OtherDelete, vars
  <2>2. QED
    BY <1>4, <2>1
<1>8. QED
  BY <1>1, <1>2, <1>5, <1>6, <1>7 DEF Next

LEMMA WorldsKept ==
    ASSUME EditsApart, Inv, Inv', Safe, RefreshInv, Worlds, [Next]_vars PROVE Worlds'
<1>1. /\ spent'.user = 0 \/ spent'.other = 0
      /\ spent'.user = 0 => spent.user = 0 /\ ~Spend("user")
      /\ spent'.other = 0 => spent.other = 0 /\ ~Spend("other")
  BY StepCounted, SpentApart DEF Worlds, Inv
<1>2. spent'.user = 0 => /\ \A f \in FileId : edit'[f] = NoData
                         /\ \A t \in Thread : th'[t].pc = "idle"
  BY <1>1, NoEdits DEF Worlds
<1>3. spent'.other = 0 => Solo'
  BY <1>1, SoloKept DEF Worlds
<1>4. QED
  BY <1>1, <1>2, <1>3 DEF Worlds

LEMMA InitWorlds == ASSUME EditsApart, Inv, RefreshInv, Init PROVE Worlds
<1>1. spent.user = 0 /\ spent.other = 0
  BY DEF Init, EventKind
<1>2. /\ \A f \in FileId : edit[f] = NoData
      /\ \A t \in Thread : th[t].pc = "idle"
  BY DEF Init, IdleThread
<1>3. QED
  BY <1>1, <1>2, InitSolo DEF Worlds

(* The invariant holds in every state: as long as only programs have changed  *)
(* anything, rows, operations, calls, the worker and its refresh all agree     *)
(* with the remote tree, and each edit has a row that is not Synced or an       *)
(* upload other than the one the worker has sent and is about to mark as done  *)
(* (process_upload): what that one says of the row, it says of other bytes.    *)
THEOREM WorldsInvariance ==
    ASSUME EditsApart PROVE Spec => [](Inv /\ Safe /\ RefreshInv /\ Worlds)
<1>1. Init => Inv /\ Safe /\ RefreshInv /\ Worlds
  BY InitInv, InitSafe, InitMirrors, InitWorlds
<1>2. (Inv /\ Safe /\ RefreshInv /\ Worlds) /\ [Next]_vars
         => (Inv /\ Safe /\ RefreshInv /\ Worlds)'
  BY NextKeeps, SafeKept, MirrorsKept, WorldsKept
<1>3. QED
  BY <1>1, <1>2, PTL DEF Spec
-----------------------------------------------------------------------------
(* The refinement mapping of Promise.                                         *)
Owed   == {f \in FileId : edit[f] # NoData}
InHand == {th[t].entry.id : t \in {u \in Thread : th[u].pc \in {"copy", "unlink"}}}
Clean  == {r.id : r \in {q \in db.files : q.sync = "Synced" /\ OpsOf(q.id, {"Upload"}) = {}}}

(* What a step does to them, but for the calls.                               *)
LEMMA StepShapes ==
    ASSUME [Next]_vars
    PROVE  \/ \E t \in Thread : Call(t) \/ CallStep(t)
           \/ UploadPut \/ DownloadWrite \/ RefreshDrop \/ CrashRestart
           \/ UNCHANGED <<db, cache, edit, th>>
           \/ UNCHANGED <<cache, edit, remote, th>>
<1>1. CASE WorkerStep
  <2>1. CASE \/ RecoverLease \/ Lease \/ Poll \/ Start \/ Fail
             \/ UploadMark \/ UploadCheck \/ UploadConflict \/ UploadFinish
             \/ UploadFetch \/ UploadCommit \/ DeleteCommit
    BY <2>1 DEF RecoverLease, Lease, Poll, Start, Fail, UploadMark, UploadCheck, UploadConflict,
       UploadFinish, UploadFetch, UploadCommit, CommitSynced, DeleteCommit, vars
  <2>2. CASE \/ MkdirFetch \/ MkdirSynced \/ RenameProbe \/ RenameFetch \/ RenameSynced
             \/ DownloadMark \/ DownloadGet \/ DownloadCommit
    BY <2>2 DEF MkdirFetch, MkdirSynced, CommitSynced, RenameProbe, RenameFetch, RenameSynced,
       DownloadMark, DownloadGet, DownloadCommit
  <2>3. CASE DeleteCall \/ MkdirCall \/ RenameDelete \/ RenameMove
    BY <2>3 DEF DeleteCall, MkdirCall, RenameDelete, RenameMove
  <2>4. QED
    BY <1>1, <2>1, <2>2, <2>3 DEF WorkerStep
<1>2. CASE RefreshStep
  BY <1>2 DEF RefreshStep, RefreshList, RefreshSnapshot, RefreshBegin, RefreshMerge,
     RefreshCommit, RefreshDone
<1>3. CASE RequestRefresh \/ NetworkFails \/ OtherClient \/ UNCHANGED vars
  BY <1>3 DEF RequestRefresh, NetworkFails, OtherClient, OtherPut, OtherDelete, vars
<1>4. QED
  BY <1>1, <1>2, <1>3 DEF Next

(* What owes an edit is not clean.                                            *)
LEMMA OwedNotClean ==
    ASSUME NEW d, NEW edits, NEW ending, Owing(d, edits, ending),
           NEW f \in FileId, edits[f] # NoData,
           NEW r \in d.files, r.id = f, r.sync = "Synced"
    PROVE  \E o \in d.queue : o.file = f /\ o.type = "Upload"
BY DEF Owing, Due, RowOf

LEMMA OwedKept ==
    ASSUME Worlds, NEW f \in FileId, edit[f] # NoData
    PROVE  Solo /\ spent.other = 0 /\ FileOf(db, f)
<1>1. spent.other = 0 /\ Solo
  BY DEF Worlds
<1>2. Owing(db, edit, Late(w))
  BY <1>1 DEF Solo, Stores
<1>3. QED
  BY <1>1, <1>2 DEF Owing

LEMMA CleanAfter == ASSUME Worlds' PROVE Owed' \cap Clean' = {}
<1>1. SUFFICES ASSUME NEW f \in FileId, edit'[f] # NoData,
                      NEW r \in db'.files, r.id = f, r.sync = "Synced",
                      \A o \in db'.queue : o.file = f => o.type # "Upload"
               PROVE  FALSE
  BY DEF Owed, Clean, OpsOf
<1>2. Solo'
  BY <1>1 DEF Worlds
<1>3. Owing(db', edit', Late(w'))
  BY <1>2 DEF Solo, Stores
<1>4. QED
  BY <1>1, <1>3, OwedNotClean
-----------------------------------------------------------------------------
(* The steps of LocalFirst.                                                   *)
LEMMA ReviewStep ==
    ASSUME TypeOK', Worlds', UNCHANGED <<cache, edit, remote>>, InHand' \subseteq InHand
    PROVE  Promise!Next
<1>1. Clean' \subseteq FileId
  BY DEF Clean, TypeOK, Database, Row
<1>2. Owed' = Owed /\ \A f \in Clean' \ Clean : f \notin Owed
  BY CleanAfter DEF Owed
<1>3. Promise!Review
  BY <1>1, <1>2 DEF Promise!Review, Owed, Clean, InHand
<1>4. QED
  BY <1>3 DEF Promise!Next

LEMMA ElsewhereStep ==
    ASSUME TypeOK', UNCHANGED <<db, cache, th>>, Owed' = Owed PROVE Promise!Next
<1>1. {x.data : x \in remote}' \subseteq Nat
  BY DEF TypeOK, Resource
<1>2. Clean' = Clean /\ InHand' = InHand
  BY DEF Clean, InHand, OpsOf
<1>3. Promise!Elsewhere
  BY <1>1, <1>2 DEF Promise!Elsewhere, Owed, Clean, InHand
<1>4. QED
  BY <1>3 DEF Promise!Next

LEMMA LoadStep ==
    ASSUME TypeOK, TypeOK', UNCHANGED <<db, edit, remote>>, InHand' = InHand,
           NEW f \in FileId, f \notin Owed,
           NEW x, cache' = [cache EXCEPT ![f] = x]
    PROVE  Promise!Next
<1>1. Clean' = Clean /\ Owed' = Owed
  BY DEF Clean, Owed, OpsOf
<1>2. Promise!Changed(f)
  BY DEF Promise!Changed, TypeOK
<1>3. Promise!Load(f)
  BY <1>1, <1>2 DEF Promise!Load, Owed, Clean, InHand
<1>4. QED
  BY <1>3 DEF Promise!Next

LEMMA StageStep ==
    ASSUME TypeOK, TypeOK', UNCHANGED <<db, edit, remote>>, NEW f \in FileId, f \in InHand,
           InHand' \in {InHand, InHand \ {f}}, NEW x, cache' = [cache EXCEPT ![f] = x]
    PROVE  Promise!Next
<1>1. Clean' = Clean /\ Owed' = Owed
  BY DEF Clean, Owed, OpsOf
<1>2. Promise!Changed(f)
  BY DEF Promise!Changed, TypeOK
<1>3. Promise!Stage(f)
  <2>1. CASE InHand' = InHand
    BY <1>1, <1>2, <2>1 DEF Promise!Stage, Owed, Clean, InHand
  <2>2. CASE InHand' = InHand \ {f}
    BY <1>1, <1>2, <2>2 DEF Promise!Stage, Owed, Clean, InHand
  <2>3. QED
    BY <2>1, <2>2
<1>4. QED
  BY <1>3 DEF Promise!Next

LEMMA CommitStep ==
    ASSUME TypeOK, Worlds', UNCHANGED <<cache, remote>>, InHand' = InHand,
           NEW f \in FileId, NEW x, x # NoData, edit' = [edit EXCEPT ![f] = x],
           \A g : g # f => (g \in Clean' <=> g \in Clean)
    PROVE  Promise!Next
<1>1. Owed' = Owed \cup {f}
  BY DEF Owed, TypeOK
<1>2. Clean' = Clean \ {f}
  BY <1>1, CleanAfter
<1>3. Promise!Commit(f)
  BY <1>1, <1>2 DEF Promise!Commit, Owed, Clean, InHand
<1>4. QED
  BY <1>3 DEF Promise!Next

LEMMA GiveStep ==
    ASSUME UNCHANGED <<cache, db>>, InHand' = InHand, Clean' = Clean, NEW f \in FileId, f \in Owed,
           Owed' = Owed \ {f},
           {x.data : x \in remote'} \subseteq {x.data : x \in remote} \cup {cache[f]},
           cache[f] \in {x.data : x \in remote'}
    PROVE  Promise!Next
<1>1. Promise!Give(f)
  BY DEF Promise!Give, Owed, Clean, InHand
<1>2. QED
  BY <1>1 DEF Promise!Next

(* Bytes that are owed change in hand only.                                   *)
LEMMA OnlyInHand ==
    ASSUME TypeOK, Promise!Next, NEW f \in Owed, f \notin InHand PROVE cache'[f] = cache[f]
<1>1. ASSUME NEW g \in FileId, Promise!Take(g) \/ Promise!Commit(g) \/ Promise!Give(g)
      PROVE  cache' = cache
  BY <1>1 DEF Promise!Take, Promise!Commit, Promise!Give
<1>2. CASE Promise!Review \/ Promise!Elsewhere
  BY <1>2 DEF Promise!Review, Promise!Elsewhere
<1>3. ASSUME NEW g \in FileId, Promise!Stage(g) \/ Promise!Remove(g) \/ Promise!Load(g)
      PROVE  /\ cache' = [cache EXCEPT ![g] = cache'[g]]
             /\ g \in InHand \/ g \notin Owed
  BY <1>3 DEF Promise!Stage, Promise!Remove, Promise!Load, Promise!Changed, InHand, Owed
<1>4. cache \in [FileId -> Nat] /\ f \in FileId
  BY DEF TypeOK, Owed
<1>5. QED
  BY <1>1, <1>2, <1>3, <1>4 DEF Promise!Next
-----------------------------------------------------------------------------
(* The calls.                                                                 *)
LEMMA CallInWorld ==
    ASSUME TypeOK, TypeOK', Worlds, Worlds', NEW t \in Thread, Call(t) \/ CallStep(t)
    PROVE  spent.other = 0 /\ Solo
<1>1. spent.user \in Nat /\ "user" \in EventKind /\ spent \in [EventKind -> Nat]
  BY DEF TypeOK, Events, EventKind
<1>2. CASE th[t].pc # "idle"
  BY <1>2 DEF Worlds
<1>3. CASE th[t].pc = "idle"
  <2>1. Spend("user")
    BY <1>3 DEF Call, CreateFile, MakeDir, WriteFile, Unlink, Rename, ReadFile, MayCall, CallStep,
       CreateCommit, MkdirCommit, WriteCopy, WriteCommit, UnlinkCommit, RenameCommit,
       ReadDownload, ReadDownloadFails, ReadStore, ReadCommit
  <2>2. spent'["user"] = spent["user"] + 1 /\ spent'["other"] = spent["other"]
    BY <1>1, <2>1 DEF Spend, EventKind
  <2>3. spent'.user # 0 /\ spent'.other = spent.other
    BY <1>1, <2>2
  <2>4. QED
    BY <2>3 DEF Worlds
<1>4. QED
  BY <1>2, <1>3

LEMMA CreateFileStep ==
    ASSUME Inv, Inv', Safe, Worlds, NEW t \in Thread, NEW p \in UserPath, CreateFile(t, p)
    PROVE  Promise!Next
<1>1. /\ th[t].pc = "idle" /\ FileId \ born # {} /\ UNCHANGED <<db, remote, edit>>
      /\ cache' = [cache EXCEPT ![FreshId] = clock + 1]
      /\ \E new : new.pc = "create" /\ th' = [th EXCEPT ![t] = new]
  BY DEF CreateFile, MayCall, Begin
<1>2. FreshId \in FileId /\ FreshId \notin Ids(db)
  BY <1>1, FreshNotThere DEF Safe, StoresOK, Stores
<1>3. FreshId \notin Owed
  BY <1>2, OwedKept DEF Owed, FileOf, RowOf, Ids
<1>4. InHand' = InHand
  <2>1. PICK new : new.pc = "create" /\ th' = [th EXCEPT ![t] = new]
    BY <1>1
  <2>2. \A u \in Thread : u # t => th'[u] = th[u]
    BY <2>1 DEF Inv, TypeOK
  <2>3. th'[t].pc = "create"
    BY <2>1 DEF Inv, TypeOK
  <2>4. QED
    BY <1>1, <2>2, <2>3 DEF InHand
<1>5. QED
  BY <1>1, <1>2, <1>3, <1>4, LoadStep DEF Inv

LEMMA WriteFileStep ==
    ASSUME Inv, NEW t \in Thread, NEW p, WriteFile(t, p) PROVE Promise!Next
<1>1. th[t].pc = "idle" /\ UNCHANGED <<db, cache, remote, edit>>
  BY DEF WriteFile, MayCall
<1>2. PICK r \in RowAt(db, p) : Begin(t, "copy", r, RootPath)
  BY DEF WriteFile
<1>3. r.id \in FileId
  BY DEF Inv, TypeOK, Database, Row, RowAt
<1>4. /\ th'[t].pc = "copy" /\ th'[t].entry = r
      /\ \A u \in Thread : u # t => th'[u] = th[u]
  BY <1>2 DEF Begin, Inv, TypeOK
<1>5. InHand' = InHand \cup {r.id}
  BY <1>1, <1>4 DEF InHand
<1>6. Promise!Take(r.id)
  BY <1>1, <1>5 DEF Promise!Take, InHand, OpsOf
<1>7. QED
  BY <1>3, <1>6 DEF Promise!Next

LEMMA WriteCopyStep ==
    ASSUME Inv, Inv', NEW t \in Thread, WriteCopy(t) PROVE Promise!Next
<1> DEFINE f == th[t].entry.id
<1>1. /\ th[t].pc = "copy" /\ UNCHANGED <<db, remote, edit>>
      /\ cache' = [cache EXCEPT ![f] = clock + 1]
      /\ th' = [th EXCEPT ![t].pc = "apply", ![t].data = clock + 1]
  BY DEF WriteCopy, Advance
<1>2. f \in FileId
  BY CallTypes DEF Inv
<1>3. f \in InHand
  BY <1>1 DEF InHand
<1>4. InHand' \in {InHand, InHand \ {f}}
  <2>1. /\ th'[t].pc = "apply"
        /\ \A u \in Thread : u # t => th'[u] = th[u]
    BY <1>1 DEF Inv, TypeOK, ThreadState
  <2>2. ASSUME NEW u \in Thread, th'[u].pc \in {"copy", "unlink"} PROVE th'[u].entry.id \in InHand
    BY <2>1, <2>2 DEF InHand
  <2>3. ASSUME NEW u \in Thread, th[u].pc \in {"copy", "unlink"}, th[u].entry.id # f
        PROVE  th[u].entry.id \in InHand'
    BY <2>1, <2>3 DEF InHand
  <2>4. InHand' \subseteq InHand
    BY <2>2 DEF InHand
  <2>5. \A g \in InHand : g # f => g \in InHand'
    BY <2>3 DEF InHand
  <2>6. QED
    BY <2>4, <2>5
<1>5. QED
  BY <1>1, <1>2, <1>3, <1>4, StageStep DEF Inv

(* A call that returns from another step than a copy has nothing in hand.     *)
LEMMA ReturnInHand ==
    ASSUME TypeOK, NEW t \in Thread, th[t].pc \notin {"copy", "unlink"},
           th' = [th EXCEPT ![t] = IdleThread]
    PROVE  InHand' = InHand
<1>1. th'[t].pc = "idle" /\ \A u \in Thread : u # t => th'[u] = th[u]
  BY DEF TypeOK, IdleThread
<1>2. QED
  BY <1>1 DEF InHand

(* A commit changes the rows and uploads of its own file only.                *)
LEMMA CommitClean ==
    ASSUME NEW d \in Database, NEW e \in Database, NEW f, NEW from, NEW to, e.queue = d.queue,
           \A r : r.id # f => (r \in d.files <=> r \in e.files),
           db = d, db' = Upsert(e, f, "Upload", from, to)
    PROVE  \A g : g # f => (g \in Clean' <=> g \in Clean)
<1> DEFINE u == Upsert(e, f, "Upload", from, to)
<1>1. /\ u.files = e.files
      /\ \A o \in e.queue : \E q \in u.queue : q.id = o.id /\ q.file = o.file /\ q.type = o.type
      /\ \A q \in u.queue : q \in e.queue \/ q.file = f
  BY UpsertQueue DEF Turned
<1> HIDE DEF u
<1>2. ASSUME NEW g, g # f
      PROVE  (\E o \in u.queue : o.file = g /\ o.type = "Upload")
                <=> (\E o \in d.queue : o.file = g /\ o.type = "Upload")
  BY <1>1, <1>2
<1>3. \A g : g # f =>
         (g \in Clean' <=> \E r \in u.files : /\ r.id = g /\ r.sync = "Synced"
                                              /\ ~\E o \in u.queue : o.file = g /\ o.type = "Upload")
  BY DEF Clean, OpsOf, u
<1>4. \A g : g # f =>
         (g \in Clean <=> \E r \in d.files : /\ r.id = g /\ r.sync = "Synced"
                                             /\ ~\E o \in d.queue : o.file = g /\ o.type = "Upload")
  BY DEF Clean, OpsOf
<1>5. QED
  BY <1>1, <1>2, <1>3, <1>4

LEMMA CreateCommitStep ==
    ASSUME Inv, Inv', Solo, Worlds', NEW t \in Thread, CreateCommit(t) PROVE Promise!Next
<1> DEFINE f == th[t].entry.id
           p == th[t].entry.path
           e == InsertRow(db, th[t].entry)
<1>1. /\ th[t].pc = "create" /\ th' = [th EXCEPT ![t] = IdleThread] /\ UNCHANGED <<cache, remote>>
      /\ db' = Created(t, "Upload")
      /\ edit' = [edit EXCEPT ![f] = IF RowAt(db, p) = {} THEN cache[f] ELSE @]
  BY DEF CreateCommit, Return
<1>2. InHand' = InHand /\ f \in FileId /\ db \in Database /\ th[t].entry \in Row
  BY <1>1, ReturnInHand, CallTypes DEF Inv, TypeOK
<1>3. CASE RowAt(db, p) # {}
  <2>1. edit' = edit
    BY <1>1, <1>2, <1>3 DEF Inv, TypeOK
  <2>2. QED
    BY <1>1, <1>2, <2>1, ReviewStep DEF Inv
<1>4. CASE RowAt(db, p) = {}
  <2>1. db' = Upsert(e, f, "Upload", p, RootPath) /\ edit' = [edit EXCEPT ![f] = cache[f]]
    BY <1>1, <1>4 DEF Created, Inserted
  <2>2. cache[f] # NoData
    BY <1>1 DEF Solo, CallFits
  <2>3. e \in Database /\ e.queue = db.queue /\ e.files = db.files \cup {th[t].entry}
    BY <1>2 DEF InsertRow, Database
  <2> HIDE DEF e
  <2>4. \A r : r.id # f => (r \in db.files <=> r \in e.files)
    BY <2>3
  <2>5. \A g : g # f => (g \in Clean' <=> g \in Clean)
    BY <1>2, <2>1, <2>3, <2>4, CommitClean
  <2>6. QED
    BY <1>1, <1>2, <2>1, <2>2, <2>5, CommitStep DEF Inv
<1>5. QED
  BY <1>3, <1>4

LEMMA WriteCommitStep ==
    ASSUME Inv, Inv', Safe, Solo, Worlds', NEW t \in Thread, WriteCommit(t) PROVE Promise!Next
<1> DEFINE f == th[t].entry.id
           e == SetCached(db, f, "QueuedUpload")
<1>1. /\ th[t].pc = "apply" /\ th' = [th EXCEPT ![t] = IdleThread] /\ UNCHANGED <<cache, remote>>
      /\ db' = Upsert(e, f, "Upload", th[t].entry.path, RootPath)
  BY DEF WriteCommit, Return, Written
<1>2. edit' = [edit EXCEPT ![f] = th[t].data]
  BY WriteCommitSolo
<1>3. th[t].data # NoData
  BY <1>1 DEF Solo, CallFits
<1>4. InHand' = InHand /\ f \in FileId /\ db \in Database
  BY <1>1, ReturnInHand, CallTypes DEF Inv, TypeOK
<1>5. e \in Database /\ e.queue = db.queue /\ Painted(db, e, f)
  <2>1. Follows(db, e) /\ "QueuedUpload" \in SyncState \ {"Conflict"}
    BY SetCachedFollows DEF Inv, SyncState
  <2>2. QED
    BY <1>4, <2>1, SetCachedPaints DEF Follows, Sound, Painted
<1> HIDE DEF e
<1>6. \A r : r.id # f => (r \in db.files <=> r \in e.files)
  BY <1>5 DEF Painted
<1>7. \A g : g # f => (g \in Clean' <=> g \in Clean)
  BY <1>1, <1>4, <1>5, <1>6, CommitClean
<1>8. QED
  BY <1>1, <1>2, <1>3, <1>4, <1>7, CommitStep DEF Inv

LEMMA CallsImplement ==
    ASSUME EditsApart, Inv, Inv', Safe, Worlds, Worlds', NEW t \in Thread, Call(t) \/ CallStep(t)
    PROVE  Promise!Next
<1>1. Solo /\ {"mkdir", "unlink", "rename", "read"} \cap UserOps = {}
  BY CallInWorld DEF EditsApart, Inv
<1>2. CASE Call(t)
  <2>1. \A p, q : ~MakeDir(t, p) /\ ~Unlink(t, p) /\ ~ReadFile(t, p) /\ ~Rename(t, p, q)
    BY <1>1 DEF MakeDir, Unlink, ReadFile, Rename, MayCall
  <2>2. QED
    BY <1>2, <2>1, CreateFileStep, WriteFileStep DEF Call
<1>3. CASE CallStep(t)
  <2>1. th[t].pc \in {"idle", "create", "copy", "apply"}
    BY <1>1 DEF Solo, CallFits
  <2>2. CreateCommit(t) \/ WriteCopy(t) \/ WriteCommit(t)
    BY <1>3, <2>1 DEF CallStep, MkdirCommit, UnlinkCommit, RenameCommit, ReadDownload,
                      ReadDownloadFails, ReadStore, ReadCommit
  <2>3. QED
    BY <1>1, <2>2, CreateCommitStep, WriteCopyStep, WriteCommitStep
<1>4. QED
  BY <1>2, <1>3
-----------------------------------------------------------------------------
LEMMA UploadPutStep ==
    ASSUME Inv, Inv', Worlds', UploadPut PROVE Promise!Next
<1> DEFINE job == w.job.file
<1>1. UNCHANGED <<db, cache, th>>
  BY DEF UploadPut
<1>2. job \in FileId /\ edit \in [FileId -> Nat] /\ remote \subseteq Resource
  BY WorkerTypes DEF Inv, TypeOK
<1>3. InHand' = InHand /\ Clean' = Clean
  BY <1>1 DEF InHand, Clean, OpsOf
<1>4. CASE cache[job] = NoData
  BY <1>1, <1>4, <1>3, ReviewStep DEF UploadPut, Inv
<1>5. CASE cache[job] # NoData
  <2>1. /\ remote' = PutFile(remote, w.entry.path, cache[job], clock + 1)
        /\ edit' = [edit EXCEPT ![job] = NoData]
    BY <1>5 DEF UploadPut
  <2>2. Owed' = Owed \ {job}
    BY <1>2, <2>1 DEF Owed
  <2>3. CASE job \notin Owed
    BY <1>1, <2>2, <2>3, ElsewhereStep DEF Inv
  <2>4. CASE job \in Owed
    <3>1. /\ {x.data : x \in remote'} \subseteq {x.data : x \in remote} \cup {cache[job]}
          /\ cache[job] \in {x.data : x \in remote'}
      <4> DEFINE new == [path |-> w.entry.path, kind |-> "File", ver |-> clock + 1,
                         data |-> cache[job]]
      <4>1. remote' = (remote \ Meta(remote, w.entry.path)) \cup {new} /\ new.data = cache[job]
        BY <2>1 DEF PutFile
      <4> HIDE DEF new
      <4>2. QED
        BY <4>1
    <3>2. QED
      BY <1>1, <1>2, <1>3, <2>2, <2>4, <3>1, GiveStep
  <2>5. QED
    BY <2>3, <2>4
<1>6. QED
  BY <1>4, <1>5

LEMMA DownloadStep == ASSUME Inv, Inv', Worlds, DownloadWrite PROVE Promise!Next
<1>1. /\ w.pc = "l_write" /\ UNCHANGED <<db, remote, th, edit>>
      /\ cache' = [cache EXCEPT ![w.job.file] = w.data]
  BY DEF DownloadWrite, At
<1>2. w.job.file \in FileId
  BY WorkerTypes DEF Inv
<1>3. ~Solo
  BY <1>1 DEF Solo, JobFits, UploadPc, TreePc
<1>4. Owed = {} /\ InHand' = InHand
  BY <1>1, <1>3, OwedKept DEF Owed, InHand
<1>5. QED
  BY <1>1, <1>2, <1>4, LoadStep DEF Inv

LEMMA RefreshDropStep ==
    ASSUME Inv, Inv', Safe, RefreshInv, Worlds, Worlds', RefreshDrop PROVE Promise!Next
<1>1. UNCHANGED <<db, remote, th, edit>>
  BY DEF RefreshDrop
<1>2. InHand' = InHand
  BY <1>1 DEF InHand
<1>3. CASE UNCHANGED cache
  BY <1>1, <1>2, <1>3, ReviewStep DEF Inv
<1>4. CASE ~UNCHANGED cache
  <2>1. PICK l \in w.gone : DropRow(l)
    BY <1>4 DEF RefreshDrop, KeepCopy, DropConflict
  <2>2. cache' = [cache EXCEPT ![l.id] = NoData]
    BY <1>4, <2>1 DEF DropRow
  <2>3. l.id \in FileId
    BY RefreshTypes DEF Row
  <2>4. Owed = {}
    <3>1. ~(Solo /\ spent.other = 0)
      BY <1>4, RefreshDropSolo
    <3>2. QED
      BY <3>1, OwedKept DEF Owed
  <2>5. QED
    BY <1>1, <1>2, <2>2, <2>3, <2>4, LoadStep DEF Inv
<1>5. QED
  BY <1>3, <1>4

LEMMA StepImplements ==
    ASSUME EditsApart, Inv, Inv', Safe, RefreshInv, Worlds, Worlds', [Next]_vars
    PROVE  Promise!Next
<1>1. CASE \E t \in Thread : Call(t) \/ CallStep(t)
  BY <1>1, CallsImplement
<1>2. CASE CrashRestart
  <2>1. UNCHANGED <<cache, edit, remote>> /\ InHand' = {}
    BY <1>2 DEF CrashRestart, InHand, IdleThread
  <2>2. QED
    BY <2>1, ReviewStep DEF Inv
<1>3. CASE UNCHANGED <<db, cache, edit, th>>
  BY <1>3, ElsewhereStep DEF Inv, Owed
<1>4. CASE UNCHANGED <<cache, edit, remote, th>>
  BY <1>4, ReviewStep DEF Inv, InHand
<1>5. QED
  BY <1>1, <1>2, <1>3, <1>4, StepShapes, UploadPutStep, DownloadStep, RefreshDropStep

LEMMA InitImplements == ASSUME Init, Inv PROVE Promise!Init
<1>1. cache \in [FileId -> Nat]
  BY DEF Inv, TypeOK
<1>2. Owed = {} /\ InHand = {}
  BY DEF Init, Owed, InHand, IdleThread
<1>3. Clean \subseteq FileId
  BY DEF Clean, Inv, TypeOK, Database, Row
<1>4. {x.data : x \in remote} \subseteq Nat
  BY DEF Inv, TypeOK, Resource
<1>5. QED
  BY <1>1, <1>2, <1>3, <1>4 DEF Promise!Init, Owed, InHand, Clean

(* The sync layer implements LocalFirst: whatever the threads, the worker,    *)
(* the network and the kills do, every step is one that LocalFirst allows.     *)
THEOREM LayerIsLocalFirst == ASSUME EditsApart PROVE Spec => ImplementsLocalFirst
<1>1. Init => Promise!Init
  BY InitInv, InitImplements
<1>2. /\ Inv /\ Safe /\ RefreshInv /\ Worlds
      /\ (Inv /\ Safe /\ RefreshInv /\ Worlds)'
      /\ [Next]_vars
      => [Promise!Next]_(Promise!vars)
  BY StepImplements
<1>3. QED
  BY <1>1, <1>2, WorldsInvariance, PTL DEF Spec, ImplementsLocalFirst, Promise!Spec
-----------------------------------------------------------------------------
(* Who ends an edit leaves the rows.                                          *)
LEMMA EditEnds ==
    ASSUME EditsApart, Inv, Inv', Safe, RefreshInv, Worlds, Worlds', [Next]_vars,
           NEW f \in FileId, edit[f] # NoData, edit'[f] = NoData
    PROVE  db' = db
<1>1. CASE \E t \in Thread : Call(t) \/ CallStep(t)
  <2>1. PICK t \in Thread : Call(t) \/ CallStep(t)
    BY <1>1
  <2>2. Solo /\ {"mkdir", "unlink", "rename", "read"} \cap UserOps = {}
    BY <2>1, CallInWorld DEF EditsApart, Inv
  <2>3. edit \in [FileId -> Nat]
    BY DEF Inv, TypeOK
  <2>4. th[t].pc \in {"idle", "create", "copy", "apply"}
    BY <2>2 DEF Solo, CallFits
  <2>5. CASE CreateCommit(t)
    BY <2>2, <2>3, <2>5 DEF CreateCommit, Solo, CallFits
  <2>6. CASE WriteCommit(t)
    BY <2>2, <2>3, <2>6, WriteCommitSolo DEF WriteCommit, Solo, CallFits
  <2>7. CASE ~CreateCommit(t) /\ ~WriteCommit(t)
    BY <2>1, <2>4, <2>7 DEF Call, CreateFile, MakeDir, WriteFile, Unlink, Rename, ReadFile,
       CallStep, MkdirCommit, WriteCopy, UnlinkCommit, RenameCommit, ReadDownload,
       ReadDownloadFails, ReadStore, ReadCommit
  <2>8. QED
    BY <2>5, <2>6, <2>7
<1>2. QED
  BY <1>1, StepShapes DEF UploadPut, DownloadWrite, RefreshDrop, CrashRestart

(* An edit that a program has committed and that was not uploaded yet keeps    *)
(* its bytes and its row, but for the program's own writes.                    *)
LEMMA EditKept ==
    ASSUME EditsApart, Inv, Inv', Safe, RefreshInv, Worlds, Worlds', [Next]_vars,
           NEW f \in FileId, edit[f] # NoData
    PROVE  /\ cache'[f] = cache[f] \/ f \in InHand
           /\ HasRow(db', f)
<1>1. cache'[f] = cache[f] \/ f \in InHand
  <2>1. Promise!Next /\ f \in Owed
    BY StepImplements DEF Owed
  <2>2. QED
    BY <2>1, OnlyInHand DEF Inv
<1>2. HasRow(db', f)
  <2>1. CASE edit'[f] # NoData
    <3>1. Solo'
      BY <2>1 DEF Worlds
    <3>2. Owing(db', edit', Late(w'))
      BY <3>1 DEF Solo, Stores
    <3>3. QED
      BY <2>1, <3>2 DEF Owing, FileOf, HasRow
  <2>2. CASE edit'[f] = NoData
    BY <2>2, EditEnds, OwedKept DEF FileOf, HasRow
  <2>3. QED
    BY <2>1, <2>2
<1>3. QED
  BY <1>1, <1>2

(* The bytes that write_bytes or create_file committed stay in the cache,      *)
(* under a row, until process_upload has sent them, but for the program's own   *)
(* later writes: no conflict copy, refresh, crash or retry drops or replaces    *)
(* them.                                                                        *)
THEOREM EditsSurvive == ASSUME EditsApart PROVE Spec => EditSurvives
<1> DEFINE Stays ==
          \A f \in FileId :
             edit[f] # NoData /\ (cache'[f] # cache[f] \/ ~HasRow(db', f))
                => \E t \in Thread : th[t].entry.id = f /\ th[t].pc \in {"copy", "unlink"}
<1>1. /\ Inv /\ Safe /\ RefreshInv /\ Worlds
      /\ (Inv /\ Safe /\ RefreshInv /\ Worlds)'
      /\ [Next]_vars
      => [Stays]_vars
  BY EditKept DEF InHand
<1>2. QED
  BY <1>1, WorldsInvariance, PTL DEF Spec, EditSurvives
-----------------------------------------------------------------------------
(* The rows that vouch for bytes in the cache, and that e has none that d     *)
(* does not have, but for the files in F.                                     *)
Vouched(d) == {r \in d.files : r.kind = "File" /\ r.sync = "Synced" /\ r.cached}

NoMore(d, e, F) ==
    \A q \in Vouched(e) : q.id \in F \/ \E r \in Vouched(d) : r.id = q.id /\ r.path = q.path

LEMMA NoMoreSame == ASSUME NEW d, NEW e, e.files = d.files PROVE NoMore(d, e, {})
BY DEF NoMore, Vouched

LEMMA NoMoreOn ==
    ASSUME NEW d, NEW e, NEW g, NEW F, NoMore(d, e, F), NoMore(e, g, {}) PROVE NoMore(d, g, F)
BY DEF NoMore

LEMMA NoMoreMost ==
    ASSUME NEW d, NEW e, NEW F, NoMore(d, e, {}) PROVE NoMore(d, e, F)
BY DEF NoMore

LEMMA PaintedNoMore ==
    ASSUME NEW d, NEW e, NEW f, Painted(d, e, f)
    PROVE  /\ NoMore(d, e, {f})
           /\ (\A q \in RowOf(e, f) : q.sync # "Synced") => NoMore(d, e, {})
<1>1. ASSUME NEW q \in Vouched(e), q.id # f
      PROVE  \E r \in Vouched(d) : r.id = q.id /\ r.path = q.path
  <2>1. PICK r \in d.files : q.id = r.id /\ (r.id # f => q = r)
    BY DEF Painted, Vouched
  <2>2. QED
    BY <1>1, <2>1 DEF Vouched
<1>2. QED
  BY <1>1 DEF NoMore, RowOf, Vouched

LEMMA InsertNoMore ==
    ASSUME NEW d \in Database, NEW row, row.sync # "Synced" \/ ~row.cached
    PROVE  NoMore(d, InsertRow(d, row), {})
<1>1. InsertRow(d, row).files = d.files \cup {row}
  BY DEF InsertRow, Database
<1>2. QED
  BY <1>1 DEF NoMore, Vouched

(* A refresh that finds nothing changed makes no row Synced that was not.     *)
LEMMA EnsureNoMore ==
    ASSUME NEW T, Treed(T), NEW d \in Database, Tidy(d), Agrees(T, d), NEW res \in T, NEW id
    PROVE  NoMore(d, EnsureRemoteRow(d, res, "Synced", id), {})
<1> DEFINE e == EnsureRemoteRow(d, res, "Synced", id)
           row == [id |-> id, path |-> res.path, kind |-> res.kind,
                   sync |-> "Synced", ver |-> res.ver, cached |-> FALSE]
           new(r) == IF r.path = res.path
                     THEN [r EXCEPT !.kind = res.kind, !.ver = res.ver,
                                    !.sync = IF r.sync \in Protected THEN r.sync ELSE "Synced"]
                     ELSE r
<1>0. /\ res \in Meta(T, res.path) /\ \A x \in Meta(T, res.path) : x = res
  BY DEF Treed, Tree, Meta, Resource
<1>1. CASE RowAt(d, res.path) = {}
  <2>1. e = InsertRow(d, row) /\ ~row.cached
    BY <1>1 DEF EnsureRemoteRow
  <2> HIDE DEF row, e
  <2>2. QED
    BY <2>1, InsertNoMore DEF e
<1>2. CASE RowAt(d, res.path) # {}
  <2>1. e.files = {new(r) : r \in d.files}
    BY <1>2 DEF EnsureRemoteRow, Database
  <2>2. ASSUME NEW r \in d.files, new(r) \in Vouched(e)
        PROVE  r \in Vouched(d) /\ r.id = new(r).id /\ r.path = new(r).path
    <3>1. CASE r.path # res.path
      BY <2>2, <3>1 DEF Vouched
    <3>2. CASE r.path = res.path
      <4>1. /\ new(r).id = r.id /\ new(r).path = r.path /\ new(r).cached = r.cached
            /\ new(r).kind = res.kind
            /\ new(r).sync = IF r.sync \in Protected THEN r.sync ELSE "Synced"
        BY <3>2 DEF Database, Row
      <4>2. res.kind = "File" /\ r.cached
        BY <2>2, <4>1 DEF Vouched
      <4>3. RowFits(T, r) /\ r.kind \in Kind
        BY DEF Agrees, Database, Row
      <4>4. r.kind = "File"
        BY <1>0, <3>2, <4>2, <4>3 DEF RowFits, Kind
      <4>5. r.sync = "Synced"
        BY <2>2, <4>1, <4>3, <4>4 DEF RowFits, Vouched, Unsynced, Protected
      <4>6. QED
        BY <4>1, <4>2, <4>4, <4>5 DEF Vouched
    <3>3. QED
      BY <3>1, <3>2
  <2> HIDE DEF new, e
  <2>3. QED
    BY <2>1, <2>2 DEF NoMore, Vouched, e
<1>3. QED
  BY <1>1, <1>2

LEMMA ConflictNoMore ==
    ASSUME NEW T, Treed(T), NEW d, Sound(d), Tidy(d), Agrees(T, d),
           NEW q \in d.files, q.kind = "File", NEW cp \in NextConflictPaths(d, q.path),
           ~ConflictFails(d, q.id, q.path, cp)
    PROVE  NoMore(d, ApplyConflict(d, q.id, q.path, cp), {})
<1> DEFINE p == q.path
           e == ApplyConflict(d, q.id, p, cp)
           copy == Copied(q, cp)
<1>1. /\ d \in Database /\ q \in Row /\ p \in Path /\ cp \in Path /\ Clash(d, p, cp) = {}
  BY NextConflictPathsType DEF Sound, Database, Row, ConflictFails
<1>2. \A r \in d.files : ~Below(p, r.path)
  BY <1>1, NothingBelow
<1>3. e.files = (d.files \ {q}) \cup {copy}
  BY <1>1, <1>2, AsideRows
<1>4. copy.sync = "QueuedUpload"
  BY <1>1 DEF Copied, Row
<1> HIDE DEF copy, e
<1>5. QED
  BY <1>3, <1>4 DEF NoMore, Vouched, e
-----------------------------------------------------------------------------
(* Nothing of f is newer than what was uploaded: no edit waits, and no write  *)
(* has replaced the bytes that it will commit.                                *)
Settled(f) == edit[f] = NoData /\ \A t \in Thread : th[t].pc = "apply" => th[t].entry.id # f

(* What the server has at p are the bytes of f.                               *)
Pinned(f, p) == \A x \in Meta(remote, p) : cache[f] = x.data

(* The bytes of a Synced row, and those just uploaded, are the server's.      *)
Contents ==
    /\ \A d \in Stores : \A r \in Vouched(d) : Settled(r.id) => Pinned(r.id, r.path)
    /\ Late(w) # {} /\ Settled(w.job.file) => Pinned(w.job.file, w.entry.path)

LEMMA ContentsKept ==
    ASSUME Contents, UNCHANGED remote, NEW G,
           \A d \in Stores : Ids(d) \subseteq G, Late(w) # {} => w.job.file \in G,
           \A f \in G : Settled(f)' => Settled(f) /\ cache'[f] = cache[f],
           \A e \in Stores' : \E d \in Stores : NoMore(d, e, {}),
           Late(w') # {} => /\ Late(w) # {} /\ w'.job.file = w.job.file
                            /\ w'.entry.path = w.entry.path
    PROVE  Contents'
<1>1. ASSUME NEW e \in Stores', NEW q \in Vouched(e), Settled(q.id)'
      PROVE  Pinned(q.id, q.path)'
  <2>1. PICK d \in Stores : NoMore(d, e, {})
    OBVIOUS
  <2>2. PICK r \in Vouched(d) : r.id = q.id /\ r.path = q.path
    BY <1>1, <2>1 DEF NoMore
  <2>3. q.id \in G
    BY <2>2 DEF Vouched, Ids
  <2>4. Settled(q.id) /\ cache'[q.id] = cache[q.id]
    BY <1>1, <2>3
  <2>5. Pinned(q.id, q.path)
    BY <2>2, <2>4 DEF Contents
  <2>6. QED
    BY <2>4, <2>5 DEF Pinned
<1>2. ASSUME Late(w') # {}, Settled(w.job.file)'
      PROVE  Pinned(w.job.file, w.entry.path)'
  <2>1. Late(w) # {} /\ w'.job.file = w.job.file /\ w'.entry.path = w.entry.path
    BY <1>2
  <2>2. Settled(w.job.file) /\ cache'[w.job.file] = cache[w.job.file]
    BY <1>2, <2>1 DEF Settled
  <2>3. Pinned(w.job.file, w.entry.path)
    BY <2>1, <2>2 DEF Contents
  <2>4. QED
    BY <2>1, <2>2, <2>3 DEF Pinned
<1>3. QED
  BY <1>1, <1>2 DEF Contents

LEMMA WorkKept ==
    ASSUME Contents, UNCHANGED <<cache, edit, remote, th>>,
           \A e \in Stores' : \E d \in Stores : NoMore(d, e, {}),
           Late(w') # {} => /\ Late(w) # {} /\ w'.job.file = w.job.file
                            /\ w'.entry.path = w.entry.path
    PROVE  Contents'
<1> DEFINE G == {r.id : r \in UNION {d.files : d \in Stores}} \cup {w.job.file}
<1>1. \A d \in Stores : Ids(d) \subseteq G
  BY DEF Ids
<1>2. \A f \in G : Settled(f)' => Settled(f) /\ cache'[f] = cache[f]
  BY DEF Settled
<1> HIDE DEF G
<1>3. w.job.file \in G
  BY DEF G
<1>4. QED
  BY <1>1, <1>2, <1>3, ContentsKept

(* A step of the worker outside of the transaction, and the end of one.       *)
LEMMA DbKept ==
    ASSUME Contents, UNCHANGED <<cache, edit, remote, th>>, w'.pc # "f_apply",
           NEW d \in Stores, NoMore(d, db', {}),
           Late(w') # {} => /\ Late(w) # {} /\ w'.job.file = w.job.file
                            /\ w'.entry.path = w.entry.path
    PROVE  Contents'
<1>1. Stores' = {db'}
  BY DEF Stores, Locked
<1>2. QED
  BY <1>1, WorkKept

LEMMA IdleKept ==
    ASSUME Contents, UNCHANGED <<cache, edit, remote, th>>, Finish, NEW d \in Stores,
           NoMore(d, db', {})
    PROVE  Contents'
<1>1. w' = IdleWorker /\ Late(w') = {} /\ w'.pc # "f_apply"
  BY DEF Finish, IdleWorker, Late
<1>2. QED
  BY <1>1, DbKept

LEMMA GivenUpKept ==
    ASSUME Contents, UNCHANGED <<db, cache, edit, remote, th>>, Finish PROVE Contents'
<1>1. db \in Stores /\ NoMore(db, db, {})
  BY NoMoreSame DEF Stores
<1>2. QED
  BY <1>1, IdleKept

LEMMA MovesKept ==
    ASSUME Contents, UNCHANGED <<db, cache, edit, remote, th>>, w'.pc # "f_apply",
           Late(w') # {} => /\ Late(w) # {} /\ w'.job.file = w.job.file
                            /\ w'.entry.path = w.entry.path
    PROVE  Contents'
<1>1. db \in Stores /\ NoMore(db, db, {})
  BY NoMoreSame DEF Stores
<1>2. QED
  BY <1>1, DbKept

LEMMA TxKept ==
    ASSUME Contents, Locked, UNCHANGED <<db, cache, edit, remote, th>>, w'.pc = "f_apply",
           NoMore(w.tx, w'.tx, {})
    PROVE  Contents'
<1>1. Stores = {db, w.tx} /\ Stores' = {db, w'.tx} /\ Late(w') = {}
  BY DEF Stores, Locked, Late
<1>2. NoMore(db, db, {})
  BY NoMoreSame
<1>3. \A e \in Stores' : \E d \in Stores : NoMore(d, e, {})
  BY <1>1, <1>2
<1>4. QED
  BY <1>1, <1>3, WorkKept
-----------------------------------------------------------------------------
(* A step of a call: the worker stays where it is.                            *)
LEMMA CallKept ==
    ASSUME Inv, Safe, Solo, Contents, UNCHANGED <<w, remote>>,
           \A f \in born \ Reserved : Settled(f)' => Settled(f) /\ cache'[f] = cache[f],
           \/ UNCHANGED db
           \/ ~Locked /\ NoMore(db, db', {})
    PROVE  Contents'
<1>1. \A d \in Stores : Ids(d) \subseteq born \ Reserved
  BY DEF Safe, StoresOK
<1>2. Late(w) # {} => w.job.file \in born \ Reserved
  <2>1. ASSUME Late(w) # {} PROVE FileOf(db, w.job.file)
    BY <2>1 DEF Late, Solo, JobFits, UploadPc
  <2>2. ASSUME Late(w) # {} PROVE w.job.file \in Ids(db)
    BY <2>1, <2>2 DEF FileOf, RowOf, Ids
  <2>3. QED
    BY <1>1, <2>2 DEF Stores
<1>3. \A e \in Stores' : \E d \in Stores : NoMore(d, e, {})
  <2>1. CASE UNCHANGED db
    <3>1. Stores' = Stores
      BY <2>1 DEF Stores, Locked
    <3>2. QED
      BY <3>1, NoMoreSame
  <2>2. CASE ~Locked /\ NoMore(db, db', {})
    BY <2>2 DEF Stores, Locked
  <2>3. QED
    BY <2>1, <2>2
<1>4. QED
  BY <1>1, <1>2, <1>3, ContentsKept DEF Late

LEMMA CreateFileKept ==
    ASSUME Inv, Safe, Solo, Contents, NEW t \in Thread, NEW p, CreateFile(t, p) PROVE Contents'
<1> DEFINE new == [pc |-> "create",
                   entry |-> [id |-> FreshId, path |-> p, kind |-> "File",
                              sync |-> "QueuedUpload", ver |-> NoVersion, cached |-> TRUE],
                   to |-> RootPath, data |-> NoData]
<1>1. /\ cache' = [cache EXCEPT ![FreshId] = clock + 1] /\ FreshId \notin born
      /\ th[t].pc = "idle" /\ UNCHANGED <<db, remote, w, edit>>
      /\ th' = [th EXCEPT ![t] = new] /\ new.pc = "create"
  <2>1. FreshId \notin born
    BY DEF CreateFile, FreshId
  <2>2. QED
    BY <2>1 DEF CreateFile, MayCall, Begin
<1> HIDE DEF new
<1>2. /\ cache \in [FileId -> Nat] /\ th \in [Thread -> ThreadState] /\ born \subseteq FileId
  BY DEF Inv, TypeOK
<1>3. \A f \in born : Settled(f)' => Settled(f) /\ cache'[f] = cache[f]
  BY <1>1, <1>2 DEF Settled
<1>4. QED
  BY <1>1, <1>3, CallKept

LEMMA WriteFileKept ==
    ASSUME Inv, Safe, Solo, Contents, NEW t \in Thread, NEW p, WriteFile(t, p) PROVE Contents'
<1>1. PICK r \in RowAt(db, p) : Begin(t, "copy", r, RootPath)
  BY DEF WriteFile
<1> DEFINE new == [pc |-> "copy", entry |-> r, to |-> RootPath, data |-> NoData]
<1>2. /\ th[t].pc = "idle" /\ UNCHANGED <<db, cache, remote, w, edit>>
      /\ th' = [th EXCEPT ![t] = new] /\ new.pc = "copy"
  BY <1>1 DEF WriteFile, MayCall, Begin
<1> HIDE DEF new
<1>3. th \in [Thread -> ThreadState]
  BY DEF Inv, TypeOK
<1>4. \A f \in born : Settled(f)' => Settled(f) /\ cache'[f] = cache[f]
  BY <1>2, <1>3 DEF Settled
<1>5. QED
  BY <1>2, <1>4, CallKept

LEMMA WriteCopyKept ==
    ASSUME Inv, Safe, Solo, Contents, NEW t \in Thread, WriteCopy(t) PROVE Contents'
<1>1. /\ th[t].pc = "copy" /\ cache' = [cache EXCEPT ![th[t].entry.id] = clock + 1]
      /\ UNCHANGED <<db, remote, w, edit>>
      /\ th' = [th EXCEPT ![t].pc = "apply", ![t].data = clock + 1]
  BY DEF WriteCopy, Advance
<1>2. /\ cache \in [FileId -> Nat] /\ th \in [Thread -> ThreadState] /\ born \subseteq FileId
  BY DEF Inv, TypeOK
<1>3. /\ th'[t].pc = "apply" /\ th'[t].entry = th[t].entry
      /\ \A u \in Thread : u # t => th'[u] = th[u]
  BY <1>1, <1>2 DEF ThreadState
<1>4. \A f \in born : Settled(f)' => Settled(f) /\ cache'[f] = cache[f]
  BY <1>1, <1>2, <1>3 DEF Settled
<1>5. QED
  BY <1>1, <1>4, CallKept

(* What commits an edit of f unsettles it.                                    *)
LEMMA CommitKept ==
    ASSUME Inv, Safe, Solo, Contents, UNCHANGED <<w, remote, cache>>, NEW t \in Thread,
           Return(t), ~Locked, NoMore(db, db', {}),
           \/ th[t].pc # "apply" /\ edit' = edit
           \/ edit' = [edit EXCEPT ![th[t].entry.id] = edit'[th[t].entry.id]]
              /\ edit'[th[t].entry.id] # NoData
    PROVE  Contents'
<1>1. /\ th' = [th EXCEPT ![t] = IdleThread] /\ edit \in [FileId -> Nat] /\ born \subseteq FileId
      /\ th \in [Thread -> ThreadState]
  BY DEF Return, Inv, TypeOK
<1>2. \A u \in Thread : u # t => th'[u] = th[u]
  BY <1>1
<1>3. \A f \in born : Settled(f)' => Settled(f) /\ cache'[f] = cache[f]
  BY <1>1, <1>2 DEF Settled
<1>4. QED
  BY <1>3, CallKept

LEMMA CreateCommitKept ==
    ASSUME Inv, Safe, Solo, Contents, NEW t \in Thread, CreateCommit(t) PROVE Contents'
<1> DEFINE entry == th[t].entry
           f == entry.id
           c == InsertRow(db, entry)
           e == Upsert(c, f, "Upload", entry.path, RootPath)
<1>1. /\ th[t].pc = "create" /\ ~Locked /\ Return(t) /\ UNCHANGED <<w, remote, cache>>
      /\ db' = Created(t, "Upload")
      /\ edit' = [edit EXCEPT ![f] = IF RowAt(db, entry.path) = {} THEN cache[f] ELSE @]
  BY DEF CreateCommit
<1>2. /\ entry \in Row /\ f \in FileId /\ db \in Database /\ edit \in [FileId -> Nat]
  BY <1>1, CallTypes, SoloFacts DEF Inv, TypeOK
<1>3. CASE RowAt(db, entry.path) # {}
  <2>1. db' = db /\ edit' = edit
    BY <1>1, <1>2, <1>3 DEF Created
  <2>2. QED
    BY <1>1, <2>1, NoMoreSame, CommitKept
<1>4. CASE RowAt(db, entry.path) = {}
  <2>1. db' = e /\ edit' = [edit EXCEPT ![f] = cache[f]] /\ edit'[f] = cache[f]
    BY <1>1, <1>2, <1>4 DEF Created, Inserted
  <2>2. cache[f] # NoData /\ entry.sync = "QueuedUpload"
    BY <1>1 DEF Solo, CallFits, Inv, NewRowsQueued
  <2>3. c \in Database /\ NoMore(db, c, {})
    <3>1. c \in Database
      BY <1>2 DEF InsertRow, Database
    <3>2. QED
      BY <1>2, <2>2, <3>1, InsertNoMore
  <2> HIDE DEF c
  <2>4. e.files = c.files
    BY <2>3, UpsertQueue
  <2> HIDE DEF e
  <2>5. NoMore(db, e, {})
    BY <2>3, <2>4, NoMoreSame, NoMoreOn
  <2>6. QED
    BY <1>1, <2>1, <2>2, <2>5, CommitKept
<1>5. QED
  BY <1>3, <1>4

LEMMA WriteCommitKept ==
    ASSUME Inv, Safe, Solo, Contents, NEW t \in Thread, WriteCommit(t) PROVE Contents'
<1> DEFINE f == th[t].entry.id
           c == SetCached(db, f, "QueuedUpload")
           e == Upsert(c, f, "Upload", th[t].entry.path, RootPath)
<1>1. /\ th[t].pc = "apply" /\ ~Locked /\ Return(t) /\ UNCHANGED <<w, remote, cache>> /\ db' = e
  BY DEF WriteCommit, Written
<1>2. f \in FileId /\ db \in Database /\ edit \in [FileId -> Nat]
  BY <1>1, CallTypes, SoloFacts DEF Inv, TypeOK
<1>3. edit' = [edit EXCEPT ![f] = th[t].data] /\ th[t].data # NoData
  <2>1. edit' = [edit EXCEPT ![f] = th[t].data]
    BY WriteCommitSolo
  <2>2. QED
    BY <1>1, <2>1 DEF Solo, CallFits
<1>4. NoMore(db, c, {})
  <2>1. Painted(db, c, f) /\ \A q \in RowOf(c, f) : q.sync = "QueuedUpload"
    BY <1>2, SetCachedPaints
  <2> HIDE DEF c
  <2>2. QED
    BY <2>1, PaintedNoMore
<1>5. c \in Database
  <2>1. Follows(db, c)
    BY SoloFacts, SetCachedFollows DEF SyncState
  <2>2. QED
    BY <2>1 DEF Follows, Sound
<1> HIDE DEF c
<1>6. e.files = c.files
  BY <1>5, UpsertQueue
<1> HIDE DEF e
<1>7. NoMore(db, e, {})
  BY <1>4, <1>6, NoMoreSame, NoMoreOn
<1>8. edit'[f] = th[t].data
  BY <1>2, <1>3
<1>9. QED
  BY <1>1, <1>3, <1>7, <1>8, CommitKept

LEMMA RequestRefreshKept ==
    ASSUME Inv, Safe, Solo, Contents, RequestRefresh PROVE Contents'
<1> DEFINE e == Upsert(db, Root, "RefreshTree", RootPath, RootPath)
<1>1. ~Locked /\ db' = e /\ UNCHANGED <<cache, remote, th, w, edit>>
  BY DEF RequestRefresh
<1>2. e.files = db.files
  BY SoloFacts, UpsertQueue
<1> HIDE DEF e
<1>3. NoMore(db, db', {})
  BY <1>1, <1>2, NoMoreSame
<1>4. \A f \in born : Settled(f)' => Settled(f) /\ cache'[f] = cache[f]
  BY <1>1 DEF Settled
<1>5. QED
  BY <1>1, <1>3, <1>4, CallKept

LEMMA CallsKept ==
    ASSUME EditsApart, Inv, Safe, Solo, Contents, NEW t \in Thread, Call(t) \/ CallStep(t)
    PROVE  Contents'
<1>1. {"mkdir", "unlink", "rename", "read"} \cap UserOps = {}
  BY DEF EditsApart
<1>2. CASE Call(t)
  <2>1. \A p, q : ~MakeDir(t, p) /\ ~Unlink(t, p) /\ ~ReadFile(t, p) /\ ~Rename(t, p, q)
    BY <1>1 DEF MakeDir, Unlink, ReadFile, Rename, MayCall
  <2>2. QED
    BY <1>2, <2>1, CreateFileKept, WriteFileKept DEF Call
<1>3. CASE CallStep(t)
  <2>1. th[t].pc \in {"idle", "create", "copy", "apply"}
    BY DEF Solo, CallFits
  <2>2. CreateCommit(t) \/ WriteCopy(t) \/ WriteCommit(t)
    BY <1>3, <2>1 DEF CallStep, MkdirCommit, UnlinkCommit, RenameCommit, ReadDownload,
                      ReadDownloadFails, ReadStore, ReadCommit
  <2>3. QED
    BY <2>2, CreateCommitKept, WriteCopyKept, WriteCommitKept
<1>4. QED
  BY <1>2, <1>3
-----------------------------------------------------------------------------
(* The worker.                                                                *)
LEMMA LeasesKept == ASSUME Inv, Safe, Solo, Contents, RecoverLease \/ Lease PROVE Contents'
<1>1. /\ \E o, s : db' = SetStatus(db, o.id, s)
      /\ w'.pc \in {"idle", "start"} /\ w.pc = "idle" /\ UNCHANGED <<cache, remote, th, edit>>
  BY DEF RecoverLease, Lease, At, Inv, TypeOK, WorkerState
<1>2. db'.files = db.files /\ db \in Stores /\ Late(w') = {}
  BY <1>1, SoloFacts DEF SetStatus, Database, Late
<1>3. QED
  BY <1>1, <1>2, NoMoreSame, DbKept

LEMMA StartKept == ASSUME Inv, Safe, Solo, Contents, Start PROVE Contents'
<1>1. w.pc = "start" /\ UNCHANGED <<db, cache, remote, th, edit>> /\ w \in WorkerState
  BY DEF Start, At, Inv, TypeOK
<1>2. w.job.type \in {"Upload", "RefreshTree"}
  BY <1>1 DEF Solo, JobFits
<1>3. w' = IdleWorker \/ w'.pc \in {"u_finish", "u_mark", "f_list"}
  <2>1. CASE Finish
    BY <2>1 DEF Finish
  <2>2. CASE Goto("u_finish")
    BY <1>1, <2>2 DEF Goto, WorkerState
  <2>3. ASSUME NEW found, NEW before,
               w' = [w EXCEPT !.pc = FirstStep[w.job.type], !.entry = The(found),
                              !.walk = {RootPath}, !.before = before]
        PROVE  w'.pc \in {"u_mark", "f_list"}
    <3>1. w'.pc = FirstStep[w.job.type]
      BY <1>1, <2>3 DEF WorkerState
    <3>2. QED
      BY <1>2, <3>1 DEF FirstStep
  <2>4. QED
    BY <2>1, <2>2, <2>3 DEF Start, Abandon
<1>4. Late(w') = {} /\ w'.pc # "f_apply"
  BY <1>3 DEF IdleWorker, Late
<1>5. QED
  BY <1>1, <1>4, MovesKept

LEMMA FailKept == ASSUME Inv, Safe, Solo, Contents, Fail PROVE Contents'
<1> DEFINE c == IF w.again THEN SetStatus(db, w.job.id, "Retryable") ELSE DropOp(db, w.job.id)
<1>1. /\ db' = SetSync(c, w.job.file, "Error") /\ Finish /\ UNCHANGED <<cache, remote, th, edit>>
      /\ db \in Database /\ db \in Stores
  BY SoloFacts DEF Fail, RetryOrFail
<1>2. c \in Database /\ c.files = db.files
  <2>1. CASE w.again
    <3>1. Follows(db, c)
      BY <2>1, SoloFacts, SetStatusFollows DEF OpStatus
    <3>2. QED
      BY <1>1, <2>1, <3>1 DEF Follows, Sound, SetStatus, Database
  <2>2. CASE ~w.again
    BY <1>1, <2>2 DEF DropOp, Database
  <2>3. QED
    BY <2>1, <2>2
<1> HIDE DEF c
<1>3. Painted(c, db', w.job.file) /\ \A q \in RowOf(db', w.job.file) : q.sync = "Error"
  BY <1>1, <1>2, SetSyncPaints
<1>4. NoMore(db, c, {}) /\ NoMore(c, db', {})
  BY <1>2, <1>3, NoMoreSame, PaintedNoMore
<1>5. QED
  BY <1>1, <1>4, NoMoreOn, IdleKept

LEMMA UploadMarkKept == ASSUME Inv, Safe, Solo, Contents, UploadMark PROVE Contents'
<1>1. /\ db' = SetSync(db, w.job.file, "Uploading") /\ w'.pc = "u_check"
      /\ UNCHANGED <<cache, remote, th, edit>> /\ db \in Database /\ db \in Stores
  BY SoloFacts DEF UploadMark, Goto, Inv, TypeOK, WorkerState
<1>2. Painted(db, db', w.job.file) /\ \A q \in RowOf(db', w.job.file) : q.sync = "Uploading"
  BY <1>1, SetSyncPaints
<1>3. NoMore(db, db', {}) /\ Late(w') = {}
  BY <1>1, <1>2, PaintedNoMore DEF Late
<1>4. QED
  BY <1>1, <1>3, DbKept

LEMMA UploadMovesKept ==
    ASSUME Inv, Safe, Solo, Contents, UploadCheck \/ UploadFetch PROVE Contents'
<1>1. UNCHANGED <<db, cache, remote, th, edit>> /\ w \in WorkerState
  BY DEF UploadCheck, UploadFetch, Inv, TypeOK
<1>2. /\ w'.pc \in {"u_put", "u_conflict", "fail", "u_commit"} /\ w'.job = w.job
      /\ w'.entry = w.entry
      /\ w'.pc = "u_commit" => w.pc = "u_fetch"
  <2>1. CASE UploadCheck
    BY <1>1, <2>1 DEF UploadCheck, WorkerState
  <2>2. CASE UploadFetch
    <3>1. \/ w' = [w EXCEPT !.pc = "fail", !.again = FALSE]
          \/ w' = [w EXCEPT !.pc = "u_commit", !.meta = Meta(remote, w.entry.path)]
      BY <2>2 DEF UploadFetch
    <3>2. QED
      BY <1>1, <2>2, <3>1 DEF UploadFetch, At, WorkerState
  <2>3. QED
    BY <2>1, <2>2
<1>3. QED
  BY <1>1, <1>2, MovesKept DEF Late

LEMMA UploadConflictKept == ASSUME Inv, Inv', Safe, Solo, Contents, UploadConflict PROVE Contents'
<1> DEFINE f == w.job.file
           p == w.entry.path
<1>1. /\ w.pc = "u_conflict" /\ FileId \ born # {} /\ UNCHANGED <<cache, remote, th, edit>>
  BY DEF UploadConflict, At
<1>2. /\ db \in Database /\ Sound(db) /\ Tidy(db) /\ Ids(db) \subseteq born \ Reserved
      /\ Agrees(remote, db) /\ db \in Stores /\ w \in WorkerState /\ Treed(remote)
  BY SoloFacts DEF Inv, TypeOK, Solo
<1>3. /\ FileOf(db, f) /\ w.meta = Meta(remote, p) /\ \E r \in RowOf(db, f) : r.path = p
  BY <1>1 DEF Solo, JobFits, UploadPc
<1>4. PICK q \in db.files : q.id = f /\ q.path = p /\ q.kind = "File"
  BY <1>2, <1>3 DEF FileOf, RowOf, Tidy, IdsOnce
<1>5. PICK cp \in NextConflictPaths(db, p) :
         IF ConflictFails(db, f, p, cp)
         THEN Abandon /\ UNCHANGED <<db, born>>
         ELSE /\ db' = IF w.meta = {} THEN ApplyConflict(db, f, p, cp)
                       ELSE EnsureRemoteRow(ApplyConflict(db, f, p, cp),
                                            The(w.meta), "Synced", FreshId)
              /\ Goto("u_finish")
  BY DEF UploadConflict
<1>6. CASE ConflictFails(db, f, p, cp)
  BY <1>1, <1>5, <1>6, GivenUpKept DEF Abandon
<1>7. CASE ~ConflictFails(db, f, p, cp)
  <2> DEFINE e == ApplyConflict(db, f, p, cp)
  <2>1. e \in Database /\ Tidy(e) /\ Agrees(remote, e) /\ NoMore(db, e, {})
    BY <1>2, <1>4, <1>7, ConflictAgrees, ConflictNoMore
  <2>2. db' = (IF w.meta = {} THEN e ELSE EnsureRemoteRow(e, The(w.meta), "Synced", FreshId))
        /\ Goto("u_finish")
    BY <1>5, <1>7
  <2> HIDE DEF e
  <2>3. NoMore(e, db', {})
    <3>1. CASE w.meta = {}
      BY <2>2, <3>1, NoMoreSame
    <3>2. CASE w.meta # {}
      <4>1. The(w.meta) \in remote
        BY <1>3, <3>2 DEF The, Meta
      <4>2. QED
        BY <1>2, <2>1, <2>2, <3>2, <4>1, EnsureNoMore
    <3>3. QED
      BY <3>1, <3>2
  <2>4. NoMore(db, db', {})
    BY <2>1, <2>3, NoMoreOn
  <2>5. w'.pc = "u_finish" /\ Late(w') = {}
    BY <1>2, <2>2 DEF Goto, WorkerState, Late
  <2>6. QED
    BY <1>1, <1>2, <2>4, <2>5, DbKept
<1>8. QED
  BY <1>6, <1>7

LEMMA UploadFinishKept == ASSUME Inv, Safe, Solo, Contents, UploadFinish PROVE Contents'
<1>1. FinishJob(db, w.job.id) = db
  BY SoloFacts, FinishJobFollows DEF UploadFinish, At, Inv, FinishedJobGone
<1>2. QED
  BY <1>1, GivenUpKept DEF UploadFinish

LEMMA FaultKept == ASSUME Inv, Safe, Solo, Contents, NetworkFails PROVE Contents'
<1>1. UNCHANGED <<db, cache, remote, th, edit>>
  BY DEF NetworkFails
<1>2. CASE CallFails
  <2>1. PICK kind : w' = [w EXCEPT !.pc = "fail", !.again = (kind = "retry")]
    BY <1>2 DEF CallFails
  <2>2. w'.pc = "fail" /\ Late(w') = {}
    BY <2>1 DEF Inv, TypeOK, WorkerState, Late
  <2>3. QED
    BY <1>1, <2>2, MovesKept
<1>3. CASE Finish
  BY <1>1, <1>3, GivenUpKept
<1>4. w.pc # "r_probe"
  BY DEF Solo, JobFits, UploadPc, TreePc
<1>5. QED
  BY <1>2, <1>3, <1>4 DEF NetworkFails, CallAbandoned, Abandon, At
-----------------------------------------------------------------------------
(* The upload: its bytes are the server's, and nothing else that is Synced is *)
(* at its path.                                                               *)
LEMMA UploadPutKept == ASSUME Inv, Safe, Solo, Contents, UploadPut PROVE Contents'
<1> DEFINE f == w.job.file
           p == w.entry.path
<1>1. w.pc = "u_put" /\ UNCHANGED <<db, cache, th>>
  BY DEF UploadPut, At
<1>2. /\ Tidy(db) /\ Stores = {db} /\ w \in WorkerState /\ Treed(remote)
      /\ edit \in [FileId -> Nat] /\ f \in FileId
  <2>1. ~Locked
    BY <1>1 DEF Locked
  <2>2. QED
    BY <2>1, SoloFacts, WorkerTypes DEF Inv, TypeOK, Solo
<1>3. (\E r \in RowOf(db, f) : r.path = p) /\ \A r \in RowOf(db, f) : r.sync # "Synced"
  BY <1>1 DEF Solo, JobFits, UploadPc
<1>4. CASE cache[f] = NoData
  <2>1. w' = [w EXCEPT !.pc = "fail", !.again = FALSE] /\ UNCHANGED <<remote, edit>>
    BY <1>4 DEF UploadPut
  <2>2. w'.pc = "fail" /\ Late(w') = {}
    BY <1>2, <2>1 DEF WorkerState, Late
  <2>3. QED
    BY <1>1, <2>1, <2>2, MovesKept
<1>5. CASE cache[f] # NoData
  <2> DEFINE new == [path |-> p, kind |-> "File", ver |-> clock + 1, data |-> cache[f]]
  <2>1. /\ remote' = (remote \ Meta(remote, p)) \cup {new} /\ edit' = [edit EXCEPT ![f] = NoData]
        /\ Goto("u_fetch") \/ w' = [w EXCEPT !.pc = "fail", !.again = TRUE]
    BY <1>5 DEF UploadPut, PutFile, AnswerLost
  <2>2. w'.pc \in {"u_fetch", "fail"} /\ w'.job = w.job /\ w'.entry = w.entry
    BY <1>2, <2>1 DEF Goto, WorkerState
  <2>3. new.path = p /\ new.data = cache[f]
    OBVIOUS
  <2> HIDE DEF new
  <2>4. /\ \A x \in Meta(remote', p) : x = new
        /\ \A k : k # p => Meta(remote', k) = Meta(remote, k)
    BY <2>1, <2>3 DEF Meta
  <2>5. Pinned(f, p)'
    <3>1. UNCHANGED <<f, p>>
      BY <2>2
    <3>2. QED
      BY <1>1, <2>3, <2>4, <3>1 DEF Pinned
  <2>6. ASSUME NEW r \in Vouched(db), Settled(r.id)' PROVE Pinned(r.id, r.path)'
    <3>1. r \in db.files /\ r.id # f /\ r.path # p
      BY <1>2, <1>3 DEF Vouched, RowOf, Tidy, PathsOnce
    <3>2. Settled(r.id)
      BY <1>1, <1>2, <2>1, <2>6, <3>1 DEF Settled
    <3>3. Pinned(r.id, r.path)
      BY <1>2, <3>2 DEF Contents
    <3>4. QED
      BY <1>1, <2>4, <3>1, <3>3 DEF Pinned
  <2>7. Stores' = {db}
    BY <1>1, <2>2 DEF Stores, Locked
  <2>8. QED
    BY <2>5, <2>6, <2>7 DEF Contents
<1>6. QED
  BY <1>4, <1>5

(* The row that it marks Synced has the bytes it uploaded, or unsettled ones. *)
LEMMA UploadCommitKept == ASSUME Inv, Safe, Solo, Contents, UploadCommit PROVE Contents'
<1> DEFINE f == w.job.file
           p == w.entry.path
           c == IF w.meta = {} THEN db ELSE SetSynced(db, f, RemoteVersion(w.meta))
<1>1. /\ w.pc = "u_commit" /\ db' = DropOp(c, w.job.id) /\ w' = IdleWorker
      /\ UNCHANGED <<cache, remote, th, edit>>
  BY DEF UploadCommit, CommitSynced, Finish, At
<1>2. db \in Database /\ Tidy(db) /\ Stores = {db} /\ Late(w) # {}
  BY <1>1, SoloFacts DEF Locked, Late
<1>3. \E r \in RowOf(db, f) : r.path = p
  BY <1>1 DEF Solo, JobFits, UploadPc
<1>4. c \in Database /\ Painted(db, c, f)
  <2>1. CASE w.meta = {}
    BY <1>2, <2>1 DEF Painted
  <2>2. CASE w.meta # {}
    BY <1>1, <1>2, <2>2, SyncedAgrees, SetSyncedPaints
  <2>3. QED
    BY <2>1, <2>2
<1> HIDE DEF c
<1>5. db'.files = c.files
  BY <1>1, <1>4 DEF DropOp, Database
<1>6. NoMore(db, c, {f})
  BY <1>4, PaintedNoMore
<1>7. ASSUME NEW q \in Vouched(db'), Settled(q.id)' PROVE Pinned(q.id, q.path)'
  <2>1. q \in Vouched(c) /\ q \in c.files
    BY <1>5 DEF Vouched
  <2>2. Settled(q.id)
    BY <1>1, <1>7 DEF Settled
  <2>3. Pinned(q.id, q.path)
    <3>1. CASE q.id = f
      <4>1. q.path = p
        BY <1>2, <1>3, <1>4, <2>1, <3>1 DEF Painted, RowOf, Tidy, IdsOnce
      <4>2. QED
        BY <1>2, <2>2, <3>1, <4>1 DEF Contents
    <3>2. CASE q.id # f
      <4>1. PICK r \in Vouched(db) : r.id = q.id /\ r.path = q.path
        BY <1>6, <2>1, <3>2 DEF NoMore
      <4>2. QED
        BY <1>2, <2>2, <4>1 DEF Contents
    <3>3. QED
      BY <3>1, <3>2
  <2>4. QED
    BY <1>1, <2>3 DEF Pinned
<1>8. Stores' = {db'} /\ Late(w') = {}
  BY <1>1 DEF Stores, Locked, IdleWorker, Late
<1>9. QED
  BY <1>7, <1>8 DEF Contents

LEMMA WorkerKept == ASSUME Inv, Inv', Safe, Solo, Contents, WorkerStep PROVE Contents'
<1>1. w.pc \in UploadPc \cup TreePc \cup {"idle", "start"}
  BY DEF Solo, JobFits
<1>2. CASE Poll
  <2>1. UNCHANGED <<db, cache, remote, th, edit, w>> /\ w.pc = "idle"
    BY <1>2 DEF Poll, At, vars
  <2>2. QED
    BY <2>1, MovesKept
<1>3. \/ RecoverLease \/ Lease \/ Poll \/ Start \/ Fail
      \/ UploadMark \/ UploadCheck \/ UploadConflict \/ UploadFinish
      \/ UploadPut \/ UploadFetch \/ UploadCommit
  BY <1>1 DEF WorkerStep, UploadPc, TreePc, At, DeleteCall, DeleteCommit, MkdirCall, MkdirFetch,
              MkdirSynced, RenameProbe, RenameDelete, RenameMove, RenameFetch, RenameSynced,
              DownloadMark, DownloadGet, DownloadWrite, DownloadCommit
<1>4. QED
  BY <1>2, <1>3, LeasesKept, StartKept, FailKept, UploadMarkKept, UploadMovesKept,
     UploadConflictKept, UploadFinishKept, UploadPutKept, UploadCommitKept
-----------------------------------------------------------------------------
(* The refresh.                                                               *)
LEMMA WalkKept ==
    ASSUME Inv, Safe, Solo, Contents, RefreshList \/ RefreshSnapshot PROVE Contents'
<1>1. UNCHANGED <<db, cache, remote, th, edit>> /\ w \in WorkerState
  BY DEF RefreshList, RefreshSnapshot, Inv, TypeOK
<1>2. w'.pc \in {"f_list", "f_snap", "f_begin", "idle"}
  <2>1. CASE RefreshSnapshot
    BY <1>1, <2>1 DEF RefreshSnapshot, WorkerState
  <2>2. CASE RefreshList
    BY <2>2, RefreshListMoves DEF Finish, IdleWorker
  <2>3. QED
    BY <2>1, <2>2
<1>3. QED
  BY <1>1, <1>2, MovesKept DEF Late

LEMMA RefreshBeginKept == ASSUME Inv, Safe, Solo, Contents, RefreshBegin PROVE Contents'
<1>1. /\ UNCHANGED <<db, cache, remote, th, edit>> /\ w'.pc = "f_apply" /\ w'.tx = db
  BY DEF RefreshBegin, Inv, TypeOK, WorkerState
<1>2. Stores' = {db} /\ Late(w') = {} /\ db \in Stores
  BY <1>1 DEF Stores, Locked, Late
<1>3. NoMore(db, db, {})
  BY NoMoreSame
<1>4. QED
  BY <1>1, <1>2, <1>3, WorkKept

(* The local file of a conflict steps aside.                                  *)
LEMMA AsideNoMore ==
    ASSUME Inv, Safe, Solo, Locked, NEW l \in w.snap, l.sync \in Unsynced,
           l \in w.gone \/ Exists(w.todo, l.path),
           NEW cp \in NextConflictPaths(w.tx, l.path), ~ConflictFails(w.tx, l.id, l.path, cp)
    PROVE  NoMore(w.tx, ApplyConflict(w.tx, l.id, l.path, cp), {})
<1>1. RowFits(remote, l) /\ Placed(w.tx, l)
  BY DEF Solo, SnapFits, Locked
<1>2. PICK q \in w.tx.files : q.id = l.id /\ q.path = l.path /\ q.kind = l.kind
  BY <1>1 DEF Placed, RowOf
<1>3. q.kind = "File"
  <2>1. q.kind \in Kind
    BY <1>2, SoloFacts DEF Database, Row
  <2>2. CASE q.kind = "Dir"
    BY <1>1, <1>2, <2>2 DEF RowFits, Unsynced
  <2>3. QED
    BY <2>1, <2>2 DEF Kind
<1>4. QED
  BY <1>2, <1>3, SoloFacts, ConflictNoMore DEF Solo

LEMMA RefreshMergeKept ==
    ASSUME Inv, Safe, RefreshInv, Solo, Contents, spent.other = 0, RefreshMerge PROVE Contents'
<1>1. /\ Locked /\ FileId \ born # {} /\ UNCHANGED <<db, cache, remote, th, edit>>
      /\ w \in WorkerState
  BY DEF RefreshMerge, At, Locked, Inv, TypeOK
<1>2. PICK res \in w.todo : MergeConflict(res) \/ MergeOutdated(res) \/ MergePlain(res)
  BY DEF RefreshMerge
<1>3. ~MergeOutdated(res)
  BY <1>1, NothingOutdated DEF MergeOutdated
<1>4. res \in remote
  <2>1. w.seen = remote
    BY <1>1, SeenAll DEF Locked
  <2>2. QED
    BY <1>1, <2>1 DEF Solo, SnapFits, Locked
<1>5. ASSUME NEW e \in Database, Tidy(e), Agrees(remote, e), NoMore(w.tx, e, {}),
             w' = [w EXCEPT !.tx = EnsureRemoteRow(e, res, "Synced", FreshId),
                            !.todo = @ \ {res}]
      PROVE  Contents'
  <2> DEFINE g == EnsureRemoteRow(e, res, "Synced", FreshId)
  <2>1. NoMore(e, g, {})
    BY <1>4, <1>5, EnsureNoMore DEF Solo
  <2>2. w' = [w EXCEPT !.tx = g, !.todo = @ \ {res}]
    BY <1>5
  <2> HIDE DEF g
  <2>3. w'.tx = g /\ w'.pc = "f_apply"
    BY <1>1, <2>2 DEF WorkerState, Locked
  <2>4. NoMore(w.tx, g, {})
    BY <1>5, <2>1, NoMoreOn
  <2>5. QED
    BY <1>1, <2>3, <2>4, TxKept
<1>6. CASE MergePlain(res)
  BY <1>1, <1>5, <1>6, SoloFacts, NoMoreSame DEF MergePlain
<1>7. CASE MergeConflict(res)
  <2>1. PICK l \in Conflicting(res) : \E cp \in NextConflictPaths(w.tx, l.path) :
          IF ConflictFails(w.tx, l.id, l.path, cp)
          THEN Abandon /\ UNCHANGED born
          ELSE w' = [w EXCEPT !.tx = EnsureRemoteRow(ApplyConflict(w.tx, l.id, l.path, cp),
                                                     res, "Synced", FreshId),
                              !.todo = @ \ {res}]
    BY <1>7 DEF MergeConflict
  <2>2. PICK cp \in NextConflictPaths(w.tx, l.path) :
          IF ConflictFails(w.tx, l.id, l.path, cp)
          THEN Abandon /\ UNCHANGED born
          ELSE w' = [w EXCEPT !.tx = EnsureRemoteRow(ApplyConflict(w.tx, l.id, l.path, cp),
                                                     res, "Synced", FreshId),
                              !.todo = @ \ {res}]
    BY <2>1
  <2>3. l \in w.snap /\ l.sync \in Unsynced /\ Exists(w.todo, l.path)
    BY DEF Conflicting, Local, Exists, Meta
  <2>4. CASE ConflictFails(w.tx, l.id, l.path, cp)
    BY <1>1, <2>2, <2>4, GivenUpKept DEF Abandon
  <2>5. CASE ~ConflictFails(w.tx, l.id, l.path, cp)
    <3> DEFINE e == ApplyConflict(w.tx, l.id, l.path, cp)
    <3>1. e \in Database /\ Tidy(e) /\ Agrees(remote, e)
      BY <1>1, <2>3, <2>5, AsideFits
    <3>2. NoMore(w.tx, e, {})
      BY <1>1, <2>3, <2>5, AsideNoMore
    <3>3. w' = [w EXCEPT !.tx = EnsureRemoteRow(e, res, "Synced", FreshId), !.todo = @ \ {res}]
      BY <2>2, <2>5
    <3> HIDE DEF e
    <3>4. QED
      BY <1>5, <3>1, <3>2, <3>3
  <2>6. QED
    BY <2>4, <2>5
<1>8. QED
  BY <1>2, <1>3, <1>6, <1>7

LEMMA RefreshDropKept ==
    ASSUME Inv, Safe, RefreshInv, Solo, Contents, spent.other = 0, RefreshDrop PROVE Contents'
<1>1. /\ Locked /\ UNCHANGED <<db, remote, th, edit, cache>> /\ w \in WorkerState
  BY RefreshDropSolo DEF RefreshDrop, At, Locked, Inv, TypeOK
<1>2. PICK l \in w.gone : DropRow(l) \/ KeepCopy(l) \/ DropConflict(l)
  BY DEF RefreshDrop
<1>3. l \in w.snap /\ l.sync \in Unsynced
  BY <1>1, GoneUnsynced
<1>4. ~DropRow(l)
  BY <1>3 DEF DropRow, Unsynced
<1>5. CASE KeepCopy(l)
  <2>1. w' = [w EXCEPT !.gone = @ \ {l}]
    BY <1>5 DEF KeepCopy
  <2>2. w'.pc = "f_apply" /\ w'.tx = w.tx
    BY <1>1, <2>1 DEF WorkerState, Locked
  <2>3. QED
    BY <1>1, <2>2, NoMoreSame, TxKept
<1>6. CASE DropConflict(l)
  <2>1. PICK cp \in NextConflictPaths(w.tx, l.path) :
          IF ConflictFails(w.tx, l.id, l.path, cp) THEN Abandon
          ELSE w' = [w EXCEPT !.tx = ApplyConflict(w.tx, l.id, l.path, cp),
                              !.gone = @ \ {l}]
    BY <1>6 DEF DropConflict
  <2>2. CASE ConflictFails(w.tx, l.id, l.path, cp)
    BY <1>1, <2>1, <2>2, GivenUpKept DEF Abandon
  <2>3. CASE ~ConflictFails(w.tx, l.id, l.path, cp)
    <3> DEFINE e == ApplyConflict(w.tx, l.id, l.path, cp)
    <3>1. NoMore(w.tx, e, {})
      BY <1>1, <1>3, <2>3, AsideNoMore
    <3>2. w' = [w EXCEPT !.tx = e, !.gone = @ \ {l}]
      BY <2>1, <2>3
    <3> HIDE DEF e
    <3>3. w'.pc = "f_apply" /\ w'.tx = e
      BY <1>1, <3>2 DEF WorkerState, Locked
    <3>4. QED
      BY <1>1, <3>1, <3>3, TxKept
  <2>4. QED
    BY <2>2, <2>3
<1>7. QED
  BY <1>2, <1>4, <1>5, <1>6

LEMMA RefreshEndKept ==
    ASSUME Inv, Safe, Solo, Contents, RefreshCommit \/ RefreshDone PROVE Contents'
<1>1. CASE RefreshCommit
  <2>1. /\ Locked /\ db' = w.tx /\ UNCHANGED <<cache, remote, th, edit>> /\ w'.pc = "f_done"
    BY <1>1 DEF RefreshCommit, At, Locked, Inv, TypeOK, WorkerState
  <2>2. w.tx \in Stores /\ Late(w') = {}
    BY <2>1 DEF Stores, Late
  <2>3. QED
    BY <2>1, <2>2, NoMoreSame, DbKept
<1>2. CASE RefreshDone
  <2>1. db'.files = db.files /\ Finish /\ UNCHANGED <<cache, remote, th, edit>> /\ db \in Stores
    BY <1>2, SoloFacts DEF RefreshDone, DropOp, Database
  <2>2. QED
    BY <2>1, NoMoreSame, IdleKept
<1>3. QED
  BY <1>1, <1>2

LEMMA RefreshKept ==
    ASSUME Inv, Safe, RefreshInv, Solo, Contents, spent.other = 0, RefreshStep PROVE Contents'
BY WalkKept, RefreshBeginKept, RefreshMergeKept, RefreshDropKept, RefreshEndKept DEF RefreshStep
-----------------------------------------------------------------------------
LEMMA InitContents == ASSUME EditsApart, Inv, Init PROVE Contents
<1> DEFINE res(e) == [path |-> e.path, kind |-> e.kind, ver |-> 1,
                      data |-> IF e.kind = "File" THEN 1 ELSE NoData]
           row(e) == [id |-> e.id, path |-> e.path, kind |-> e.kind, sync |-> "Synced",
                      ver |-> 1, cached |-> e.local = "cached"]
           known == {x \in InitTree : x.local # "unknown"}
           start == [files |-> {RootRow} \cup {row(e) : e \in known},
                     queue |-> {}, copies |-> {}, nextOp |-> 1]
<1>1. /\ remote = {RootResource} \cup {res(e) : e \in InitTree}
      /\ db = Upsert(start, Root, "RefreshTree", RootPath, RootPath)
      /\ cache = [f \in FileId |-> IF \E e \in InitTree : e.id = f /\ e.local = "cached"
                                   THEN 1 ELSE NoData]
      /\ Stores = {db} /\ Late(w) = {}
  BY DEF Init, Stores, Locked, IdleWorker, Late
<1>2. /\ \A e \in InitTree : /\ e.path \in Path /\ e.path # RootPath /\ e.kind \in Kind
                             /\ e.id \in FileId
      /\ \A e, g \in InitTree : e.path = g.path => e = g
  BY StateAssumption DEF InitEntry
<1>3. db.files = start.files
  <2>1. \A e \in InitTree : row(e) \in Row
    BY <1>2 DEF Row, SyncState
  <2>2. start.files \in SUBSET Row
    BY <2>1, RootTypes
  <2>3. start \in Database
    BY <2>2 DEF Database
  <2> HIDE DEF start
  <2>4. QED
    BY <1>1, <2>3, UpsertQueue
<1>4. ASSUME NEW r \in Vouched(db) PROVE Pinned(r.id, r.path)
  <2>1. r.kind = "File" /\ r.cached /\ r \in start.files
    BY <1>3, <1>4 DEF Vouched
  <2>2. PICK e \in known : r = row(e)
    BY <2>1 DEF RootRow
  <2>3. e \in InitTree /\ e.kind = "File" /\ e.local = "cached" /\ r.id = e.id /\ r.path = e.path
    BY <2>1, <2>2
  <2>4. cache[e.id] = 1
    BY <1>1, <1>2, <2>3
  <2>5. ASSUME NEW x \in remote, x.path = e.path PROVE x.data = 1
    <3>1. x # RootResource
      BY <1>2, <2>3, <2>5 DEF RootResource
    <3>2. PICK g \in InitTree : x = res(g)
      BY <1>1, <3>1
    <3>3. g = e
      BY <1>2, <2>3, <2>5, <3>2
    <3>4. QED
      BY <2>3, <3>2, <3>3
  <2>6. QED
    BY <2>3, <2>4, <2>5 DEF Pinned, Meta
<1>5. QED
  BY <1>1, <1>4 DEF Contents
-----------------------------------------------------------------------------
(* Rows and bytes are the server's as long as there is no other client and no *)
(* kill.                                                                      *)
Quiet == spent.other = 0 /\ ~Killed => Contents

LEMMA NotKilled ==
    ASSUME TypeOK, [Next]_vars, ~Killed' PROVE ~Killed /\ ~CrashRestart
<1>1. spent \in [EventKind -> Nat] /\ {"crash", "half"} \subseteq EventKind
  BY DEF TypeOK, Events, EventKind
<1>2. spent.crash \in Nat /\ spent.half \in Nat
  BY <1>1
<1>3. CASE UNCHANGED spent
  <2>1. ~Spend("crash") /\ ~Spend("half")
    BY <1>1, <1>2, <1>3 DEF Spend
  <2>2. QED
    BY <1>3, <2>1 DEF Killed, CrashRestart
<1>4. ASSUME NEW kind, Spend(kind) PROVE ~Killed /\ ~CrashRestart
  <2>1. spent' = [spent EXCEPT ![kind] = @ + 1]
    BY <1>4 DEF Spend
  <2>2. /\ spent'.crash \in {spent.crash, spent.crash + 1}
        /\ spent'.half \in {spent.half, spent.half + 1}
    BY <1>1, <2>1
  <2>3. spent'.crash = 0 /\ spent'.half = 0 /\ spent.crash = 0 /\ spent.half = 0
    BY <1>2, <2>2 DEF Killed
  <2>4. ~Spend("crash") /\ ~Spend("half")
    BY <1>1, <2>3 DEF Spend
  <2>5. QED
    BY <2>3, <2>4 DEF Killed, CrashRestart
<1>5. QED
  BY <1>3, <1>4, StepCounted DEF Counted

LEMMA QuietKept ==
    ASSUME EditsApart, Inv, Inv', Safe, RefreshInv, Worlds, Quiet, [Next]_vars PROVE Quiet'
<1>1. SUFFICES ASSUME spent'.other = 0, ~Killed' PROVE Contents'
  BY DEF Quiet
<1>2. ~Killed /\ ~CrashRestart
  BY <1>1, NotKilled DEF Inv
<1>3. spent.other = 0 /\ ~Spend("other")
  BY <1>1, StepCounted, SpentApart DEF Inv, Worlds
<1>4. Solo /\ Contents
  BY <1>2, <1>3 DEF Worlds, Quiet
<1>5. CASE UNCHANGED vars
  <2>1. Stores' = Stores /\ Late(w') = Late(w)
    BY <1>5 DEF Stores, Locked, vars, Late
  <2>2. QED
    BY <1>4, <1>5, <2>1, NoMoreSame, WorkKept DEF vars
<1>6. CASE \E t \in Thread : Call(t) \/ CallStep(t)
  BY <1>4, <1>6, CallsKept
<1>7. ~OtherClient
  BY <1>3 DEF OtherClient, OtherPut, OtherDelete
<1>8. QED
  BY <1>2, <1>3, <1>4, <1>5, <1>6, <1>7, WorkerKept, RefreshKept, FaultKept, RequestRefreshKept
     DEF Next

LEMMA QuietStored == ASSUME Inv, Worlds, Quiet PROVE QuietMeansStored
<1>1. SUFFICES ASSUME Quiescent, Alone, ~Killed, NEW r \in db.files,
                      r.kind = "File", r.sync = "Synced"
               PROVE  \E x \in Meta(remote, r.path) :
                         r.ver = x.ver /\ (r.cached => cache[r.id] = x.data)
  BY DEF QuietMeansStored
<1>2. Solo /\ Contents /\ db \in Stores
  BY <1>1 DEF Worlds, Quiet, Alone, Stores
<1>3. /\ w.pc = "idle" /\ Late(w) = {} /\ \A t \in Thread : th[t].pc = "idle"
      /\ \A o \in db.queue : o.type # "Upload"
  BY <1>1 DEF Quiescent, Late
<1>4. PICK x \in Meta(remote, r.path) : x.ver = r.ver
  BY <1>1, <1>2 DEF Solo, Agrees, RowFits
<1>5. r.id \in FileId
  BY DEF Inv, TypeOK, Database, Row
<1>6. edit[r.id] = NoData
  BY <1>1, <1>2, <1>3, <1>5, OwedNotClean DEF Solo
<1>7. ASSUME r.cached PROVE cache[r.id] = x.data
  <2>1. r \in Vouched(db)
    BY <1>1, <1>7 DEF Vouched
  <2>2. Settled(r.id)
    BY <1>3, <1>6 DEF Settled
  <2>3. QED
    BY <1>2, <2>1, <2>2 DEF Contents, Pinned
<1>8. QED
  BY <1>4, <1>7

(* What is quiet is complete: with no other client and no kill, once nothing  *)
(* is queued and nobody is at work, a Synced file is on the server at its     *)
(* row's version and with the bytes that are in the cache.  An upload that a  *)
(* newer write overtook may mark the row Synced (process_upload), but then    *)
(* that write's own operation waits.                                           *)
THEOREM QuietFilesStored == ASSUME EditsApart PROVE Spec => []QuietMeansStored
<1>1. Init => Inv /\ Safe /\ RefreshInv /\ Worlds /\ Quiet
  BY InitInv, InitSafe, InitMirrors, InitWorlds, InitContents DEF Quiet
<1>2. (Inv /\ Safe /\ RefreshInv /\ Worlds /\ Quiet) /\ [Next]_vars
         => (Inv /\ Safe /\ RefreshInv /\ Worlds /\ Quiet)'
  BY NextKeeps, SafeKept, MirrorsKept, WorldsKept, QuietKept
<1>3. Inv /\ Worlds /\ Quiet => QuietMeansStored
  BY QuietStored
<1>4. QED
  BY <1>1, <1>2, <1>3, PTL DEF Spec
-----------------------------------------------------------------------------
(* q is p, or what conflict copies of p may be called: beside it, with a       *)
(* greater number behind the name.                                             *)
Beside(p, q) ==
    /\ Len(q) = Len(p)
    /\ \A i \in 1 .. Len(p) - 1 : q[i] = p[i]
    /\ q[Len(p)].stem = p[Len(p)].stem
    /\ p[Len(p)].n <= q[Len(p)].n

(* On the disk, what is cached are files, and nothing cached is below one of    *)
(* them or below what a conflict copy of it may be called.                      *)
CopiesApart ==
    \A e \in InitTree : e.local = "cached" =>
        /\ e.kind = "File"
        /\ \A g \in InitTree : g.local = "cached" =>
              \A k \in 1 .. Len(g.path) - 1 : ~Beside(e.path, SubSeq(g.path, 1, k))

(* Where cached files may be, and where they are until they step aside.        *)
CachePath(p) == \E e \in InitTree : e.local = "cached" /\ Beside(e.path, p)
OwnPath(p)   == \E e \in InitTree : e.local = "cached" /\ e.path = p

LEMMA InitPaths ==
    ASSUME NEW e \in InitTree
    PROVE  /\ e.path \in Path /\ Len(e.path) \in Nat \ {0}
           /\ e.id \in FileId \ {Root} /\ e.kind \in Kind
BY StateAssumption, EmptySeq, LenProperties DEF InitEntry, Path, RootPath

LEMMA NotRoot == ~CachePath(RootPath) /\ ~OwnPath(RootPath)
<1>1. Len(RootPath) = 0
  BY EmptySeq DEF RootPath
<1>2. QED
  BY <1>1, InitPaths DEF CachePath, OwnPath, Beside

(* A copy of a cached file is where cached files may be.                       *)
LEMMA CopyPath ==
    ASSUME NEW d, NEW p \in Path, p # RootPath, CachePath(p), NEW cp \in NextConflictPaths(d, p)
    PROVE  CachePath(cp)
<1>1. cp \in Path /\ Len(cp) = Len(p) /\ \A i \in 1 .. Len(p) - 1 : cp[i] = p[i]
  BY CopyBeside
<1>2. /\ Len(p) \in Nat \ {0} /\ p[Len(p)] \in Name /\ p \in [1 .. Len(p) -> Name]
  BY EmptySeq, LenProperties, ElementOfSeq DEF Path, RootPath
<1>3. PICK k \in Last(p).n + 1 .. Last(p).n + 1 + Cardinality(UsedNames(d, p)) :
         cp = WithSuffix(p, k)
  BY DEF NextConflictPaths
<1>4. cp[Len(p)].stem = p[Len(p)].stem /\ p[Len(p)].n <= cp[Len(p)].n
  <2>1. cp = [p EXCEPT ![Len(p)] = [p[Len(p)] EXCEPT !.n = k]]
    BY <1>2, <1>3 DEF WithSuffix
  <2>2. cp[Len(p)] = [p[Len(p)] EXCEPT !.n = k]
    BY <1>2, <2>1
  <2>3. cp[Len(p)].stem = p[Len(p)].stem /\ cp[Len(p)].n = k
    BY <1>2, <2>2 DEF Name
  <2>4. Last(p) = p[Len(p)] /\ p[Len(p)].n \in Nat
    BY <1>2 DEF Last, Name
  <2>5. QED
    BY <1>3, <2>3, <2>4
<1>5. PICK e \in InitTree : e.local = "cached" /\ Beside(e.path, p)
  BY DEF CachePath
<1>6. /\ e.path[Len(e.path)].n \in Nat /\ p[Len(p)].n \in Nat /\ cp[Len(p)].n \in Nat
      /\ Len(e.path) = Len(p)
  <2>1. /\ Len(e.path) = Len(p) /\ e.path \in Path /\ cp[Len(p)] \in Name
    BY <1>1, <1>2, <1>5, InitPaths, ElementOfSeq DEF Beside, Path
  <2>2. e.path[Len(e.path)] \in Name
    BY <1>2, <2>1, ElementOfSeq DEF Path
  <2>3. QED
    BY <1>2, <2>1, <2>2 DEF Name
<1>7. Beside(e.path, cp)
  BY <1>1, <1>4, <1>5, <1>6 DEF Beside
<1>8. QED
  BY <1>5, <1>7 DEF CachePath

(* No cached file is below another one.                                        *)
LEMMA CachedApart ==
    ASSUME CopiesApart, NEW p \in Path, NEW q \in Path, CachePath(p), CachePath(q), IsPrefix(p, q)
    PROVE  q = p
<1>1. PICK e \in InitTree : e.local = "cached" /\ Beside(e.path, p)
  BY DEF CachePath
<1>2. PICK g \in InitTree : g.local = "cached" /\ Beside(g.path, q)
  BY DEF CachePath
<1>3. /\ Len(e.path) = Len(p) /\ Len(g.path) = Len(q) /\ g.path \in Path
      /\ Len(p) \in Nat \ {0} /\ Len(q) \in Nat \ {0}
  BY <1>1, <1>2, InitPaths DEF Beside
<1>4. Len(p) <= Len(q) /\ p = SubSeq(q, 1, Len(p))
  BY <1>3, WholePath DEF IsPrefix
<1>5. \A i \in 1 .. Len(p) : q[i] = p[i]
  <2>1. \A i \in 1 .. Len(p) : q[i] \in Name
    BY <1>3, <1>4, ElementOfSeq DEF Path
  <2>2. \A i \in 1 .. Len(p) : SubSeq(q, 1, Len(p))[i] = q[i]
    BY <1>3, <1>4, <2>1, SubSeqProperties DEF Path
  <2>3. QED
    BY <1>4, <2>2
<1>6. Len(p) = Len(q)
  <2>1. SUFFICES ASSUME Len(p) < Len(q) PROVE FALSE
    BY <1>3, <1>4
  <2> DEFINE a == SubSeq(g.path, 1, Len(p))
  <2>2. \A i \in 1 .. Len(p) : g.path[i] \in Name
    BY <1>3, <2>1, ElementOfSeq DEF Path
  <2>3. Len(a) = Len(p) /\ \A i \in 1 .. Len(p) : a[i] = g.path[i]
    BY <1>3, <2>1, <2>2, SubSeqProperties DEF Path
  <2>4. \A i \in 1 .. Len(p) : g.path[i] = p[i]
    BY <1>2, <1>3, <1>5, <2>1 DEF Beside
  <2> HIDE DEF a
  <2>5. Beside(e.path, a)
    BY <1>1, <1>3, <2>3, <2>4 DEF Beside
  <2>6. Len(p) \in 1 .. Len(g.path) - 1
    BY <1>3, <2>1
  <2>7. QED
    BY <1>1, <1>2, <2>5, <2>6 DEF CopiesApart, a
<1>7. QED
  BY <1>3, <1>4, <1>6, WholePath
-----------------------------------------------------------------------------
(* The files set aside as conflict copies, and those that wait for a download. *)
CopyIds(d) == {c[1] : c \in d.copies}
Loads(d)   == {o.file : o \in {q \in d.queue : q.type = "Download"}}

(* What a behaviour without calls keeps true of the rows and of the queue, for *)
(* the bytes C and the time n: only files cached from the start, and their     *)
(* copies, are in the cache or have work to do; what is uploaded is a copy.     *)
RowsFit(d, C, n) ==
    /\ \A r \in d.files : /\ r.cached => CachePath(r.path)
                          /\ r.cached => r.id \in CopyIds(d) \/ OwnPath(r.path)
                          /\ r.sync \in Unsynced => r.cached
                          /\ ~r.cached => C[r.id] = NoData
                          /\ r.ver <= n
    /\ \A o \in d.queue : /\ o.type \in {"RefreshTree", "Upload", "Download"}
                          /\ o.type # "RefreshTree" => \E r \in d.files : r.id = o.file /\ r.cached
                          /\ o.type = "Upload" => o.file \in CopyIds(d)

(* The bytes of a row are those of every resource of K that has its path and   *)
(* its version; of a row of d that is not a copy, has not failed and does not  *)
(* wait for a download they are.                                               *)
BytesFit(r, K, C) == \A x \in K : x.path = r.path /\ x.ver = r.ver => C[r.id] \in {NoData, x.data}

Settles(d, r, K, C) ==
    r.id \in CopyIds(d) \/ r.sync = "Error" \/ r.id \in Loads(d) \/ BytesFit(r, K, C)

BytesKnown(d, K, C) == \A r \in d.files : Settles(d, r, K, C)

(* e is d but for the state and the version of the file f and what the queue   *)
(* has of it.                                                                  *)
Tends(d, e, f) ==
    /\ e.copies = d.copies
    /\ \A r \in e.files : \E q \in d.files :
          r.id = q.id /\ r.path = q.path /\ r.cached = q.cached /\ (r.id # f => r = q)
    /\ \A q \in d.files : \E r \in e.files :
          r.id = q.id /\ r.path = q.path /\ r.cached = q.cached
    /\ \A q \in e.queue : \/ q.type = "RefreshTree"
                          \/ \E o \in d.queue : q.file = o.file /\ q.type = o.type
    /\ Loads(d) \ {f} \subseteq Loads(e)

LEMMA TendsOn ==
    ASSUME NEW d, NEW e, NEW g, NEW f, Tends(d, e, f), Tends(e, g, f) PROVE Tends(d, g, f)
<1>1. ASSUME NEW r \in g.files
      PROVE  \E q \in d.files :
                r.id = q.id /\ r.path = q.path /\ r.cached = q.cached /\ (r.id # f => r = q)
  <2>1. PICK p \in e.files :
           r.id = p.id /\ r.path = p.path /\ r.cached = p.cached /\ (r.id # f => r = p)
    BY DEF Tends
  <2>2. PICK q \in d.files :
           p.id = q.id /\ p.path = q.path /\ p.cached = q.cached /\ (p.id # f => p = q)
    BY DEF Tends
  <2>3. QED
    BY <2>1, <2>2
<1>2. ASSUME NEW q \in d.files
      PROVE  \E r \in g.files : r.id = q.id /\ r.path = q.path /\ r.cached = q.cached
  <2>1. PICK p \in e.files : p.id = q.id /\ p.path = q.path /\ p.cached = q.cached
    BY DEF Tends
  <2>2. PICK r \in g.files : r.id = p.id /\ r.path = p.path /\ r.cached = p.cached
    BY DEF Tends
  <2>3. QED
    BY <2>1, <2>2
<1>3. ASSUME NEW q \in g.queue, q.type # "RefreshTree"
      PROVE  \E o \in d.queue : q.file = o.file /\ q.type = o.type
  BY <1>3 DEF Tends
<1>4. QED
  BY <1>1, <1>2, <1>3 DEF Tends

(* A change of the row of f that leaves its id, its path and its bytes alone.  *)
LEMMA FilesTend ==
    ASSUME NEW d \in Database, NEW f, NEW F,
           \A r \in F : \E q \in d.files :
              r.id = q.id /\ r.path = q.path /\ r.cached = q.cached /\ (r.id # f => r = q),
           \A q \in d.files : \E r \in F :
              r.id = q.id /\ r.path = q.path /\ r.cached = q.cached
    PROVE  Tends(d, [d EXCEPT !.files = F], f)
<1> DEFINE e == [d EXCEPT !.files = F]
<1>1. e.files = F /\ e.queue = d.queue /\ e.copies = d.copies
  BY DEF Database
<1> HIDE DEF e
<1>2. Tends(d, e, f)
  BY <1>1 DEF Tends, Loads
<1>3. QED
  BY <1>2 DEF e

LEMMA SetSyncTends ==
    ASSUME NEW d \in Database, NEW f, NEW s
    PROVE  /\ Tends(d, SetSync(d, f, s), f)
           /\ \A r \in SetSync(d, f, s).files : r.id = f =>
                  r.sync = s /\ \E q \in d.files : q.id = f /\ r.ver = q.ver /\ r.cached = q.cached
<1> DEFINE new(r) == IF r.id = f THEN [r EXCEPT !.sync = s] ELSE r
           F == {new(r) : r \in d.files}
           e == SetSync(d, f, s)
<1>1. e = [d EXCEPT !.files = F]
  BY DEF SetSync
<1>2. e.files = F
  BY <1>1 DEF Database
<1>3. \A r \in d.files : /\ new(r).id = r.id /\ new(r).path = r.path
                         /\ new(r).cached = r.cached /\ new(r).ver = r.ver
                         /\ r.id # f => new(r) = r
                         /\ r.id = f => new(r).sync = s
  BY DEF Database, Row
<1> HIDE DEF new, e
<1>4. Tends(d, [d EXCEPT !.files = F], f)
  BY <1>3, FilesTend
<1>5. Tends(d, e, f) /\ \A r \in e.files : r.id = f =>
         r.sync = s /\ \E q \in d.files : q.id = f /\ r.ver = q.ver /\ r.cached = q.cached
  BY <1>1, <1>2, <1>3, <1>4
<1>6. QED
  BY <1>5 DEF e

LEMMA SetSyncedTends ==
    ASSUME NEW d \in Database, NEW f, NEW v
    PROVE  /\ Tends(d, SetSynced(d, f, v), f)
           /\ \A r \in SetSynced(d, f, v).files : r.id = f => r.sync = "Synced" /\ r.ver = v
<1> DEFINE new(r) == IF r.id = f THEN [r EXCEPT !.sync = "Synced", !.ver = v] ELSE r
           F == {new(r) : r \in d.files}
           e == SetSynced(d, f, v)
<1>1. e = [d EXCEPT !.files = F]
  BY DEF SetSynced
<1>2. e.files = F
  BY <1>1 DEF Database
<1>3. \A r \in d.files : /\ new(r).id = r.id /\ new(r).path = r.path
                         /\ new(r).cached = r.cached
                         /\ r.id # f => new(r) = r
                         /\ r.id = f => new(r).sync = "Synced" /\ new(r).ver = v
  BY DEF Database, Row
<1> HIDE DEF new, e
<1>4. Tends(d, [d EXCEPT !.files = F], f)
  BY <1>3, FilesTend
<1>5. Tends(d, e, f) /\ \A r \in e.files : r.id = f => r.sync = "Synced" /\ r.ver = v
  BY <1>1, <1>2, <1>3, <1>4
<1>6. QED
  BY <1>5 DEF e

LEMMA SetCachedTends ==
    ASSUME NEW d \in Database, NEW f, NEW s, \A r \in d.files : r.id = f => r.cached
    PROVE  /\ Tends(d, SetCached(d, f, s), f)
           /\ \A r \in SetCached(d, f, s).files : r.id = f =>
                  r.sync = s /\ \E q \in d.files : q.id = f /\ r.path = q.path /\ r.ver = q.ver
<1> DEFINE new(r) == IF r.id = f THEN [r EXCEPT !.sync = s, !.cached = TRUE] ELSE r
           F == {new(r) : r \in d.files}
           e == SetCached(d, f, s)
<1>1. e = [d EXCEPT !.files = F]
  BY DEF SetCached
<1>2. e.files = F
  BY <1>1 DEF Database
<1>3. \A r \in d.files : /\ new(r).id = r.id /\ new(r).path = r.path /\ new(r).ver = r.ver
                         /\ r.id # f => new(r) = r
                         /\ r.id = f => new(r).sync = s
  BY DEF Database, Row
<1>4. \A r \in d.files : new(r).cached = r.cached
  <2>1. TAKE r \in d.files
  <2>2. CASE r.id = f
    <3>1. r.cached = TRUE
      BY <2>2 DEF Database, Row
    <3>2. QED
      BY <2>2, <3>1 DEF Database, Row
  <2>3. CASE r.id # f
    BY <2>3
  <2>4. QED
    BY <2>2, <2>3
<1> HIDE DEF new, e
<1>5. Tends(d, [d EXCEPT !.files = F], f)
  <2>1. \A r \in d.files : /\ new(r).id = r.id /\ new(r).path = r.path
                           /\ new(r).cached = r.cached /\ (r.id # f => new(r) = r)
    BY <1>3, <1>4
  <2>2. \A r \in F : \E q \in d.files :
           r.id = q.id /\ r.path = q.path /\ r.cached = q.cached /\ (r.id # f => r = q)
    BY <2>1
  <2>3. \A q \in d.files : \E r \in F :
           r.id = q.id /\ r.path = q.path /\ r.cached = q.cached
    BY <2>1
  <2> HIDE DEF F
  <2>4. QED
    BY <2>2, <2>3, FilesTend
<1>6. Tends(d, e, f) /\ \A r \in e.files : r.id = f =>
         r.sync = s /\ \E q \in d.files : q.id = f /\ r.path = q.path /\ r.ver = q.ver
  BY <1>1, <1>2, <1>3, <1>5
<1>7. QED
  BY <1>6 DEF e

LEMMA DropOpTends ==
    ASSUME NEW d \in Database, NEW i, NEW f, \A o \in d.queue : o.id = i => o.file = f
    PROVE  Tends(d, DropOp(d, i), f)
<1>1. /\ DropOp(d, i).files = d.files /\ DropOp(d, i).copies = d.copies
      /\ DropOp(d, i).queue = {o \in d.queue : o.id # i}
  BY DEF DropOp, Database
<1> DEFINE e == DropOp(d, i)
<1> HIDE DEF e
<1>2. Tends(d, e, f)
  BY <1>1 DEF Tends, Loads, e
<1>3. QED
  BY <1>2 DEF e

(* What changes nothing but the status of operations, and a refresh that is    *)
(* queued.                                                                      *)
LEMMA SetStatusTends ==
    ASSUME NEW d \in Database, NEW i, NEW s, NEW f
    PROVE  LET e == SetStatus(d, i, s)
           IN  Tends(d, e, f) /\ e.files = d.files /\ Loads(d) \subseteq Loads(e)
<1> DEFINE new(o) == IF o.id = i THEN [o EXCEPT !.status = s] ELSE o
           Q == {new(o) : o \in d.queue}
           e == SetStatus(d, i, s)
<1>1. e.files = d.files /\ e.copies = d.copies /\ e.queue = Q
  BY DEF SetStatus, Database
<1>2. \A o \in d.queue : new(o).file = o.file /\ new(o).type = o.type
  BY DEF Database, Op
<1> HIDE DEF new, e
<1>3. Tends(d, e, f) /\ Loads(d) \subseteq Loads(e)
  BY <1>1, <1>2 DEF Tends, Loads
<1>4. QED
  BY <1>1, <1>3 DEF e

LEMMA UpsertTends ==
    ASSUME NEW d \in Database, NEW f, NEW from, NEW to
    PROVE  LET e == Upsert(d, f, "RefreshTree", from, to)
           IN  Tends(d, e, f) /\ e.files = d.files /\ Loads(d) \subseteq Loads(e)
<1> DEFINE e == Upsert(d, f, "RefreshTree", from, to)
<1>1. /\ e.files = d.files
      /\ \A o \in d.queue : \E q \in e.queue : q.id = o.id /\ q.file = o.file /\ q.type = o.type
      /\ \A q \in e.queue : q \in d.queue \/ Turned(d, q, f, "RefreshTree")
  BY UpsertQueue
<1>2. e.copies = d.copies
  BY DEF Upsert, Database
<1> HIDE DEF e
<1>3. Tends(d, e, f) /\ Loads(d) \subseteq Loads(e)
  BY <1>1, <1>2 DEF Tends, Turned, Loads
<1>4. QED
  BY <1>1, <1>3 DEF e

(* What the tended file must have, for the rest to stay as it was.             *)
LEMMA TendedRows ==
    ASSUME NEW d, NEW e, NEW f, Tends(d, e, f), NEW C, NEW n, RowsFit(d, C, n),
           \A r \in e.files : r.id = f => (r.sync \in Unsynced => r.cached) /\ r.ver <= n
    PROVE  RowsFit(e, C, n)
<1>1. ASSUME NEW r \in e.files
      PROVE  /\ r.cached => CachePath(r.path)
             /\ r.cached => r.id \in CopyIds(e) \/ OwnPath(r.path)
             /\ r.sync \in Unsynced => r.cached
             /\ ~r.cached => C[r.id] = NoData
             /\ r.ver <= n
  <2>1. PICK q \in d.files :
           r.id = q.id /\ r.path = q.path /\ r.cached = q.cached /\ (r.id # f => r = q)
    BY DEF Tends
  <2>2. CopyIds(e) = CopyIds(d)
    BY DEF Tends, CopyIds
  <2>3. QED
    BY <2>1, <2>2 DEF RowsFit
<1>2. ASSUME NEW q \in e.queue
      PROVE  /\ q.type \in {"RefreshTree", "Upload", "Download"}
             /\ q.type # "RefreshTree" => \E r \in e.files : r.id = q.file /\ r.cached
             /\ q.type = "Upload" => q.file \in CopyIds(e)
  <2>1. CASE q.type = "RefreshTree"
    BY <2>1
  <2>2. CASE q.type # "RefreshTree"
    <3>1. PICK o \in d.queue : q.file = o.file /\ q.type = o.type
      BY <2>2 DEF Tends
    <3>2. PICK r \in d.files : r.id = o.file /\ r.cached
      BY <2>2, <3>1 DEF RowsFit
    <3>3. PICK p \in e.files : p.id = r.id /\ p.cached = r.cached
      BY DEF Tends
    <3>4. CopyIds(e) = CopyIds(d)
      BY DEF Tends, CopyIds
    <3>5. QED
      BY <3>1, <3>2, <3>3, <3>4 DEF RowsFit
  <2>3. QED
    BY <2>1, <2>2
<1>3. QED
  BY <1>1, <1>2 DEF RowsFit

LEMMA TendedBytes ==
    ASSUME NEW d, NEW e, NEW f, Tends(d, e, f), NEW K, NEW C, BytesKnown(d, K, C),
           \A r \in e.files : r.id = f => Settles(e, r, K, C)
    PROVE  BytesKnown(e, K, C)
<1>1. CopyIds(e) = CopyIds(d)
  BY DEF Tends, CopyIds
<1>2. ASSUME NEW r \in e.files, r.id # f PROVE Settles(e, r, K, C)
  <2>1. r \in d.files
    BY <1>2 DEF Tends
  <2>2. r.id \in Loads(d) => r.id \in Loads(e)
    BY <1>2 DEF Tends
  <2>3. QED
    BY <1>1, <2>1, <2>2 DEF BytesKnown, Settles
<1>3. QED
  BY <1>2 DEF BytesKnown

(* retry_or_fail: the file is in Error.                                        *)
LEMMA RetryOrFailTends ==
    ASSUME NEW d \in Database, NEW o, \A q \in d.queue : q.id = o.id => q.file = o.file, NEW again
    PROVE  /\ Tends(d, RetryOrFail(d, o, again), o.file)
           /\ \A r \in RetryOrFail(d, o, again).files : r.id = o.file =>
                  r.sync = "Error" /\ \E q \in d.files : q.id = o.file /\ r.ver = q.ver /\ r.cached = q.cached
<1> DEFINE g == IF again THEN SetStatus(d, o.id, "Retryable") ELSE DropOp(d, o.id)
           e == SetSync(g, o.file, "Error")
<1>1. g \in Database /\ g.files = d.files /\ Tends(d, g, o.file)
  <2>1. CASE again
    <3>1. SetStatus(d, o.id, "Retryable") \in Database
      <4> DEFINE new(q) == IF q.id = o.id THEN [q EXCEPT !.status = "Retryable"] ELSE q
      <4>1. \A q \in d.queue : new(q) \in Op
        BY DEF Database, Op, OpStatus
      <4>2. {new(q) : q \in d.queue} \in SUBSET Op
        BY <4>1
      <4>3. QED
        BY <4>2 DEF SetStatus, Database
    <3>2. QED
      BY <2>1, <3>1, SetStatusTends
  <2>2. CASE ~again
    BY <2>2, DropOpTends DEF DropOp, Database
  <2>3. QED
    BY <2>1, <2>2
<1> HIDE DEF g
<1>2. /\ Tends(g, e, o.file)
      /\ \A r \in e.files : r.id = o.file =>
            r.sync = "Error" /\ \E q \in g.files : q.id = o.file /\ r.ver = q.ver /\ r.cached = q.cached
  BY <1>1, SetSyncTends
<1>3. Tends(d, e, o.file)
  BY <1>1, <1>2, TendsOn
<1>4. e = RetryOrFail(d, o, again)
  BY DEF RetryOrFail, g
<1>5. QED
  BY <1>1, <1>2, <1>3, <1>4
-----------------------------------------------------------------------------
(* apply_conflict_locked for a cached file: no other cached row moves.         *)
LEMMA AsideCached ==
    ASSUME CopiesApart, NEW d, Sound(d), Tidy(d), NEW C, NEW n, RowsFit(d, C, n),
           NEW q \in d.files, q.cached, NEW cp \in NextConflictPaths(d, q.path),
           Clash(d, q.path, cp) = {}
    PROVE  LET e == ApplyConflict(d, q.id, q.path, cp)
           IN  /\ \A r \in e.files :
                     \/ r.id = q.id /\ r.path = cp /\ r.cached /\ r.ver = NoVersion
                     \/ \E o \in d.files : /\ o.id # q.id /\ r.id = o.id /\ r.cached = o.cached
                                           /\ r.sync = o.sync /\ r.ver = o.ver
                                           /\ o.cached => r = o
               /\ \A o \in d.files : o.cached /\ o.id # q.id => o \in e.files
               /\ \E r \in e.files : r.id = q.id /\ r.cached
               /\ e.copies = d.copies \cup {<<q.id, cp>>}
<1> DEFINE f == q.id
           p == q.path
           move(r) == /\ r \in Subtree(d, p)
                      /\ \A c \in Clash(d, p, cp) : Len(r.path) < Len(c.path)
           put(r) == IF move(r) THEN [r EXCEPT !.path = Target(r.path, p, cp)] ELSE r
           new(r) == IF r.id = f THEN [r EXCEPT !.sync = "QueuedUpload", !.ver = NoVersion] ELSE r
           moved == RenameSubtree(d, p, cp)
           aside == ForgetVersion(moved, f)
           h == UpsertAlone(aside, f, "Upload", cp, RootPath)
           e == ApplyConflict(d, f, p, cp)
<1>1. /\ p \in Path /\ f \in FileId /\ cp \in Path /\ p # RootPath /\ CachePath(p) /\ CachePath(cp)
      /\ d \in Database /\ \A r \in d.files : r \in Row /\ r.path \in Path
  <2>1. p \in Path /\ f \in FileId /\ d \in Database /\ \A r \in d.files : r \in Row /\ r.path \in Path
    BY DEF Sound, Database, Row
  <2>2. CachePath(p) /\ p # RootPath
    BY NotRoot DEF RowsFit
  <2>3. QED
    BY <2>1, <2>2, CopyPath, NextConflictPathsType
<1>2. ASSUME NEW o \in d.files, o.cached, o.id # f PROVE o \notin Subtree(d, p)
  <2>1. o.path # p /\ CachePath(o.path) /\ o.path \in Path /\ Len(p) \in Nat /\ Len(o.path) \in Nat
    BY <1>1, <1>2 DEF Tidy, PathsOnce, RowsFit, Path
  <2>2. ~IsPrefix(p, o.path)
    BY <1>1, <2>1, CachedApart
  <2>3. SUFFICES ASSUME Below(p, o.path) PROVE FALSE
    BY <2>1 DEF Subtree
  <2>4. Target(o.path, p, cp) = cp /\ Target(p, p, cp) = cp
    BY <1>1, <2>2, SelfMoved DEF Target
  <2>5. o \in Subtree(d, p) /\ q \in Subtree(d, p) /\ q # o /\ Len(p) < Len(o.path)
    BY <1>2, <2>3 DEF Subtree, Below
  <2>6. o \in Clash(d, p, cp)
    BY <2>1, <2>4, <2>5 DEF Clash
  <2>7. QED
    BY <2>6
<1>3. moved.files = {put(r) : r \in d.files} /\ moved.copies = d.copies /\ moved \in Database
  <2>1. moved \in Database
    BY <1>1, RenameSubtreeFollows DEF Follows, Sound
  <2>2. QED
    BY <1>1, <2>1 DEF RenameSubtree, MoveRows, Reached, Database
<1>4. \A r \in d.files : /\ put(r).id = r.id /\ put(r).cached = r.cached /\ put(r).sync = r.sync
                         /\ put(r).ver = r.ver /\ put(r).kind = r.kind
                         /\ r.cached /\ r.id # f => put(r) = r
  <2>1. \A r \in d.files : r.cached /\ r.id # f => ~move(r)
    BY <1>2
  <2> HIDE DEF move
  <2>2. QED
    BY <1>1, <2>1 DEF Row
<1>5. put(q).path = cp
  <2>1. q \in Subtree(d, p) /\ Target(p, p, cp) = cp
    BY <1>1, SelfMoved DEF Subtree
  <2>2. QED
    BY <1>1, <2>1 DEF Row
<1> HIDE DEF put, move, moved
<1>6. /\ aside.files = {new(r) : r \in moved.files} /\ aside.copies = moved.copies
      /\ Sound(aside)
  <2>1. Sound(aside)
    BY <1>1, AsideFollows DEF moved, Follows
  <2>2. QED
    BY <1>3, <2>1 DEF ForgetVersion, Database
<1>7. \A r \in moved.files : /\ new(r).id = r.id /\ new(r).path = r.path /\ new(r).cached = r.cached
                             /\ r.id # f => new(r) = r
                             /\ r.id = f => new(r).ver = NoVersion
  BY <1>3 DEF Database, Row
<1> HIDE DEF new, aside
<1>8. h.files = aside.files /\ h.copies = aside.copies /\ h \in Database
  <2>1. aside \in Database
    BY <1>6 DEF Sound
  <2>2. DropOpsOf(aside, f).files = aside.files /\ DropOpsOf(aside, f).copies = aside.copies
    BY <2>1 DEF DropOpsOf, Database
  <2>3. h.files = DropOpsOf(aside, f).files /\ h.copies = DropOpsOf(aside, f).copies
    <3>1. DropOpsOf(aside, f) \in Database
      BY <2>1 DEF DropOpsOf, Database
    <3>2. QED
      BY <3>1 DEF UpsertAlone, Upsert, Database
  <2>4. h \in Database
    BY <1>1, <1>6, UpsertAloneFollows, RootTypes DEF Follows, Sound, OpType
  <2>5. QED
    BY <2>2, <2>3, <2>4
<1> HIDE DEF h
<1>9. e.files = aside.files /\ e.copies = d.copies \cup {<<f, cp>>}
  <2>1. e = [h EXCEPT !.copies = @ \cup {<<f, cp>>}]
    BY DEF ApplyConflict, h, aside, moved
  <2> HIDE DEF e
  <2>2. e.files = h.files /\ e.copies = h.copies \cup {<<f, cp>>}
    BY <1>8, <2>1 DEF Database
  <2>3. QED
    BY <1>3, <1>6, <1>8, <2>2
<1> HIDE DEF e
<1>10. ASSUME NEW r \in e.files
       PROVE  \/ r.id = f /\ r.path = cp /\ r.cached /\ r.ver = NoVersion
              \/ \E o \in d.files : /\ o.id # f /\ r.id = o.id /\ r.cached = o.cached
                                    /\ r.sync = o.sync /\ r.ver = o.ver
                                    /\ o.cached => r = o
  <2>1. PICK o \in d.files : r = new(put(o))
    BY <1>3, <1>6, <1>9
  <2>2. put(o) \in moved.files
    BY <1>3
  <2>3. CASE o.id = f
    <3>1. o = q
      BY <2>3 DEF Tidy, IdsOnce
    <3>2. QED
      BY <1>4, <1>5, <1>7, <2>1, <2>2, <2>3, <3>1
  <2>4. CASE o.id # f
    BY <1>4, <1>7, <2>1, <2>2, <2>4
  <2>5. QED
    BY <2>3, <2>4
<1>11. ASSUME NEW o \in d.files, o.cached, o.id # f PROVE o \in e.files
  <2>1. put(o) = o /\ o \in moved.files
    BY <1>3, <1>4, <1>11
  <2>2. QED
    BY <1>6, <1>7, <1>9, <1>11, <2>1
<1>12. \E r \in e.files : r.id = f /\ r.cached
  <2>1. put(q) \in moved.files /\ new(put(q)) \in e.files
    BY <1>3, <1>6, <1>9
  <2>2. QED
    BY <1>4, <1>7, <2>1
<1>13. QED
  BY <1>9, <1>10, <1>11, <1>12 DEF e

(* What is set aside is a copy; the rest is as it was.                         *)
LEMMA AsideKnown ==
    ASSUME CopiesApart, NEW d, Sound(d), Tidy(d), NEW K, NEW C, NEW n \in Nat,
           RowsFit(d, C, n), BytesKnown(d, K, C),
           NEW q \in d.files, q.cached, NEW cp \in NextConflictPaths(d, q.path),
           Clash(d, q.path, cp) = {}
    PROVE  LET e == ApplyConflict(d, q.id, q.path, cp)
           IN  /\ RowsFit(e, C, n) /\ BytesKnown(e, K, C)
               /\ CopyIds(e) = CopyIds(d) \cup {q.id}
               /\ Loads(d) \ {q.id} \subseteq Loads(e)
               /\ \A r \in e.files : r.cached => r.path # q.path
               /\ \A r \in e.files : r.cached /\ r.id # q.id => r \in d.files
<1> DEFINE f == q.id
           p == q.path
           e == ApplyConflict(d, f, p, cp)
<1>1. /\ \A r \in e.files :
            \/ r.id = f /\ r.path = cp /\ r.cached /\ r.ver = NoVersion
            \/ \E o \in d.files : /\ o.id # f /\ r.id = o.id /\ r.cached = o.cached
                                  /\ r.sync = o.sync /\ r.ver = o.ver
                                  /\ o.cached => r = o
      /\ \A o \in d.files : o.cached /\ o.id # f => o \in e.files
      /\ \E r \in e.files : r.id = f /\ r.cached
      /\ e.copies = d.copies \cup {<<f, cp>>}
  BY AsideCached
<1>2. p \in Path /\ p # RootPath /\ CachePath(p) /\ cp \in Path /\ cp # p /\ CachePath(cp) /\ f \in FileId
  <2>1. p \in Path /\ f \in FileId /\ CachePath(p) /\ p # RootPath
    BY NotRoot DEF Sound, Database, Row, RowsFit
  <2>2. QED
    BY <2>1, CopyBeside, CopyPath
<1>3. /\ \A o \in d.queue : o.file # f => \E x \in e.queue :
             x.id = o.id /\ x.file = o.file /\ x.type = o.type
      /\ \A x \in e.queue : \/ x \in d.queue /\ x.file # f
                            \/ x.file = f /\ x.type = "Upload"
  <2>1. HasRow(e, f)
    BY <1>1 DEF HasRow, RowOf
  <2>2. QED
    BY <1>2, <2>1, AsideQueue
<1> HIDE DEF e
<1>4. CopyIds(e) = CopyIds(d) \cup {f}
  <2>1. \A c \in e.copies : c[1] \in CopyIds(d) \cup {f}
    BY <1>1 DEF CopyIds
  <2>2. \A c \in d.copies : c[1] \in CopyIds(e)
    BY <1>1 DEF CopyIds
  <2>3. <<f, cp>>[1] \in CopyIds(e)
    BY <1>1 DEF CopyIds
  <2>4. QED
    BY <2>1, <2>2, <2>3 DEF CopyIds
<1>5. Loads(d) \ {f} \subseteq Loads(e)
  BY <1>3 DEF Loads
<1>6. ASSUME NEW r \in e.files, r.cached PROVE r.path # p /\ (r.id # f => r \in d.files)
  <2>1. CASE r.id = f /\ r.path = cp
    BY <1>2, <2>1
  <2>2. CASE r \in d.files /\ r.id # f
    BY <2>2 DEF Tidy, PathsOnce
  <2>3. QED
    BY <1>1, <1>6, <2>1, <2>2
<1>7. ASSUME NEW r \in e.files
      PROVE  /\ r.cached => CachePath(r.path)
             /\ r.cached => r.id \in CopyIds(e) \/ OwnPath(r.path)
             /\ r.sync \in Unsynced => r.cached
             /\ ~r.cached => C[r.id] = NoData
             /\ r.ver <= n
  <2>1. CASE r.id = f /\ r.path = cp /\ r.cached /\ r.ver = NoVersion
    BY <1>2, <1>4, <2>1 DEF NoVersion
  <2>2. ASSUME NEW o \in d.files, r.id = o.id, r.cached = o.cached, r.sync = o.sync, r.ver = o.ver,
               o.cached => r = o
        PROVE  /\ r.cached => CachePath(r.path)
               /\ r.cached => r.id \in CopyIds(e) \/ OwnPath(r.path)
               /\ r.sync \in Unsynced => r.cached
               /\ ~r.cached => C[r.id] = NoData
               /\ r.ver <= n
    BY <1>4, <2>2 DEF RowsFit
  <2>3. QED
    BY <1>1, <2>1, <2>2
<1>8. ASSUME NEW x \in e.queue
      PROVE  /\ x.type \in {"RefreshTree", "Upload", "Download"}
             /\ x.type # "RefreshTree" => \E r \in e.files : r.id = x.file /\ r.cached
             /\ x.type = "Upload" => x.file \in CopyIds(e)
  <2>1. CASE x.file = f /\ x.type = "Upload"
    BY <1>1, <1>4, <2>1
  <2>2. CASE x \in d.queue /\ x.file # f
    BY <1>1, <1>4, <2>2 DEF RowsFit
  <2>3. QED
    BY <1>3, <2>1, <2>2
<1>9. RowsFit(e, C, n)
  BY <1>7, <1>8 DEF RowsFit
<1>10. BytesKnown(e, K, C)
  <2>1. SUFFICES ASSUME NEW r \in e.files, r.id # f PROVE Settles(e, r, K, C)
    BY <1>4 DEF BytesKnown, Settles
  <2>2. CASE r.cached
    BY <1>4, <1>5, <1>6, <2>1, <2>2 DEF BytesKnown, Settles
  <2>3. CASE ~r.cached
    BY <1>7, <2>3 DEF Settles, BytesFit
  <2>4. QED
    BY <2>2, <2>3
<1>11. QED
  BY <1>4, <1>5, <1>6, <1>9, <1>10 DEF e

(* What ensure_remote_row does to the cached rows: the one at the path of the  *)
(* resource gets its version, the others stay.                                 *)
LEMMA EnsureCached ==
    ASSUME NEW d \in Database, NEW res \in Resource, NEW s \in {"Synced", "Downloading"}, NEW id,
           NEW C, NEW n, RowsFit(d, C, n), res.ver <= n, RowAt(d, res.path) = {} => C[id] = NoData
    PROVE  LET e == EnsureRemoteRow(d, res, s, id)
           IN  /\ RowsFit(e, C, n)
               /\ e.queue = d.queue /\ e.copies = d.copies
               /\ \A r \in e.files : r.cached =>
                     \/ r \in d.files /\ r.path # res.path
                     \/ \E q \in d.files : /\ q.cached /\ r.id = q.id
                                           /\ r.path = res.path /\ q.path = res.path
                                           /\ r.ver = res.ver
                                           /\ q.sync = "Error" => r.sync = "Error"
               /\ \A q \in d.files : \E r \in e.files :
                     r.id = q.id /\ r.path = q.path /\ r.cached = q.cached
<1> DEFINE e == EnsureRemoteRow(d, res, s, id)
<1>1. CASE RowAt(d, res.path) = {}
  <2> DEFINE row == [id |-> id, path |-> res.path, kind |-> res.kind,
                     sync |-> s, ver |-> res.ver, cached |-> FALSE]
  <2>1. e.files = d.files \cup {row} /\ e.copies = d.copies /\ e.queue = d.queue
    BY <1>1 DEF EnsureRemoteRow, InsertRow, Database
  <2>2. row.id = id /\ row.path = res.path /\ row.sync = s /\ row.ver = res.ver /\ row.cached = FALSE
    OBVIOUS
  <2>3. \A r \in d.files : r.path # res.path
    BY <1>1 DEF RowAt
  <2> HIDE DEF e, row
  <2>4. RowsFit(e, C, n)
    <3>1. s \notin Unsynced
      BY DEF Unsynced
    <3>2. ASSUME NEW r \in e.files
          PROVE  /\ r.cached => CachePath(r.path)
                 /\ r.cached => r.id \in CopyIds(d) \/ OwnPath(r.path)
                 /\ r.sync \in Unsynced => r.cached
                 /\ ~r.cached => C[r.id] = NoData
                 /\ r.ver <= n
      BY <1>1, <2>1, <2>2, <3>1 DEF RowsFit
    <3>3. \A o \in e.queue : o \in d.queue /\ (\E r \in d.files : r.id = o.file /\ r.cached) =>
             \E r \in e.files : r.id = o.file /\ r.cached
      BY <2>1
    <3>4. CopyIds(e) = CopyIds(d)
      BY <2>1 DEF CopyIds
    <3>5. QED
      BY <2>1, <3>2, <3>3, <3>4 DEF RowsFit
  <2>5. QED
    BY <2>1, <2>2, <2>3, <2>4 DEF e
<1>2. CASE RowAt(d, res.path) # {}
  <2> DEFINE new(r) == IF r.path = res.path
                       THEN [r EXCEPT !.kind = res.kind, !.ver = res.ver,
                                      !.sync = IF r.sync \in Protected THEN r.sync ELSE s]
                       ELSE r
  <2>1. e.files = {new(r) : r \in d.files} /\ e.copies = d.copies /\ e.queue = d.queue
    BY <1>2 DEF EnsureRemoteRow, Database
  <2>2. \A r \in d.files : /\ new(r).id = r.id /\ new(r).path = r.path /\ new(r).cached = r.cached
                           /\ r.path # res.path => new(r) = r
                           /\ r.path = res.path => new(r).ver = res.ver
                           /\ new(r).sync \in Unsynced => new(r).sync = r.sync
                           /\ r.sync = "Error" => new(r).sync = "Error"
    <3>1. SUFFICES ASSUME NEW r \in d.files, r.path = res.path
                   PROVE  /\ new(r).id = r.id /\ new(r).path = r.path /\ new(r).cached = r.cached
                          /\ new(r).ver = res.ver
                          /\ new(r).sync \in Unsynced => new(r).sync = r.sync
                          /\ r.sync = "Error" => new(r).sync = "Error"
      BY DEF Database, Row
    <3>2. new(r).sync = IF r.sync \in Protected THEN r.sync ELSE s
      BY <3>1 DEF Database, Row
    <3>3. /\ new(r).id = r.id /\ new(r).path = r.path /\ new(r).cached = r.cached
          /\ new(r).ver = res.ver
      BY <3>1 DEF Database, Row
    <3> HIDE DEF new
    <3>4. QED
      BY <3>2, <3>3 DEF Protected, Unsynced
  <2> HIDE DEF e, new
  <2>3. RowsFit(e, C, n)
    <3>1. ASSUME NEW r \in d.files
          PROVE  /\ new(r).cached => CachePath(new(r).path)
                 /\ new(r).cached => new(r).id \in CopyIds(d) \/ OwnPath(new(r).path)
                 /\ new(r).sync \in Unsynced => new(r).cached
                 /\ ~new(r).cached => C[new(r).id] = NoData
                 /\ new(r).ver <= n
      BY <2>2 DEF RowsFit
    <3>2. \A r \in d.files : \E x \in e.files : x.id = r.id /\ x.cached = r.cached
      BY <2>1, <2>2
    <3>3. CopyIds(e) = CopyIds(d)
      BY <2>1 DEF CopyIds
    <3>4. ASSUME NEW o \in e.queue
          PROVE  /\ o.type \in {"RefreshTree", "Upload", "Download"}
                 /\ o.type # "RefreshTree" => \E r \in e.files : r.id = o.file /\ r.cached
                 /\ o.type = "Upload" => o.file \in CopyIds(e)
      <4>1. o \in d.queue
        BY <2>1
      <4>2. o.type # "RefreshTree" => \E r \in d.files : r.id = o.file /\ r.cached
        BY <4>1 DEF RowsFit
      <4>3. QED
        BY <3>2, <3>3, <4>1, <4>2 DEF RowsFit
    <3>5. QED
      BY <2>1, <3>1, <3>3, <3>4 DEF RowsFit
  <2>4. QED
    BY <2>1, <2>2, <2>3 DEF e
<1>3. QED
  BY <1>1, <1>2

-----------------------------------------------------------------------------
(* The transaction, for the snapshot L of the rows: a cached row that is not a *)
(* copy is where it was, at the version it had or with a download to come; a   *)
(* cached row that the loops have not come to is still there.                  *)
InPlace(d, L) ==
    \A r \in d.files : r.cached /\ r.id \notin CopyIds(d) =>
        \E l \in L : /\ l.id = r.id /\ l.path = r.path /\ l.cached
                     /\ l.ver = r.ver \/ r.id \in Loads(d)

Waiting(d, L, todo, gone) ==
    \A l \in L : l.cached /\ (l \in gone \/ Exists(todo, l.path)) =>
        \E r \in d.files : r.id = l.id /\ r.path = l.path /\ r.cached

Applies(d, L, todo, gone, K, C, n) ==
    RowsFit(d, C, n) /\ BytesKnown(d, K, C) /\ InPlace(d, L) /\ Waiting(d, L, todo, gone)

(* A row that is there as it was goes on waiting.                              *)
LEMMA WaitsOn ==
    ASSUME NEW d, NEW e, NEW L, NEW todo, NEW gone, NEW T \in SUBSET todo, NEW G \in SUBSET gone,
           Waiting(d, L, todo, gone),
           \A l \in L : l.cached /\ (l \in G \/ Exists(T, l.path)) =>
              \A q \in d.files : q.id = l.id /\ q.path = l.path /\ q.cached =>
                 \E r \in e.files : r.id = q.id /\ r.path = q.path /\ r.cached
    PROVE  Waiting(e, L, T, G)
<1>1. \A p : Exists(T, p) => Exists(todo, p)
  BY DEF Exists, Meta
<1>2. QED
  BY <1>1 DEF Waiting

LEMMA LoadQueued ==
    ASSUME NEW d \in Database, NEW C, NEW n, RowsFit(d, C, n), NEW f,
           \E r \in d.files : r.id = f /\ r.cached, NEW from, NEW to
    PROVE  LET e == Upsert(d, f, "Download", from, to)
           IN  /\ RowsFit(e, C, n) /\ e.files = d.files /\ CopyIds(e) = CopyIds(d)
               /\ Loads(d) \cup {f} \subseteq Loads(e)
<1> DEFINE e == Upsert(d, f, "Download", from, to)
<1>1. /\ e.files = d.files
      /\ \A o \in d.queue : \E q \in e.queue : q.id = o.id /\ q.file = o.file /\ q.type = o.type
      /\ \A q \in e.queue : q \in d.queue \/ Turned(d, q, f, "Download")
      /\ \E q \in e.queue : Turned(d, q, f, "Download")
  <2>1. HasRow(d, f)
    BY DEF HasRow, RowOf
  <2>2. QED
    BY <2>1, UpsertQueue
<1>2. CopyIds(e) = CopyIds(d)
  BY DEF Upsert, Database, CopyIds
<1> HIDE DEF e
<1>3. Loads(d) \cup {f} \subseteq Loads(e)
  BY <1>1 DEF Loads, Turned
<1>4. RowsFit(e, C, n)
  BY <1>1, <1>2 DEF RowsFit, Turned
<1>5. QED
  BY <1>1, <1>2, <1>3, <1>4 DEF e

(* The second and the third alternative of the first loop.                     *)
LEMMA PlainApplies ==
    ASSUME NEW d \in Database, NEW L, NEW todo, NEW gone, NEW K, NEW C, NEW n,
           Applies(d, L, todo, gone, K, C, n),
           NEW res \in Resource, res.ver <= n, OwnPath(res.path) => res.kind = "File",
           \A l \in L : l.path = res.path /\ l.ver # res.ver /\ l.cached => res.kind # "File",
           NEW id, RowAt(d, res.path) = {} => C[id] = NoData
    PROVE  Applies(EnsureRemoteRow(d, res, "Synced", id), L, todo \ {res}, gone, K, C, n)
<1> DEFINE e == EnsureRemoteRow(d, res, "Synced", id)
<1>1. RowsFit(d, C, n) /\ BytesKnown(d, K, C) /\ InPlace(d, L) /\ Waiting(d, L, todo, gone)
  BY DEF Applies
<1>2. /\ RowsFit(e, C, n)
      /\ e.queue = d.queue /\ e.copies = d.copies
      /\ \A r \in e.files : r.cached =>
            \/ r \in d.files /\ r.path # res.path
            \/ \E q \in d.files : /\ q.cached /\ r.id = q.id
                                  /\ r.path = res.path /\ q.path = res.path
                                  /\ r.ver = res.ver
                                  /\ q.sync = "Error" => r.sync = "Error"
      /\ \A q \in d.files : \E r \in e.files :
            r.id = q.id /\ r.path = q.path /\ r.cached = q.cached
  BY <1>1, EnsureCached
<1> HIDE DEF e
<1>3. Loads(e) = Loads(d) /\ CopyIds(e) = CopyIds(d)
  BY <1>2 DEF Loads, CopyIds
<1>4. ASSUME NEW q \in d.files, q.cached, q.path = res.path,
             q.id \notin CopyIds(d), q.id \notin Loads(d)
      PROVE  q.ver = res.ver
  <2>1. PICK l \in L : l.id = q.id /\ l.path = q.path /\ l.cached /\ l.ver = q.ver
    BY <1>1, <1>4 DEF InPlace
  <2>2. res.kind = "File"
    BY <1>1, <1>4 DEF RowsFit
  <2>3. QED
    BY <1>4, <2>1, <2>2
<1>5. ASSUME NEW r \in e.files PROVE Settles(e, r, K, C)
  <2>1. CASE ~r.cached
    BY <1>2, <2>1 DEF RowsFit, Settles, BytesFit
  <2>2. CASE r \in d.files
    BY <1>1, <1>3, <2>2 DEF BytesKnown, Settles
  <2>3. ASSUME NEW q \in d.files, q.cached, r.id = q.id, r.path = res.path, q.path = res.path,
               r.ver = res.ver, q.sync = "Error" => r.sync = "Error"
        PROVE  Settles(e, r, K, C)
    <3>1. CASE q.id \in CopyIds(d) \/ q.id \in Loads(d)
      BY <1>3, <2>3, <3>1 DEF Settles
    <3>2. CASE q.id \notin CopyIds(d) /\ q.id \notin Loads(d)
      <4>1. r.ver = q.ver
        BY <1>4, <2>3, <3>2
      <4>2. q.sync = "Error" \/ BytesFit(q, K, C)
        BY <1>1, <3>2 DEF BytesKnown, Settles
      <4>3. QED
        BY <2>3, <4>1, <4>2 DEF Settles, BytesFit
    <3>3. QED
      BY <3>1, <3>2
  <2>4. QED
    BY <1>2, <2>1, <2>2, <2>3
<1>6. ASSUME NEW r \in e.files, r.cached, r.id \notin CopyIds(e)
      PROVE  \E l \in L : /\ l.id = r.id /\ l.path = r.path /\ l.cached
                          /\ l.ver = r.ver \/ r.id \in Loads(e)
  <2>1. CASE r \in d.files
    BY <1>1, <1>3, <1>6, <2>1 DEF InPlace
  <2>2. ASSUME NEW q \in d.files, q.cached, r.id = q.id, r.path = res.path, q.path = res.path,
               r.ver = res.ver
        PROVE  \E l \in L : /\ l.id = r.id /\ l.path = r.path /\ l.cached
                            /\ l.ver = r.ver \/ r.id \in Loads(e)
    <3>1. PICK l \in L : /\ l.id = q.id /\ l.path = q.path /\ l.cached
                         /\ l.ver = q.ver \/ q.id \in Loads(d)
      BY <1>1, <1>3, <1>6, <2>2 DEF InPlace
    <3>2. q.id \in Loads(d) \/ q.ver = res.ver
      BY <1>3, <1>4, <1>6, <2>2
    <3>3. QED
      BY <1>3, <2>2, <3>1, <3>2
  <2>3. QED
    BY <1>2, <1>6, <2>1, <2>2
<1>7. Waiting(e, L, todo \ {res}, gone)
  BY <1>1, <1>2, WaitsOn
<1>8. Applies(e, L, todo \ {res}, gone, K, C, n)
  BY <1>2, <1>5, <1>6, <1>7 DEF Applies, BytesKnown, InPlace
<1>9. QED
  BY <1>8 DEF e

LEMMA OutdatedApplies ==
    ASSUME NEW d \in Database, Tidy(d), NEW L, NEW todo, NEW gone, NEW K, NEW C, NEW n,
           Applies(d, L, todo, gone, K, C, n),
           NEW res \in todo, res \in Resource, res.ver <= n,
           NEW l \in L, l.path = res.path, l.cached, NEW id
    PROVE  LET merged == EnsureRemoteRow(d, res, "Downloading", id)
               f == The(RowAt(merged, res.path)).id
           IN  Applies(Upsert(merged, f, "Download", res.path, RootPath),
                       L, todo \ {res}, gone, K, C, n)
<1> DEFINE m == EnsureRemoteRow(d, res, "Downloading", id)
           f == The(RowAt(m, res.path)).id
           e == Upsert(m, f, "Download", res.path, RootPath)
<1>1. RowsFit(d, C, n) /\ BytesKnown(d, K, C) /\ InPlace(d, L) /\ Waiting(d, L, todo, gone)
  BY DEF Applies
<1>2. PICK row \in d.files : row.id = l.id /\ row.path = l.path /\ row.cached
  <2>1. Exists(todo, l.path)
    BY DEF Exists, Meta
  <2>2. QED
    BY <1>1, <2>1 DEF Waiting
<1>3. /\ RowsFit(m, C, n)
      /\ m.queue = d.queue /\ m.copies = d.copies
      /\ \A r \in m.files : r.cached =>
            \/ r \in d.files /\ r.path # res.path
            \/ \E q \in d.files : /\ q.cached /\ r.id = q.id
                                  /\ r.path = res.path /\ q.path = res.path
      /\ \A q \in d.files : \E r \in m.files :
            r.id = q.id /\ r.path = q.path /\ r.cached = q.cached
  <2>1. RowAt(d, res.path) # {}
    BY <1>2 DEF RowAt
  <2>2. "Downloading" \in {"Synced", "Downloading"} /\ (RowAt(d, res.path) = {} => C[id] = NoData)
    BY <2>1
  <2> HIDE DEF m
  <2>3. /\ RowsFit(m, C, n)
        /\ m.queue = d.queue /\ m.copies = d.copies
        /\ \A r \in m.files : r.cached =>
              \/ r \in d.files /\ r.path # res.path
              \/ \E q \in d.files : /\ q.cached /\ r.id = q.id
                                    /\ r.path = res.path /\ q.path = res.path
                                    /\ r.ver = res.ver
                                    /\ q.sync = "Error" => r.sync = "Error"
        /\ \A q \in d.files : \E r \in m.files :
              r.id = q.id /\ r.path = q.path /\ r.cached = q.cached
    BY <1>1, <2>2, EnsureCached DEF m
  <2>4. QED
    BY <2>3
<1>4. m \in Database /\ Tidy(m)
  <2>1. RowAt(d, res.path) # {}
    BY <1>2 DEF RowAt
  <2>2. Kept(d, m, {})
    BY <2>1, EnsureRemoteRowKept
  <2>3. m \in Database
    <3> DEFINE new(r) == IF r.path = res.path
                         THEN [r EXCEPT !.kind = res.kind, !.ver = res.ver,
                                        !.sync = IF r.sync \in Protected THEN r.sync ELSE "Downloading"]
                         ELSE r
    <3>1. m = [d EXCEPT !.files = {new(r) : r \in d.files}]
      BY <2>1 DEF EnsureRemoteRow
    <3>2. \A r \in d.files : new(r) \in Row
      <4>1. \A r \in d.files : r \in Row
        BY DEF Database
      <4>2. res.kind \in Kind /\ res.ver \in Nat /\ "Downloading" \in SyncState
        BY DEF Resource, SyncState
      <4>3. QED
        BY <4>1, <4>2 DEF Row
    <3>3. {new(r) : r \in d.files} \in SUBSET Row
      BY <3>2
    <3> HIDE DEF new
    <3>4. QED
      BY <3>1, <3>3 DEF Database
  <2>4. QED
    BY <2>2, <2>3 DEF Kept
<1> HIDE DEF m
<1>5. PICK x \in m.files : x.id = l.id /\ x.path = res.path /\ x.cached
  BY <1>2, <1>3
<1>6. f = l.id
  <2>1. RowAt(m, res.path) = {x}
    BY <1>4, <1>5 DEF RowAt, Tidy, PathsOnce
  <2>2. QED
    BY <1>5, <2>1 DEF The
<1> HIDE DEF f
<1>7. /\ RowsFit(e, C, n) /\ e.files = m.files /\ CopyIds(e) = CopyIds(m)
      /\ Loads(m) \cup {f} \subseteq Loads(e)
  BY <1>3, <1>4, <1>5, <1>6, LoadQueued
<1> HIDE DEF e
<1>8. CopyIds(e) = CopyIds(d) /\ Loads(d) \cup {f} \subseteq Loads(e)
  BY <1>3, <1>7 DEF CopyIds, Loads
<1>9. ASSUME NEW r \in e.files, r.cached, r.id # f PROVE r \in d.files
  <2>1. r.path # res.path
    BY <1>4, <1>5, <1>6, <1>7, <1>9 DEF Tidy, PathsOnce
  <2>2. QED
    BY <1>3, <1>7, <1>9, <2>1
<1>10. ASSUME NEW r \in e.files PROVE Settles(e, r, K, C)
  <2>1. CASE ~r.cached
    BY <1>7, <2>1 DEF RowsFit, Settles, BytesFit
  <2>2. CASE r.id = f
    BY <1>8, <2>2 DEF Settles
  <2>3. CASE r.cached /\ r.id # f
    BY <1>1, <1>8, <1>9, <2>3 DEF BytesKnown, Settles
  <2>4. QED
    BY <2>1, <2>2, <2>3
<1>11. ASSUME NEW r \in e.files, r.cached, r.id \notin CopyIds(e)
       PROVE  \E k \in L : /\ k.id = r.id /\ k.path = r.path /\ k.cached
                           /\ k.ver = r.ver \/ r.id \in Loads(e)
  <2>1. CASE r.id = f
    <3>1. r = x
      BY <1>4, <1>5, <1>6, <1>7, <2>1 DEF Tidy, IdsOnce
    <3>2. QED
      BY <1>5, <1>6, <1>8, <2>1, <3>1
  <2>2. CASE r.id # f
    BY <1>1, <1>8, <1>9, <1>11, <2>2 DEF InPlace
  <2>3. QED
    BY <2>1, <2>2
<1>12. Waiting(e, L, todo \ {res}, gone)
  BY <1>1, <1>3, <1>7, WaitsOn
<1>13. Applies(e, L, todo \ {res}, gone, K, C, n)
  BY <1>7, <1>10, <1>11, <1>12 DEF Applies, BytesKnown, InPlace
<1>14. QED
  BY <1>13 DEF e, f, m

(* A local file that steps aside, for either loop.                             *)
LEMMA AsideApplies ==
    ASSUME CopiesApart, NEW d, Sound(d), Tidy(d), NEW L, NEW todo, NEW gone, NEW K, NEW C,
           NEW n \in Nat, Applies(d, L, todo, gone, K, C, n),
           \A r, q \in L : r.id = q.id => r = q,
           NEW l \in L, l.cached, l \in gone \/ Exists(todo, l.path),
           NEW cp \in NextConflictPaths(d, l.path), ~ConflictFails(d, l.id, l.path, cp)
    PROVE  LET e == ApplyConflict(d, l.id, l.path, cp)
           IN  /\ \A T \in SUBSET todo, G \in SUBSET gone :
                     l \notin G /\ ~Exists(T, l.path) => Applies(e, L, T, G, K, C, n)
               /\ \A r \in e.files : r.cached => r.path # l.path
<1> DEFINE f == l.id
           e == ApplyConflict(d, f, l.path, cp)
<1>1. RowsFit(d, C, n) /\ BytesKnown(d, K, C) /\ InPlace(d, L) /\ Waiting(d, L, todo, gone)
  BY DEF Applies
<1>2. PICK q \in d.files : q.id = f /\ q.path = l.path /\ q.cached
  BY <1>1 DEF Waiting
<1>3. Clash(d, q.path, cp) = {} /\ cp \in NextConflictPaths(d, q.path)
  BY <1>2 DEF ConflictFails
<1>4. e = ApplyConflict(d, q.id, q.path, cp)
  BY <1>2
<1> HIDE DEF e
<1>5. /\ RowsFit(e, C, n) /\ BytesKnown(e, K, C)
      /\ CopyIds(e) = CopyIds(d) \cup {q.id}
      /\ Loads(d) \ {q.id} \subseteq Loads(e)
      /\ \A r \in e.files : r.cached => r.path # q.path
      /\ \A r \in e.files : r.cached /\ r.id # q.id => r \in d.files
  BY <1>1, <1>2, <1>3, <1>4, AsideKnown
<1>6. \A o \in d.files : o.cached /\ o.id # q.id => o \in e.files
  BY <1>1, <1>2, <1>3, <1>4, AsideCached
<1>7. InPlace(e, L)
  <2>1. SUFFICES ASSUME NEW r \in e.files, r.cached, r.id \notin CopyIds(e)
                 PROVE  \E k \in L : /\ k.id = r.id /\ k.path = r.path /\ k.cached
                                     /\ k.ver = r.ver \/ r.id \in Loads(e)
    BY DEF InPlace
  <2>2. r.id # q.id /\ r \in d.files /\ r.id \notin CopyIds(d)
    BY <1>5, <2>1
  <2>3. QED
    BY <1>1, <1>5, <2>1, <2>2 DEF InPlace
<1>8. ASSUME NEW T \in SUBSET todo, NEW G \in SUBSET gone, l \notin G, ~Exists(T, l.path)
      PROVE  Waiting(e, L, T, G)
  <2>1. ASSUME NEW k \in L, k.cached, k \in G \/ Exists(T, k.path)
        PROVE  \E r \in e.files : r.id = k.id /\ r.path = k.path /\ r.cached
    <3>1. k # l
      BY <1>8, <2>1
    <3>2. k \in gone \/ Exists(todo, k.path)
      BY <2>1 DEF Exists, Meta
    <3>3. PICK o \in d.files : o.id = k.id /\ o.path = k.path /\ o.cached
      BY <1>1, <2>1, <3>2 DEF Waiting
    <3>4. o.id # q.id
      BY <1>2, <3>1, <3>3
    <3>5. QED
      BY <1>6, <3>3, <3>4
  <2>2. QED
    BY <2>1 DEF Waiting
<1>9. /\ \A T \in SUBSET todo, G \in SUBSET gone :
            l \notin G /\ ~Exists(T, l.path) => Applies(e, L, T, G, K, C, n)
      /\ \A r \in e.files : r.cached => r.path # l.path
  BY <1>2, <1>5, <1>7, <1>8 DEF Applies
<1>10. QED
  BY <1>9 DEF e

(* In the first loop the resource then gets a row of its own.                  *)
LEMMA BesideApplies ==
    ASSUME NEW d \in Database, NEW L, NEW todo, NEW gone, NEW K, NEW C, NEW n,
           Applies(d, L, todo, gone, K, C, n),
           NEW res \in Resource, res.ver <= n, \A r \in d.files : r.cached => r.path # res.path,
           NEW id, C[id] = NoData
    PROVE  Applies(EnsureRemoteRow(d, res, "Synced", id), L, todo, gone, K, C, n)
<1> DEFINE e == EnsureRemoteRow(d, res, "Synced", id)
<1>1. RowsFit(d, C, n) /\ BytesKnown(d, K, C) /\ InPlace(d, L) /\ Waiting(d, L, todo, gone)
  BY DEF Applies
<1>2. /\ RowsFit(e, C, n)
      /\ e.queue = d.queue /\ e.copies = d.copies
      /\ \A r \in e.files : r.cached =>
            \/ r \in d.files /\ r.path # res.path
            \/ \E q \in d.files : /\ q.cached /\ r.id = q.id
                                  /\ r.path = res.path /\ q.path = res.path
                                  /\ r.ver = res.ver
                                  /\ q.sync = "Error" => r.sync = "Error"
      /\ \A q \in d.files : \E r \in e.files :
            r.id = q.id /\ r.path = q.path /\ r.cached = q.cached
  BY <1>1, EnsureCached
<1> HIDE DEF e
<1>3. Loads(e) = Loads(d) /\ CopyIds(e) = CopyIds(d)
  BY <1>2 DEF Loads, CopyIds
<1>4. \A r \in e.files : r.cached => r \in d.files
  BY <1>2
<1>5. BytesKnown(e, K, C)
  <2>1. \A r \in e.files : ~r.cached => Settles(e, r, K, C)
    BY <1>2 DEF RowsFit, Settles, BytesFit
  <2>2. \A r \in e.files : r.cached => Settles(e, r, K, C)
    BY <1>1, <1>3, <1>4 DEF BytesKnown, Settles
  <2>3. QED
    BY <2>1, <2>2 DEF BytesKnown
<1>6. InPlace(e, L)
  BY <1>1, <1>3, <1>4 DEF InPlace
<1>7. Waiting(e, L, todo, gone)
  <2>1. \A q \in d.files : \E r \in e.files :
           r.id = q.id /\ r.path = q.path /\ r.cached = q.cached
    BY <1>2
  <2>2. QED
    BY <1>1, <2>1 DEF Waiting
<1>8. Applies(e, L, todo, gone, K, C, n)
  BY <1>2, <1>5, <1>6, <1>7 DEF Applies
<1>9. QED
  BY <1>8 DEF e

(* The second loop: a row is deleted, and its bytes with it.                   *)
LEMMA DeleteRowApplies ==
    ASSUME NEW d \in Database, NEW L, NEW todo, NEW gone, NEW K, NEW C, NEW n,
           Applies(d, L, todo, gone, K, C, n),
           \A r, q \in L : r.id = q.id => r = q, todo = {},
           NEW l \in L, NEW B, \A i \in FileId : B[i] \in {C[i], NoData}
    PROVE  Applies(DeleteRow(d, l.id), L, todo, gone \ {l}, K, B, n)
<1> DEFINE e == DeleteRow(d, l.id)
<1>1. RowsFit(d, C, n) /\ BytesKnown(d, K, C) /\ InPlace(d, L) /\ Waiting(d, L, todo, gone)
  BY DEF Applies
<1>2. /\ e.files = {r \in d.files : r.id # l.id} /\ e.queue = {o \in d.queue : o.file # l.id}
      /\ e.copies = {c \in d.copies : c[1] # l.id}
  BY DEF DeleteRow, Database
<1> HIDE DEF e
<1>3. \A r \in d.files : B[r.id] \in {C[r.id], NoData}
  BY DEF Database, Row
<1>4. /\ \A i : i # l.id => (i \in CopyIds(d) <=> i \in CopyIds(e))
      /\ \A i : i # l.id => (i \in Loads(d) <=> i \in Loads(e))
  BY <1>2 DEF CopyIds, Loads
<1>5. RowsFit(e, B, n)
  <2>1. ASSUME NEW r \in e.files
        PROVE  /\ r.cached => CachePath(r.path)
               /\ r.cached => r.id \in CopyIds(e) \/ OwnPath(r.path)
               /\ r.sync \in Unsynced => r.cached
               /\ ~r.cached => B[r.id] = NoData
               /\ r.ver <= n
    BY <1>1, <1>2, <1>3, <1>4 DEF RowsFit
  <2>2. ASSUME NEW o \in e.queue
        PROVE  /\ o.type \in {"RefreshTree", "Upload", "Download"}
               /\ o.type # "RefreshTree" => \E r \in e.files : r.id = o.file /\ r.cached
               /\ o.type = "Upload" => o.file \in CopyIds(e)
    BY <1>1, <1>2, <1>4 DEF RowsFit
  <2>3. QED
    BY <2>1, <2>2 DEF RowsFit
<1>6. BytesKnown(e, K, B)
  BY <1>1, <1>2, <1>3, <1>4 DEF BytesKnown, Settles, BytesFit
<1>7. InPlace(e, L)
  BY <1>1, <1>2, <1>4 DEF InPlace
<1>8. Waiting(e, L, todo, gone \ {l})
  <2>1. ASSUME NEW k \in L, k.cached, k \in gone \ {l} \/ Exists(todo, k.path)
        PROVE  \E r \in e.files : r.id = k.id /\ r.path = k.path /\ r.cached
    <3>1. k # l /\ k \in gone
      BY <2>1 DEF Exists, Meta
    <3>2. PICK o \in d.files : o.id = k.id /\ o.path = k.path /\ o.cached
      BY <1>1, <2>1, <3>1 DEF Waiting
    <3>3. QED
      BY <1>2, <3>1, <3>2
  <2>2. QED
    BY <2>1 DEF Waiting
<1>9. Applies(e, L, todo, gone \ {l}, K, B, n)
  BY <1>5, <1>6, <1>7, <1>8 DEF Applies
<1>10. QED
  BY <1>9 DEF e

LEMMA KeepCopyApplies ==
    ASSUME NEW d, NEW L, NEW todo, NEW gone, NEW K, NEW C, NEW n,
           Applies(d, L, todo, gone, K, C, n), NEW l
    PROVE  Applies(d, L, todo, gone \ {l}, K, C, n)
BY DEF Applies, Waiting

(* Bytes that are dropped, resources that are gone or newer than every row,    *)
(* and time.                                                                    *)
LEMMA BytesDropped ==
    ASSUME NEW d \in Database, NEW K, NEW C, NEW n, RowsFit(d, C, n), BytesKnown(d, K, C),
           NEW B, \A i \in FileId : B[i] \in {C[i], NoData}
    PROVE  RowsFit(d, B, n) /\ BytesKnown(d, K, B)
<1>1. \A r \in d.files : B[r.id] \in {C[r.id], NoData}
  BY DEF Database, Row
<1>2. QED
  BY <1>1 DEF RowsFit, BytesKnown, Settles, BytesFit

LEMMA BytesStay ==
    ASSUME NEW d \in Database, NEW K, NEW C, NEW n \in Nat, RowsFit(d, C, n), BytesKnown(d, K, C),
           NEW m \in Nat, n <= m, NEW N, \A x \in N : x \in K \/ (x.ver > n /\ x.ver \in Nat)
    PROVE  RowsFit(d, C, m) /\ BytesKnown(d, N, C)
<1>1. \A r \in d.files : r.ver \in Nat /\ r.ver <= n /\ r.ver <= m
  <2>1. \A r \in d.files : r.ver \in Nat
    BY DEF Database, Row
  <2>2. QED
    BY <2>1 DEF RowsFit
<1>2. RowsFit(d, C, m)
  BY <1>1 DEF RowsFit
<1>3. \A r \in d.files : BytesFit(r, K, C) => BytesFit(r, N, C)
  BY <1>1 DEF BytesFit
<1>4. QED
  BY <1>2, <1>3 DEF BytesKnown, Settles

LEMMA QueueTended ==
    ASSUME NEW d, NEW e, NEW f, Tends(d, e, f), e.files = d.files, Loads(d) \subseteq Loads(e),
           NEW K, NEW C, NEW n, RowsFit(d, C, n), BytesKnown(d, K, C)
    PROVE  RowsFit(e, C, n) /\ BytesKnown(e, K, C)
<1>1. RowsFit(e, C, n)
  <2>1. \A r \in e.files : r.id = f => (r.sync \in Unsynced => r.cached) /\ r.ver <= n
    BY DEF RowsFit
  <2>2. QED
    BY <2>1, TendedRows
<1>2. CopyIds(e) = CopyIds(d)
  BY DEF Tends, CopyIds
<1>3. QED
  BY <1>1, <1>2 DEF BytesKnown, Settles

LEMMA StatusTended ==
    ASSUME NEW d \in Database, NEW i, NEW s, NEW K, NEW C, NEW n,
           RowsFit(d, C, n), BytesKnown(d, K, C)
    PROVE  RowsFit(SetStatus(d, i, s), C, n) /\ BytesKnown(SetStatus(d, i, s), K, C)
<1> DEFINE e == SetStatus(d, i, s)
<1>1. Tends(d, e, Root) /\ e.files = d.files /\ Loads(d) \subseteq Loads(e)
  BY SetStatusTends
<1> HIDE DEF e
<1>2. RowsFit(e, C, n) /\ BytesKnown(e, K, C)
  BY <1>1, QueueTended
<1>3. QED
  BY <1>2 DEF e

LEMMA RefreshTended ==
    ASSUME NEW d \in Database, NEW f, NEW from, NEW to, NEW K, NEW C, NEW n,
           RowsFit(d, C, n), BytesKnown(d, K, C)
    PROVE  LET e == Upsert(d, f, "RefreshTree", from, to)
           IN  RowsFit(e, C, n) /\ BytesKnown(e, K, C) /\ e.files = d.files
<1> DEFINE e == Upsert(d, f, "RefreshTree", from, to)
<1>1. Tends(d, e, f) /\ e.files = d.files /\ Loads(d) \subseteq Loads(e)
  BY UpsertTends
<1> HIDE DEF e
<1>2. RowsFit(e, C, n) /\ BytesKnown(e, K, C)
  BY <1>1, QueueTended
<1>3. QED
  BY <1>1, <1>2 DEF e
-----------------------------------------------------------------------------
(* The invariant, while no call is made and no kill tears a critical section.  *)
PutPc  == {"u_mark", "u_check", "u_conflict", "u_put", "u_fetch", "u_commit"}
LoadPc == {"l_mark", "l_get", "l_write", "l_commit"}

(* Everything the worker has seen of the tree, or would see now.               *)
Known == remote \cup w.seen

Ground ==
    /\ \A t \in Thread : th[t] = IdleThread
    /\ \A f \in FileId \ born : cache[f] = NoData
    /\ \A x \in Known : x.ver <= clock /\ (OwnPath(x.path) => x.kind = "File")

(* The job is in the queue, its row is where it was read, and what is          *)
(* downloaded for it are the bytes of its version.                             *)
Employed ==
    /\ w.pc \in {"idle", "start", "fail", "u_finish", "f_done"} \cup PutPc \cup LoadPc \cup Walking
    /\ w.pc \in {"start", "fail"} \cup PutPc \cup LoadPc =>
          w.job \in db.queue /\ w.job.status = "Leased"
    /\ w.pc \in PutPc => w.job.type = "Upload"
    /\ w.pc \in LoadPc => w.job.type = "Download"
    /\ w.pc = "fail" => w.job.type # "RefreshTree"
    /\ w.pc \in Walking \cup {"f_done"} => w.job.type = "RefreshTree"
    /\ w.pc \in PutPc \cup LoadPc =>
          \E r \in db.files : r.id = w.job.file /\ r.path = w.entry.path
    /\ \A x \in w.meta : x.ver <= clock
    /\ w.pc = "u_conflict" => \A x \in w.meta : x.path = w.entry.path
    /\ w.pc = "l_write" => \A r \in db.files : r.id = w.job.file =>
          \A x \in remote : x.path = r.path /\ x.ver = r.ver => w.data = x.data
    /\ w.pc = "l_commit" => \A r \in db.files : r.id = w.job.file => BytesFit(r, remote, cache)

Refreshing ==
    /\ w.pc \notin Walking => w.seen = {}
    /\ \A x, y \in w.seen : x.path = y.path => x = y
    /\ w.pc \in {"f_begin", "f_apply"} => w.snap = db.files
    /\ w.pc = "f_apply" =>
          /\ w.todo \subseteq w.seen
          /\ w.gone \subseteq {l \in w.snap : ~Exists(w.seen, l.path)}
          /\ Applies(w.tx, w.snap, w.todo, w.gone, Known, cache, clock)

Versions ==
    /\ Ground /\ Employed /\ Refreshing
    /\ RowsFit(db, cache, clock) /\ BytesKnown(db, Known, cache)

(* What else is known of the state.                                            *)
Basics == Inv /\ Safe /\ RefreshInv /\ Versions

LEMMA BasicFacts ==
    ASSUME Basics
    PROVE  /\ db \in Database /\ Sound(db) /\ Tidy(db) /\ Ids(db) \subseteq born
           /\ cache \in [FileId -> Nat] /\ clock \in Nat /\ remote \in SUBSET Resource
           /\ w.seen \in SUBSET Resource /\ Known \in SUBSET Resource
           /\ \A x, y \in remote : x.path = y.path => x = y
           /\ w.pc # "idle" => \A o \in db.queue : o.id = w.job.id => o.file = w.job.file
<1>1. /\ db \in Database /\ Sound(db) /\ cache \in [FileId -> Nat] /\ clock \in Nat
      /\ remote \in SUBSET Resource
  BY DEF Basics, Inv, TypeOK
<1>2. w.seen \in SUBSET Resource
  BY RefreshTypes DEF Basics
<1>3. Tidy(db) /\ Ids(db) \subseteq born
  BY DEF Basics, Safe, StoresOK, Stores
<1>4. \A x, y \in remote : x.path = y.path => x = y
  BY DEF Basics, RefreshInv, Tree
<1>5. w.pc # "idle" => \A o \in db.queue : o.id = w.job.id => o.file = w.job.file
  BY DEF Basics, Inv, JobHeld, Held
<1>6. QED
  BY <1>1, <1>2, <1>3, <1>4, <1>5 DEF Known

(* The row of the job.                                                         *)
LEMMA JobRow ==
    ASSUME Basics, w.job \in db.queue, w.job.type # "RefreshTree"
    PROVE  /\ \E r \in db.files : r.id = w.job.file /\ r.cached
           /\ \A r \in db.files : r.id = w.job.file => r.cached /\ r.ver <= clock
           /\ \A r, q \in db.files : r.id = w.job.file /\ q.id = w.job.file => r = q
           /\ w.job.file \in born /\ w.job.file \in FileId
           /\ w.job.type = "Upload" => w.job.file \in CopyIds(db)
           /\ w.job.type = "Download" => w.job.file \in Loads(db)
           /\ w.job.type \in {"Upload", "Download"}
<1>1. RowsFit(db, cache, clock) /\ Tidy(db) /\ Ids(db) \subseteq born
  BY BasicFacts DEF Basics, Versions
<1>2. PICK r \in db.files : r.id = w.job.file /\ r.cached
  BY <1>1 DEF RowsFit
<1>3. \A q \in db.files : q.id = w.job.file => q = r
  BY <1>1, <1>2 DEF Tidy, IdsOnce
<1>4. w.job.file \in born /\ w.job.file \in FileId
  BY <1>1, <1>2, WorkerTypes DEF Ids, Basics, Inv
<1>5. w.job.type = "Download" => w.job.file \in Loads(db)
  BY DEF Loads
<1>6. QED
  BY <1>1, <1>2, <1>3, <1>4, <1>5 DEF RowsFit
-----------------------------------------------------------------------------
(* Steps that leave the worker out of a refresh.                               *)
LEMMA OutOfRefresh ==
    ASSUME Versions, w'.pc \notin Walking, w'.seen = {}, Employed',
           UNCHANGED <<cache, remote, clock, th>>, born \subseteq born',
           RowsFit(db', cache, clock), BytesKnown(db', Known, cache)
    PROVE  Versions'
<1>1. Known' \subseteq Known
  BY DEF Known
<1>2. BytesKnown(db', Known', cache)
  BY <1>1 DEF BytesKnown, Settles, BytesFit
<1>3. Ground'
  BY <1>1 DEF Versions, Ground
<1>4. Refreshing'
  BY DEF Refreshing, Walking
<1>5. QED
  BY <1>2, <1>3, <1>4 DEF Versions

LEMMA JobFinished ==
    ASSUME Versions, Finish, UNCHANGED <<cache, remote, clock, th>>, born \subseteq born',
           RowsFit(db', cache, clock), BytesKnown(db', Known, cache)
    PROVE  Versions'
<1>1. w'.pc = "idle" /\ w'.seen = {} /\ w'.meta = {}
  BY DEF Finish, IdleWorker
<1>2. Employed'
  BY <1>1 DEF Employed, PutPc, LoadPc, Walking
<1>3. QED
  BY <1>1, <1>2, OutOfRefresh DEF Walking

(* The job is given up, and is still in the queue.                             *)
LEMMA JobAbandoned ==
    ASSUME Versions, Finish, UNCHANGED <<db, cache, remote, clock, th>>, born \subseteq born'
    PROVE  Versions'
BY JobFinished DEF Versions

(* The job goes on, with its row where it was.                                 *)
LEMMA JobContinues ==
    ASSUME Basics, w.pc \in {"start", "fail"} \cup PutPc \cup LoadPc,
           w'.pc \in {"fail", "u_finish"} \cup PutPc \cup LoadPc,
           w'.job = w.job, w'.seen = {}, \A x \in w'.meta : x.ver <= clock,
           w.job.type # "RefreshTree",
           w'.pc \in PutPc => w.job.type = "Upload",
           w'.pc \in LoadPc => w.job.type = "Download",
           w'.pc \in PutPc \cup LoadPc =>
              \E r \in db'.files : r.id = w.job.file /\ r.path = w'.entry.path,
           w'.pc # "u_finish" => w.job \in db'.queue,
           w'.pc = "u_conflict" => \A x \in w'.meta : x.path = w'.entry.path,
           w'.pc = "l_write" => \A r \in db'.files : r.id = w.job.file =>
              \A x \in remote : x.path = r.path /\ x.ver = r.ver => w'.data = x.data,
           w'.pc = "l_commit" => \A r \in db'.files : r.id = w.job.file => BytesFit(r, remote, cache),
           UNCHANGED <<cache, remote, clock, th>>, born \subseteq born',
           RowsFit(db', cache, clock), BytesKnown(db', Known, cache)
    PROVE  Versions'
<1>1. w'.pc \notin Walking
  BY DEF Walking, PutPc, LoadPc
<1>2. w.job.status = "Leased"
  BY DEF Basics, Versions, Employed
<1>3. Employed'
  BY <1>1, <1>2 DEF Employed, PutPc, LoadPc, Walking
<1>4. QED
  BY <1>1, <1>3, OutOfRefresh DEF Basics

-----------------------------------------------------------------------------
(* The steps of the worker outside a refresh.                                  *)
LEMMA GotoStays ==
    ASSUME TypeOK, NEW step \in WorkerPc, Goto(step)
    PROVE  /\ w'.pc = step /\ w'.job = w.job /\ w'.entry = w.entry
           /\ w'.meta = w.meta /\ w'.data = w.data /\ w'.seen = w.seen
BY DEF TypeOK, Goto, WorkerState

LEMMA FailStays ==
    ASSUME TypeOK, NEW again, w' = [w EXCEPT !.pc = "fail", !.again = again]
    PROVE  /\ w'.pc = "fail" /\ w'.job = w.job /\ w'.meta = w.meta /\ w'.seen = w.seen
BY DEF TypeOK, WorkerState

LEMMA RecoverLeaseVersions == ASSUME Basics, RecoverLease PROVE Versions'
<1>1. /\ w.pc = "idle" /\ UNCHANGED <<cache, born, remote, clock, th, w>>
      /\ \E o \in db.queue : db' = SetStatus(db, o.id, "Pending")
  BY DEF RecoverLease, At
<1>2. RowsFit(db', cache, clock) /\ BytesKnown(db', Known, cache)
  BY <1>1, BasicFacts, StatusTended DEF Basics, Versions
<1>3. Employed'
  BY <1>1 DEF Employed, PutPc, LoadPc, Walking, Basics, Versions
<1>4. w'.pc \notin Walking /\ w'.seen = {}
  BY <1>1 DEF Basics, Versions, Refreshing, Walking
<1>5. QED
  BY <1>1, <1>2, <1>3, <1>4, OutOfRefresh DEF Basics

LEMMA LeaseVersions == ASSUME Basics, Lease PROVE Versions'
<1>1. /\ w.pc = "idle" /\ UNCHANGED <<cache, born, remote, clock, th>>
      /\ w.seen = {} /\ w \in WorkerState /\ \A x \in w.meta : x.ver <= clock
  BY WorkerTypes DEF Lease, At, Basics, Versions, Refreshing, Employed, Walking, Inv
<1>2. PICK o \in db.queue :
         /\ db' = SetStatus(db, o.id, "Leased")
         /\ w' = [w EXCEPT !.pc = "start", !.job = [o EXCEPT !.status = "Leased"]]
  BY DEF Lease, Leasable
<1>3. RowsFit(db', cache, clock) /\ BytesKnown(db', Known, cache)
  BY <1>1, <1>2, BasicFacts, StatusTended DEF Basics, Versions
<1> DEFINE job == [o EXCEPT !.status = "Leased"]
<1>4. job \in db'.queue /\ job.status = "Leased"
  <2>1. o \in Op /\ db \in Database
    BY BasicFacts DEF Database
  <2> DEFINE new(q) == IF q.id = o.id THEN [q EXCEPT !.status = "Leased"] ELSE q
  <2>2. db'.queue = {new(q) : q \in db.queue}
    BY <1>2, <2>1 DEF SetStatus, Database
  <2>3. new(o) = job
    OBVIOUS
  <2>4. QED
    BY <2>1, <2>2, <2>3 DEF Op
<1>5. w'.pc = "start" /\ w'.job = job /\ w'.meta = w.meta /\ w'.seen = w.seen
  BY <1>1, <1>2 DEF WorkerState
<1> HIDE DEF job
<1>6. Employed'
  BY <1>1, <1>4, <1>5 DEF Employed, PutPc, LoadPc, Walking
<1>7. QED
  BY <1>1, <1>3, <1>5, <1>6, OutOfRefresh DEF Basics, Walking

LEMMA StartVersions == ASSUME Basics, Start PROVE Versions'
<1> DEFINE type == w.job.type
           found == IF type \in {"Upload", "Mkdir", "Download"} THEN Mine ELSE {RootRow}
<1>1. /\ w.pc = "start" /\ UNCHANGED <<db, cache, born, remote, clock, th>>
      /\ w.seen = {} /\ w \in WorkerState /\ \A x \in w.meta : x.ver <= clock
      /\ w.job \in db.queue /\ w.job.status = "Leased"
  BY WorkerTypes DEF Start, At, Basics, Versions, Refreshing, Employed, Walking, Inv
<1>2. type \in {"RefreshTree", "Upload", "Download"}
  BY <1>1 DEF Basics, Versions, RowsFit
<1>3. \/ Goto("u_finish") /\ type = "Upload"
      \/ found # {} /\ w' = [w EXCEPT !.pc = FirstStep[type], !.entry = The(found),
                                      !.walk = {RootPath},
                                      !.before = IF type = "RefreshTree" THEN spent.other ELSE 0]
      \/ Finish
  BY DEF Start, Abandon
<1>4. CASE Goto("u_finish") /\ type = "Upload"
  <2>1. w'.pc = "u_finish" /\ w'.job = w.job /\ w'.meta = w.meta /\ w'.seen = w.seen
    BY <1>4, GotoStays DEF WorkerPc, Basics, Inv
  <2>2. QED
    BY <1>1, <1>4, <2>1, JobContinues DEF Basics, Versions, PutPc, LoadPc
<1>5. CASE Finish
  BY <1>1, <1>5, JobAbandoned DEF Basics
<1>6. CASE found # {} /\ w' = [w EXCEPT !.pc = FirstStep[type], !.entry = The(found),
                                        !.walk = {RootPath},
                                        !.before = IF type = "RefreshTree" THEN spent.other ELSE 0]
  <2>1. /\ w'.pc = FirstStep[type] /\ w'.entry = The(found) /\ w'.job = w.job
        /\ w'.meta = w.meta /\ w'.seen = w.seen
    BY <1>1, <1>6 DEF WorkerState
  <2>2. CASE type = "RefreshTree"
    <3>1. w'.pc = "f_list"
      BY <2>1, <2>2 DEF FirstStep
    <3>2. Employed'
      BY <1>1, <2>1, <2>2, <3>1 DEF Employed, PutPc, LoadPc, Walking
    <3>3. Refreshing'
      BY <1>1, <2>1, <3>1 DEF Refreshing, Walking
    <3>4. Known' = Known
      BY <1>1, <2>1 DEF Known
    <3>5. QED
      BY <1>1, <3>2, <3>3, <3>4 DEF Basics, Versions, Ground
  <2>3. CASE type # "RefreshTree"
    <3>1. The(found) \in db.files /\ The(found).id = w.job.file
      BY <1>2, <1>6, <2>3 DEF Mine, RowOf, The
    <3>2. w'.pc = IF type = "Upload" THEN "u_mark" ELSE "l_mark"
      BY <1>2, <2>1, <2>3 DEF FirstStep
    <3> HIDE DEF found, type
    <3>3. w'.pc \in PutPc \cup LoadPc /\ w'.pc \notin {"u_conflict", "l_write", "l_commit"}
          /\ (w'.pc \in PutPc => type = "Upload") /\ (w'.pc \in LoadPc => type = "Download")
      BY <1>2, <2>3, <3>2 DEF PutPc, LoadPc
    <3>4. \E r \in db'.files : r.id = w.job.file /\ r.path = w'.entry.path
      BY <1>1, <2>1, <3>1
    <3>5. QED
      BY <1>1, <2>1, <2>3, <3>3, <3>4, JobContinues DEF Basics, Versions, type
  <2>4. QED
    BY <2>2, <2>3
<1>7. QED
  BY <1>3, <1>4, <1>5, <1>6

LEMMA FailVersions == ASSUME Basics, Fail PROVE Versions'
<1> DEFINE f == w.job.file
<1>1. /\ w.pc = "fail" /\ UNCHANGED <<cache, born, remote, clock, th>> /\ Finish
      /\ w.job \in db.queue /\ w.job.type # "RefreshTree"
      /\ db' = RetryOrFail(db, w.job, w.again)
  BY DEF Fail, At, Basics, Versions, Employed
<1>2. /\ Tends(db, db', f)
      /\ \A r \in db'.files : r.id = f =>
            r.sync = "Error" /\ \E q \in db.files : q.id = f /\ r.ver = q.ver /\ r.cached = q.cached
  BY <1>1, BasicFacts, RetryOrFailTends
<1>3. RowsFit(db', cache, clock)
  BY <1>1, <1>2, JobRow, TendedRows DEF Basics, Versions
<1>4. BytesKnown(db', Known, cache)
  BY <1>1, <1>2, TendedBytes DEF Basics, Versions, Settles
<1>5. QED
  BY <1>1, <1>3, <1>4, JobFinished DEF Basics

-----------------------------------------------------------------------------
(* The upload of a conflict copy.                                              *)
LEMMA PutFacts ==
    ASSUME Basics, w.pc \in PutPc
    PROVE  /\ w.job \in db.queue /\ w.job.type = "Upload" /\ w.job.status = "Leased"
           /\ w.seen = {} /\ \A x \in w.meta : x.ver <= clock
           /\ \E r \in db.files : r.id = w.job.file /\ r.path = w.entry.path
           /\ RowsFit(db, cache, clock) /\ BytesKnown(db, Known, cache)
BY DEF Basics, Versions, Employed, Refreshing, PutPc, Walking

LEMMA UploadMarkVersions == ASSUME Basics, UploadMark PROVE Versions'
<1> DEFINE f == w.job.file
<1>1. /\ w.pc = "u_mark" /\ UNCHANGED <<cache, born, remote, clock, th>>
      /\ db' = SetSync(db, f, "Uploading") /\ Goto("u_check")
  BY DEF UploadMark, At
<1>2. /\ w.job \in db.queue /\ w.job.type = "Upload"
      /\ w.seen = {} /\ \A x \in w.meta : x.ver <= clock
      /\ \E r \in db.files : r.id = f /\ r.path = w.entry.path
      /\ RowsFit(db, cache, clock) /\ BytesKnown(db, Known, cache)
  BY <1>1, PutFacts DEF PutPc
<1>3. /\ Tends(db, db', f)
      /\ \A r \in db'.files : r.id = f => \E q \in db.files : q.id = f /\ r.ver = q.ver /\ r.cached = q.cached
  BY <1>1, BasicFacts, SetSyncTends
<1>4. RowsFit(db', cache, clock)
  BY <1>2, <1>3, JobRow, TendedRows
<1>5. BytesKnown(db', Known, cache)
  <2>1. f \in CopyIds(db')
    BY <1>2, <1>3, JobRow DEF Tends, CopyIds
  <2>2. QED
    BY <1>2, <1>3, <2>1, TendedBytes DEF Settles
<1>6. w.job \in db'.queue /\ \E r \in db'.files : r.id = f /\ r.path = w.entry.path
  <2>1. db'.queue = db.queue
    BY <1>1, BasicFacts DEF SetSync, Database
  <2>2. QED
    BY <1>2, <1>3, <2>1 DEF Tends
<1>7. w'.pc = "u_check" /\ w'.job = w.job /\ w'.entry = w.entry /\ w'.meta = w.meta /\ w'.seen = w.seen
  BY <1>1, GotoStays DEF WorkerPc, Basics, Inv
<1>8. QED
  BY <1>1, <1>2, <1>4, <1>5, <1>6, <1>7, JobContinues DEF PutPc, LoadPc

(* A step of the upload that only looks at the tree.                           *)
LEMMA PutLooks ==
    ASSUME Basics, w.pc \in PutPc, w'.pc \in PutPc \cup {"fail"}, w'.job = w.job,
           w'.pc \in PutPc => w'.entry = w.entry,
           w'.seen = w.seen, \A x \in w'.meta : x \in w.meta \/ x \in remote,
           w'.pc = "u_conflict" => \A x \in w'.meta : x.path = w'.entry.path,
           UNCHANGED <<db, cache, born, remote, clock, th>>
    PROVE  Versions'
<1>1. \A x \in w'.meta : x.ver <= clock
  BY PutFacts DEF Basics, Versions, Ground, Known
<1>2. w'.pc \notin LoadPc /\ w'.pc # "u_finish"
  BY DEF PutPc, LoadPc
<1>3. QED
  BY <1>1, <1>2, PutFacts, JobContinues DEF LoadPc

LEMMA UploadLooksVersions ==
    ASSUME Basics, UploadCheck \/ UploadFetch PROVE Versions'
<1>1. UNCHANGED <<db, cache, born, remote, clock, th>> /\ w \in WorkerState /\ w.pc \in PutPc
  BY WorkerTypes DEF UploadCheck, UploadFetch, At, PutPc, Basics, Inv
<1>2. CASE UploadCheck
  <2>1. PICK pc \in {"u_put", "u_conflict"} :
           w' = [w EXCEPT !.meta = Meta(remote, w.entry.path), !.pc = pc]
    BY <1>2 DEF UploadCheck
  <2>2. w'.pc = pc /\ w'.job = w.job /\ w'.entry = w.entry /\ w'.seen = w.seen
        /\ w'.meta = Meta(remote, w.entry.path)
    BY <1>1, <2>1 DEF WorkerState
  <2>3. pc \in PutPc
    BY DEF PutPc
  <2>4. QED
    BY <1>1, <2>2, <2>3, PutLooks DEF Meta
<1>3. CASE UploadFetch
  <2>1. CASE w' = [w EXCEPT !.pc = "fail", !.again = FALSE]
    BY <1>1, <2>1, FailStays, PutLooks DEF Basics, Inv, PutPc
  <2>2. CASE w' = [w EXCEPT !.pc = "u_commit", !.meta = Meta(remote, w.entry.path)]
    <3>1. w'.pc = "u_commit" /\ w'.job = w.job /\ w'.entry = w.entry /\ w'.seen = w.seen
          /\ w'.meta = Meta(remote, w.entry.path)
      BY <1>1, <2>2 DEF WorkerState
    <3>2. QED
      BY <1>1, <3>1, PutLooks DEF Meta, PutPc
  <2>3. QED
    BY <1>3, <2>1, <2>2 DEF UploadFetch
<1>4. QED
  BY <1>2, <1>3

LEMMA UploadCommitVersions == ASSUME Basics, UploadCommit PROVE Versions'
<1> DEFINE f == w.job.file
           v == RemoteVersion(w.meta)
           g == IF w.meta = {} THEN db ELSE SetSynced(db, f, v)
<1>1. /\ w.pc = "u_commit" /\ UNCHANGED <<cache, born, remote, clock, th>> /\ Finish
      /\ db' = DropOp(g, w.job.id)
  BY DEF UploadCommit, At, CommitSynced
<1>2. /\ w.job \in db.queue /\ w.job.type = "Upload" /\ \A x \in w.meta : x.ver <= clock
      /\ RowsFit(db, cache, clock) /\ BytesKnown(db, Known, cache)
  BY <1>1, PutFacts DEF PutPc
<1>3. f \in CopyIds(db) /\ \A r \in db.files : r.id = f => r.cached /\ r.ver <= clock
  BY <1>2, JobRow
<1>4. w.meta # {} => v <= clock
  BY <1>2 DEF RemoteVersion, The
<1>5. /\ Tends(db, g, f) /\ g \in Database /\ g.queue = db.queue
      /\ \A r \in g.files : r.id = f => (r.sync \in Unsynced => r.cached) /\ r.ver <= clock
  <2>1. CASE w.meta = {}
    BY <1>2, <1>3, <2>1, BasicFacts DEF Tends, RowsFit
  <2>2. CASE w.meta # {}
    <3>1. /\ Tends(db, SetSynced(db, f, v), f)
          /\ \A r \in SetSynced(db, f, v).files : r.id = f => r.sync = "Synced" /\ r.ver = v
      BY BasicFacts, SetSyncedTends
    <3>2. SetSynced(db, f, v) \in Database
      <4>1. w.meta \in SUBSET Resource
        BY WorkerTypes DEF Basics, Inv
      <4>2. v \in Nat
        BY <4>1, RemoteVersionType
      <4>3. Follows(db, SetSynced(db, f, v))
        BY <4>2, BasicFacts, SetSyncedFollows
      <4>4. QED
        BY <4>3 DEF Follows, Sound
    <3>3. SetSynced(db, f, v).queue = db.queue
      BY BasicFacts DEF SetSynced, Database
    <3>4. QED
      BY <1>4, <2>2, <3>1, <3>2, <3>3 DEF Unsynced
  <2>3. QED
    BY <2>1, <2>2
<1> HIDE DEF g
<1>6. Tends(g, db', f) /\ db'.files = g.files
  <2>1. \A o \in g.queue : o.id = w.job.id => o.file = f
    BY <1>1, <1>5, BasicFacts
  <2>2. QED
    BY <1>1, <1>5, <2>1, DropOpTends DEF DropOp, Database
<1>7. Tends(db, db', f)
  BY <1>5, <1>6, TendsOn
<1>8. RowsFit(db', cache, clock)
  BY <1>2, <1>5, <1>6, <1>7, TendedRows
<1>9. BytesKnown(db', Known, cache)
  <2>1. f \in CopyIds(db')
    BY <1>3, <1>7 DEF Tends, CopyIds
  <2>2. QED
    BY <1>2, <1>7, <2>1, TendedBytes DEF Settles
<1>10. QED
  BY <1>1, <1>8, <1>9, JobFinished DEF Basics

LEMMA UploadFinishVersions == ASSUME Basics, UploadFinish PROVE Versions'
<1>1. w.pc = "u_finish" /\ UNCHANGED <<cache, born, remote, clock, th>> /\ Finish
      /\ db' = FinishJob(db, w.job.id)
  BY DEF UploadFinish, At
<1>2. db' = db
  BY <1>1, FinishJobFollows DEF Basics, Inv, FinishedJobGone
<1>3. QED
  BY <1>1, <1>2, JobAbandoned DEF Basics

LEMMA UploadConflictVersions == ASSUME CopiesApart, Basics, UploadConflict PROVE Versions'
<1> DEFINE f == w.job.file
           p == w.entry.path
<1>1. /\ w.pc = "u_conflict" /\ FileId \ born # {} /\ UNCHANGED <<cache, remote, clock, th>>
  BY DEF UploadConflict, At
<1>2. /\ w.job \in db.queue /\ w.job.type = "Upload" /\ w.seen = {}
      /\ \A x \in w.meta : x.ver <= clock
      /\ RowsFit(db, cache, clock) /\ BytesKnown(db, Known, cache)
  BY <1>1, PutFacts DEF PutPc
<1>3. PICK q \in db.files : q.id = f /\ q.path = p /\ q.cached
  BY <1>1, <1>2, PutFacts, JobRow DEF PutPc
<1>4. PICK cp \in NextConflictPaths(db, p) :
         IF ConflictFails(db, f, p, cp)
         THEN Abandon /\ UNCHANGED <<db, born>>
         ELSE /\ db' = IF w.meta = {} THEN ApplyConflict(db, f, p, cp)
                       ELSE EnsureRemoteRow(ApplyConflict(db, f, p, cp),
                                            The(w.meta), "Synced", FreshId)
              /\ born' = IF w.meta = {} THEN born ELSE born \cup {FreshId}
              /\ Goto("u_finish")
  BY DEF UploadConflict
<1>5. CASE ConflictFails(db, f, p, cp)
  BY <1>1, <1>4, <1>5, JobAbandoned DEF Abandon, Basics
<1>6. CASE ~ConflictFails(db, f, p, cp)
  <2> DEFINE e == ApplyConflict(db, f, p, cp)
  <2>1. /\ RowsFit(e, cache, clock) /\ BytesKnown(e, Known, cache)
        /\ \A r \in e.files : r.cached => r.path # p
    <3>1. Clash(db, q.path, cp) = {} /\ cp \in NextConflictPaths(db, q.path)
      BY <1>3, <1>4, <1>6 DEF ConflictFails
    <3>2. e = ApplyConflict(db, q.id, q.path, cp)
      BY <1>3
    <3> HIDE DEF e
    <3>3. clock \in Nat /\ Sound(db) /\ Tidy(db)
      BY BasicFacts
    <3>4. QED
      BY <1>2, <1>3, <3>1, <3>2, <3>3, AsideKnown
  <2>2. e \in Database
    <3>1. p \in Path /\ f \in FileId /\ cp \in Path
      BY <1>4, WorkerTypes, NextConflictPathsType DEF Basics, Inv
    <3>2. QED
      BY <3>1, BasicFacts, ApplyConflictFollows DEF Follows, Sound
  <2> HIDE DEF e
  <2>3. RowsFit(db', cache, clock) /\ BytesKnown(db', Known, cache)
    <3>1. CASE w.meta = {}
      BY <1>4, <1>6, <2>1, <3>1 DEF e
    <3>2. CASE w.meta # {}
      <4> DEFINE res == The(w.meta)
      <4>1. res \in w.meta
        BY <3>2 DEF The
      <4>2. res \in Resource /\ res.ver <= clock
        BY <1>2, <4>1, WorkerTypes DEF Basics, Inv
      <4>3. cache[FreshId] = NoData
        BY <1>1 DEF FreshId, Basics, Versions, Ground
      <4>4. db' = EnsureRemoteRow(e, res, "Synced", FreshId)
        BY <1>4, <1>6, <3>2 DEF e
      <4> HIDE DEF res
      <4>5. /\ RowsFit(db', cache, clock)
            /\ db'.queue = e.queue /\ db'.copies = e.copies
            /\ \A r \in db'.files : r.cached =>
                  \/ r \in e.files /\ r.path # res.path
                  \/ \E o \in e.files : /\ o.cached /\ r.id = o.id
                                        /\ r.path = res.path /\ o.path = res.path
                                        /\ r.ver = res.ver
                                        /\ o.sync = "Error" => r.sync = "Error"
        BY <2>1, <2>2, <4>2, <4>3, <4>4, EnsureCached
      <4>6. res.path = p
        <5>1. \A x \in w.meta : x.path = p
          BY <1>1 DEF Basics, Versions, Employed, PutPc
        <5>2. QED
          BY <4>1, <5>1 DEF res
      <4>7. \A r \in db'.files : r.cached => r \in e.files
        BY <2>1, <4>5, <4>6
      <4>8. Loads(db') = Loads(e) /\ CopyIds(db') = CopyIds(e)
        BY <4>5 DEF Loads, CopyIds
      <4>9. \A r \in db'.files : ~r.cached => Settles(db', r, Known, cache)
        BY <4>5 DEF RowsFit, Settles, BytesFit
      <4>10. \A r \in db'.files : r.cached => Settles(db', r, Known, cache)
        BY <2>1, <4>7, <4>8 DEF BytesKnown, Settles
      <4>11. QED
        BY <4>5, <4>9, <4>10 DEF BytesKnown
    <3>3. QED
      BY <3>1, <3>2
  <2>4. w'.pc = "u_finish" /\ w'.job = w.job /\ w'.meta = w.meta /\ w'.seen = w.seen
    BY <1>4, <1>6, GotoStays DEF WorkerPc, Basics, Inv
  <2>5. born \subseteq born'
    BY <1>4, <1>6
  <2>6. QED
    BY <1>1, <1>2, <2>3, <2>4, <2>5, JobContinues DEF PutPc, LoadPc
<1>7. QED
  BY <1>5, <1>6

-----------------------------------------------------------------------------
(* The tree changes: what it gets is a file, and newer than every row.         *)
LEMMA TreeMoves ==
    ASSUME Basics, remote' \in SUBSET Resource, clock' \in Nat, clock <= clock',
           \A x \in remote' : x \in remote \/ (clock < x.ver /\ x.ver <= clock' /\ x.kind = "File"),
           UNCHANGED <<db, cache, born, th>>, w'.seen = w.seen
    PROVE  /\ Ground' /\ RowsFit(db, cache, clock') /\ BytesKnown(db, Known', cache)
           /\ \A r \in db.files : r.ver <= clock /\
                 \A x \in remote' : x.ver = r.ver => x \in remote
<1>1. /\ db \in Database /\ clock \in Nat /\ Known \in SUBSET Resource
      /\ RowsFit(db, cache, clock) /\ BytesKnown(db, Known, cache)
  BY BasicFacts DEF Basics, Versions
<1>2. \A x \in Known' : x \in Known \/ (x.ver > clock /\ x.ver \in Nat /\ x.ver <= clock' /\ x.kind = "File")
  BY <1>1 DEF Known, Resource
<1>3. RowsFit(db, cache, clock') /\ BytesKnown(db, Known', cache)
  BY <1>1, <1>2, BytesStay
<1>4. Ground'
  <2>1. \A x \in Known : x.ver <= clock' /\ (OwnPath(x.path) => x.kind = "File")
    BY <1>1 DEF Basics, Versions, Ground, Resource
  <2>2. QED
    BY <1>2, <2>1 DEF Basics, Versions, Ground
<1>5. ASSUME NEW r \in db.files
      PROVE  r.ver <= clock /\ \A x \in remote' : x.ver = r.ver => x \in remote
  <2>1. r.ver \in Nat /\ r.ver <= clock
    BY <1>1 DEF Database, Row, RowsFit
  <2>2. QED
    BY <1>1, <2>1
<1>6. QED
  BY <1>3, <1>4, <1>5

LEMMA UploadPutVersions == ASSUME Basics, UploadPut PROVE Versions'
<1> DEFINE f == w.job.file
           p == w.entry.path
           v == clock + 1
<1>1. w.pc = "u_put" /\ UNCHANGED <<db, cache, born, th>>
  BY DEF UploadPut, At
<1>2. /\ w.job \in db.queue /\ w.job.type = "Upload" /\ w.job.status = "Leased" /\ w.seen = {}
      /\ \A x \in w.meta : x.ver <= clock
      /\ \E r \in db.files : r.id = f /\ r.path = p
      /\ w \in WorkerState /\ p \in Path /\ f \in FileId
  BY <1>1, PutFacts, WorkerTypes DEF PutPc, Basics, Inv
<1>3. CASE cache[f] = NoData
  <2>1. w' = [w EXCEPT !.pc = "fail", !.again = FALSE] /\ UNCHANGED <<remote, clock>>
    BY <1>3 DEF UploadPut
  <2>2. w'.pc = "fail" /\ w'.job = w.job /\ w'.meta = w.meta /\ w'.seen = w.seen
    BY <2>1, FailStays DEF Basics, Inv
  <2>3. QED
    BY <1>1, <2>1, <2>2, PutLooks DEF PutPc
<1>4. CASE cache[f] # NoData
  <2>1. remote' = PutFile(remote, p, cache[f], v) /\ clock' = v /\ (Goto("u_fetch") \/ AnswerLost)
    BY <1>4 DEF UploadPut, Tick
  <2>2. /\ w'.pc \in {"u_fetch", "fail"} /\ w'.job = w.job /\ w'.meta = w.meta /\ w'.seen = w.seen
        /\ w'.pc = "u_fetch" => w'.entry = w.entry
    BY <2>1, GotoStays, FailStays DEF AnswerLost, WorkerPc, Basics, Inv
  <2>3. v \in Nat /\ clock < v /\ clock <= v /\ clock \in Nat /\ cache[f] \in Nat
    BY <1>2, BasicFacts
  <2>4. remote' \in SUBSET Resource
    BY <1>2, <2>1, <2>3, BasicFacts, PutFileType
  <2>5. \A x \in remote' : x \in remote \/ (clock < x.ver /\ x.ver <= clock' /\ x.kind = "File")
    BY <2>1, <2>3 DEF PutFile
  <2>6. Ground' /\ RowsFit(db, cache, clock') /\ BytesKnown(db, Known', cache)
    BY <1>1, <2>1, <2>2, <2>3, <2>4, <2>5, TreeMoves
  <2>7. \A x \in w'.meta : x.ver <= clock'
    <3>1. \A x \in w.meta : x.ver \in Nat
      BY WorkerTypes DEF Basics, Inv, Resource
    <3>2. QED
      BY <1>2, <2>1, <2>2, <2>3, <3>1
  <2>8. Employed'
    BY <1>1, <1>2, <2>2, <2>7 DEF Employed, PutPc, LoadPc, Walking
  <2>9. Refreshing'
    BY <1>2, <2>2 DEF Refreshing, Walking
  <2>10. QED
    BY <1>1, <2>6, <2>8, <2>9 DEF Versions
<1>5. QED
  BY <1>3, <1>4

(* Other clients: what the worker holds does not change with the tree.         *)
LEMMA OtherClientVersions == ASSUME Basics, OtherClient PROVE Versions'
<1>1. UNCHANGED <<db, cache, born, th, w>>
  BY DEF OtherClient, OtherPut, OtherDelete
<1>2. /\ clock' \in Nat /\ clock <= clock' /\ remote' \in SUBSET Resource
      /\ \A x \in remote' : x \in remote \/ (clock < x.ver /\ x.ver <= clock' /\ x.kind = "File")
  <2>1. clock \in Nat /\ remote \in SUBSET Resource
    BY BasicFacts
  <2>2. ASSUME NEW p \in OtherPath, OtherPut(p)
        PROVE  /\ clock' \in Nat /\ clock <= clock' /\ remote' \in SUBSET Resource
               /\ \A x \in remote' : x \in remote \/ (clock < x.ver /\ x.ver <= clock' /\ x.kind = "File")
    <3>1. clock' = clock + 1 /\ remote' = PutFile(remote, p, clock + 1, clock + 1) /\ p \in Path
      BY <2>2, StateAssumption DEF OtherPut, Tick
    <3>2. clock + 1 \in Nat /\ clock < clock + 1 /\ clock <= clock + 1
      BY <2>1
    <3>3. remote' \in SUBSET Resource
      BY <2>1, <3>1, <3>2, PutFileType
    <3>4. \A x \in remote' : x \in remote \/ (clock < x.ver /\ x.ver <= clock' /\ x.kind = "File")
      BY <3>1, <3>2 DEF PutFile
    <3>5. QED
      BY <3>1, <3>2, <3>3, <3>4
  <2>3. ASSUME NEW p \in OtherPath, OtherDelete(p)
        PROVE  clock' = clock /\ remote' \subseteq remote
    BY <2>3 DEF OtherDelete, DeleteTree
  <2>4. QED
    BY <2>1, <2>2, <2>3 DEF OtherClient
<1>3. /\ Ground' /\ RowsFit(db, cache, clock') /\ BytesKnown(db, Known', cache)
      /\ \A r \in db.files : r.ver <= clock /\
            \A x \in remote' : x.ver = r.ver => x \in remote
  BY <1>1, <1>2, TreeMoves
<1>4. Employed'
  <2>1. ASSUME NEW x \in w.meta PROVE x.ver <= clock'
    <3>1. x.ver \in Nat /\ x.ver <= clock /\ clock \in Nat
      BY WorkerTypes, BasicFacts DEF Basics, Versions, Employed, Inv, Resource
    <3>2. QED
      BY <1>2, <3>1
  <2>2. ASSUME w.pc = "l_write", NEW r \in db.files, r.id = w.job.file,
               NEW x \in remote', x.path = r.path, x.ver = r.ver
        PROVE  w.data = x.data
    BY <1>3, <2>2 DEF Basics, Versions, Employed
  <2>3. ASSUME w.pc = "l_commit", NEW r \in db.files, r.id = w.job.file
        PROVE  BytesFit(r, remote', cache)
    BY <1>3, <2>3 DEF Basics, Versions, Employed, BytesFit
  <2>4. Employed
    BY DEF Basics, Versions
  <2>5. QED
    BY <1>1, <2>1, <2>2, <2>3, <2>4 DEF Employed
<1>5. Refreshing'
  <2>1. ASSUME w.pc = "f_apply" PROVE Applies(w.tx, w.snap, w.todo, w.gone, Known', cache, clock')
    <3>1. Applies(w.tx, w.snap, w.todo, w.gone, Known, cache, clock) /\ w.tx \in Database
      BY <2>1, RefreshTypes DEF Basics, Versions, Refreshing, Sound
    <3>2. \A x \in Known' : x \in Known \/ (x.ver > clock /\ x.ver \in Nat)
      BY <1>1, <1>2, BasicFacts DEF Known, Resource
    <3>3. RowsFit(w.tx, cache, clock') /\ BytesKnown(w.tx, Known', cache)
      BY <1>2, <3>1, <3>2, BasicFacts, BytesStay DEF Applies
    <3>4. QED
      BY <3>1, <3>3 DEF Applies
  <2>2. QED
    BY <1>1, <2>1 DEF Basics, Versions, Refreshing
<1>6. QED
  BY <1>1, <1>3, <1>4, <1>5 DEF Versions

-----------------------------------------------------------------------------
(* The download of a newer version.                                            *)
LEMMA LoadFacts ==
    ASSUME Basics, w.pc \in LoadPc
    PROVE  /\ w.job \in db.queue /\ w.job.type = "Download" /\ w.job.status = "Leased"
           /\ w.seen = {} /\ \A x \in w.meta : x.ver <= clock
           /\ \E r \in db.files : r.id = w.job.file /\ r.path = w.entry.path
           /\ RowsFit(db, cache, clock) /\ BytesKnown(db, Known, cache)
BY DEF Basics, Versions, Employed, Refreshing, LoadPc, Walking

LEMMA DownloadMarkVersions == ASSUME Basics, DownloadMark PROVE Versions'
<1> DEFINE f == w.job.file
<1>1. /\ w.pc = "l_mark" /\ UNCHANGED <<cache, born, remote, clock, th>>
      /\ db' = SetSync(db, f, "Downloading") /\ Goto("l_get")
  BY DEF DownloadMark, At
<1>2. /\ w.job \in db.queue /\ w.job.type = "Download"
      /\ w.seen = {} /\ \A x \in w.meta : x.ver <= clock
      /\ \E r \in db.files : r.id = f /\ r.path = w.entry.path
      /\ RowsFit(db, cache, clock) /\ BytesKnown(db, Known, cache)
  BY <1>1, LoadFacts DEF LoadPc
<1>3. /\ Tends(db, db', f)
      /\ \A r \in db'.files : r.id = f => \E q \in db.files : q.id = f /\ r.ver = q.ver /\ r.cached = q.cached
  BY <1>1, BasicFacts, SetSyncTends
<1>4. db'.queue = db.queue
  BY <1>1, BasicFacts DEF SetSync, Database
<1>5. RowsFit(db', cache, clock)
  BY <1>2, <1>3, JobRow, TendedRows
<1>6. BytesKnown(db', Known, cache)
  <2>1. f \in Loads(db')
    BY <1>2, <1>4, JobRow DEF Loads
  <2>2. QED
    BY <1>2, <1>3, <2>1, TendedBytes DEF Settles
<1>7. w.job \in db'.queue /\ \E r \in db'.files : r.id = f /\ r.path = w.entry.path
  BY <1>2, <1>3, <1>4 DEF Tends
<1>8. w'.pc = "l_get" /\ w'.job = w.job /\ w'.entry = w.entry /\ w'.meta = w.meta /\ w'.seen = w.seen
  BY <1>1, GotoStays DEF WorkerPc, Basics, Inv
<1>9. QED
  BY <1>1, <1>2, <1>5, <1>6, <1>7, <1>8, JobContinues DEF PutPc, LoadPc

LEMMA DownloadFails ==
    ASSUME Basics, w.pc \in LoadPc, NEW again, w' = [w EXCEPT !.pc = "fail", !.again = again],
           UNCHANGED <<db, cache, born, remote, clock, th>>
    PROVE  Versions'
<1>1. w'.pc = "fail" /\ w'.job = w.job /\ w'.meta = w.meta /\ w'.seen = w.seen
  BY FailStays DEF Basics, Inv
<1>2. QED
  BY <1>1, LoadFacts, JobContinues DEF PutPc, LoadPc

LEMMA DownloadGetVersions == ASSUME Basics, DownloadGet PROVE Versions'
<1> DEFINE f == w.job.file
           found == Meta(remote, w.entry.path)
<1>1. w.pc = "l_get" /\ UNCHANGED <<db, cache, born, remote, clock, th>> /\ w \in WorkerState
  BY WorkerTypes DEF DownloadGet, At, Basics, Inv
<1>2. CASE w' = [w EXCEPT !.pc = "fail", !.again = FALSE]
  BY <1>1, <1>2, DownloadFails DEF LoadPc
<1>3. CASE found # {} /\ w' = [w EXCEPT !.pc = "l_write", !.data = The(found).data]
  <2>1. /\ w'.pc = "l_write" /\ w'.job = w.job /\ w'.entry = w.entry /\ w'.meta = w.meta
        /\ w'.seen = w.seen /\ w'.data = The(found).data
    BY <1>1, <1>3 DEF WorkerState
  <2>2. PICK q \in db.files : q.id = f /\ q.path = w.entry.path
    BY <1>1, LoadFacts DEF LoadPc
  <2>3. ASSUME NEW r \in db.files, r.id = f, NEW x \in remote, x.path = r.path
        PROVE  w'.data = x.data
    <3>1. r = q
      BY <2>2, <2>3, BasicFacts DEF Tidy, IdsOnce
    <3>2. The(found) \in remote /\ The(found).path = w.entry.path
      BY <1>3 DEF Meta, The
    <3>3. The(found) = x
      BY <2>2, <2>3, <3>1, <3>2, BasicFacts
    <3>4. QED
      BY <2>1, <3>3
  <2> HIDE DEF found
  <2>4. QED
    BY <1>1, <2>1, <2>2, <2>3, LoadFacts, JobContinues DEF PutPc, LoadPc
<1>4. QED
  BY <1>1, <1>2, <1>3 DEF DownloadGet

LEMMA DownloadWriteVersions == ASSUME Basics, DownloadWrite PROVE Versions'
<1> DEFINE f == w.job.file
<1>1. /\ w.pc = "l_write" /\ UNCHANGED <<db, born, remote, clock, th>>
      /\ cache' = [cache EXCEPT ![f] = w.data] /\ Goto("l_commit")
  BY DEF DownloadWrite, At
<1>2. /\ w.job \in db.queue /\ w.job.type = "Download" /\ w.job.status = "Leased"
      /\ w.seen = {} /\ \A x \in w.meta : x.ver <= clock
      /\ \E r \in db.files : r.id = f /\ r.path = w.entry.path
      /\ RowsFit(db, cache, clock) /\ BytesKnown(db, Known, cache)
  BY <1>1, LoadFacts DEF LoadPc
<1>3. /\ \A r \in db.files : r.id = f => r.cached
      /\ f \in born /\ f \in FileId /\ f \in Loads(db)
  BY <1>2, JobRow
<1>4. cache'[f] = w.data /\ \A i \in FileId : i # f => cache'[i] = cache[i]
  BY <1>1, <1>3, BasicFacts
<1>5. \A r \in db.files : r.id \in FileId
  BY BasicFacts DEF Database, Row
<1>6. w'.pc = "l_commit" /\ w'.job = w.job /\ w'.entry = w.entry /\ w'.meta = w.meta /\ w'.seen = w.seen
  BY <1>1, GotoStays DEF WorkerPc, Basics, Inv
<1>7. Known' = Known
  BY <1>1, <1>6 DEF Known
<1>8. RowsFit(db, cache', clock)
  BY <1>2, <1>3, <1>4, <1>5 DEF RowsFit
<1>9. BytesKnown(db, Known, cache')
  BY <1>2, <1>3, <1>4, <1>5 DEF BytesKnown, Settles, BytesFit
<1>10. Ground'
  <2>1. \A i \in FileId \ born : cache'[i] = NoData
    BY <1>3, <1>4 DEF Basics, Versions, Ground
  <2>2. QED
    BY <1>1, <1>7, <2>1 DEF Basics, Versions, Ground
<1>11. Employed'
  <2>1. ASSUME NEW r \in db.files, r.id = f PROVE BytesFit(r, remote, cache')
    <3>1. \A x \in remote : x.path = r.path /\ x.ver = r.ver => w.data = x.data
      BY <1>1, <2>1 DEF Basics, Versions, Employed
    <3>2. QED
      BY <1>4, <2>1, <3>1 DEF BytesFit
  <2>2. QED
    BY <1>1, <1>2, <1>6, <2>1 DEF Employed, PutPc, LoadPc, Walking
<1>12. Refreshing'
  BY <1>2, <1>6 DEF Refreshing, Walking
<1>13. QED
  BY <1>1, <1>7, <1>8, <1>9, <1>10, <1>11, <1>12 DEF Versions

LEMMA DownloadCommitVersions == ASSUME Basics, DownloadCommit PROVE Versions'
<1> DEFINE f == w.job.file
           g == SetCached(db, f, "Synced")
<1>1. /\ w.pc = "l_commit" /\ UNCHANGED <<cache, born, remote, clock, th>> /\ Finish
      /\ db' = DropOp(g, w.job.id)
  BY DEF DownloadCommit, At
<1>2. /\ w.job \in db.queue /\ w.job.type = "Download" /\ w.seen = {}
      /\ RowsFit(db, cache, clock) /\ BytesKnown(db, Known, cache)
  BY <1>1, LoadFacts DEF LoadPc
<1>3. /\ \A r \in db.files : r.id = f => r.cached /\ r.ver <= clock
      /\ \A r \in db.files : r.id = f => BytesFit(r, remote, cache)
  BY <1>1, <1>2, JobRow DEF Basics, Versions, Employed
<1>4. /\ Tends(db, g, f)
      /\ \A r \in g.files : r.id = f =>
            r.sync = "Synced" /\ \E q \in db.files : q.id = f /\ r.path = q.path /\ r.ver = q.ver
  <2>1. db \in Database /\ \A r \in db.files : r.id = f => r.cached
    BY <1>3, BasicFacts
  <2>2. QED
    BY <2>1, SetCachedTends
<1>5. g \in Database /\ g.queue = db.queue
  <2>1. Sound(g)
    BY BasicFacts, SetCachedFollows DEF Follows, SyncState
  <2>2. QED
    BY <2>1, BasicFacts DEF Sound, SetCached, Database
<1> HIDE DEF g
<1>6. Tends(g, db', f) /\ db'.files = g.files
  <2>1. \A o \in g.queue : o.id = w.job.id => o.file = f
    BY <1>1, <1>5, BasicFacts
  <2>2. QED
    BY <1>1, <1>5, <2>1, DropOpTends DEF DropOp, Database
<1>7. Tends(db, db', f)
  BY <1>4, <1>6, TendsOn
<1>8. RowsFit(db', cache, clock)
  <2>1. \A r \in db'.files : r.id = f => (r.sync \in Unsynced => r.cached) /\ r.ver <= clock
    BY <1>3, <1>4, <1>6 DEF Unsynced
  <2>2. QED
    BY <1>2, <1>7, <2>1, TendedRows
<1>9. BytesKnown(db', Known, cache)
  <2>1. \A r \in db'.files : r.id = f => BytesFit(r, Known, cache)
    BY <1>2, <1>3, <1>4, <1>6 DEF BytesFit, Known
  <2>2. QED
    BY <1>2, <1>7, <2>1, TendedBytes DEF Settles
<1>10. QED
  BY <1>1, <1>8, <1>9, JobFinished DEF Basics

(* No other step of the worker can be taken: nothing is deleted, made or       *)
(* renamed without calls.                                                      *)
LEMMA WorkerVersions == ASSUME CopiesApart, Basics, WorkerStep PROVE Versions'
<1>1. w.pc \notin {"d_call", "d_commit", "m_call", "m_fetch", "m_commit",
                   "r_probe", "r_delete", "r_move", "r_fetch", "r_commit"}
  BY DEF Basics, Versions, Employed, PutPc, LoadPc, Walking
<1>2. CASE DeleteCall \/ DeleteCommit \/ MkdirCall \/ MkdirFetch \/ MkdirSynced
           \/ RenameProbe \/ RenameDelete \/ RenameMove \/ RenameFetch \/ RenameSynced
  BY <1>1, <1>2 DEF DeleteCall, DeleteCommit, MkdirCall, MkdirFetch, MkdirSynced,
     RenameProbe, RenameDelete, RenameMove, RenameFetch, RenameSynced, At
<1>3. CASE Poll
  <2>1. UNCHANGED <<db, cache, born, remote, clock, th, w>>
    BY <1>3 DEF Poll, vars
  <2>2. QED
    BY <2>1 DEF Basics, Versions, Ground, Employed, Refreshing, Known
<1>4. QED
  BY <1>2, <1>3, RecoverLeaseVersions, LeaseVersions, StartVersions, FailVersions,
     UploadMarkVersions, UploadLooksVersions, UploadConflictVersions, UploadFinishVersions,
     UploadPutVersions, UploadCommitVersions, DownloadMarkVersions, DownloadGetVersions,
     DownloadWriteVersions, DownloadCommitVersions DEF WorkerStep


LEMMA NetworkVersions == ASSUME Basics, NetworkFails PROVE Versions'
<1>1. UNCHANGED <<db, cache, born, remote, clock, th>>
  BY DEF NetworkFails
<1>2. w.pc \notin {"d_call", "m_call", "m_fetch", "r_probe", "r_delete", "r_move", "r_fetch"}
  BY DEF Basics, Versions, Employed, PutPc, LoadPc, Walking
<1>3. ASSUME w.pc \in {"u_check", "u_put", "u_fetch"}, CallFails PROVE Versions'
  <2>1. PICK again : w' = [w EXCEPT !.pc = "fail", !.again = again]
    BY <1>3 DEF CallFails
  <2>2. w'.pc = "fail" /\ w'.job = w.job /\ w'.meta = w.meta /\ w'.seen = w.seen
    BY <2>1, FailStays DEF Basics, Inv
  <2>3. w.pc \in PutPc /\ w'.pc \notin PutPc
    BY <1>3, <2>2 DEF PutPc
  <2>4. QED
    BY <1>1, <2>2, <2>3, PutLooks
<1>4. ASSUME w.pc = "l_get", CallFails PROVE Versions'
  <2>1. PICK again : w' = [w EXCEPT !.pc = "fail", !.again = again]
    BY <1>4 DEF CallFails
  <2>2. QED
    BY <1>1, <1>4, <2>1, DownloadFails DEF LoadPc
<1>5. CASE Abandon
  BY <1>1, <1>5, JobAbandoned DEF Abandon, Basics
<1>6. QED
  BY <1>2, <1>3, <1>4, <1>5 DEF NetworkFails, CallAbandoned, At
-----------------------------------------------------------------------------
(* The refresh: what it has seen of the tree.                                  *)
LEMMA WalkVersions ==
    ASSUME Basics, w.pc \in Walking, w'.pc \in Walking, w'.job = w.job, w'.meta = w.meta,
           w'.seen \subseteq Known, \A x, y \in w'.seen : x.path = y.path => x = y,
           w'.pc = "f_begin" => w'.snap = db.files,
           w'.pc = "f_apply" =>
              /\ w'.snap = db.files /\ w'.todo \subseteq w'.seen
              /\ w'.gone \subseteq {l \in w'.snap : ~Exists(w'.seen, l.path)}
              /\ Applies(w'.tx, db.files, w'.todo, w'.gone, Known, cache, clock),
           UNCHANGED <<db, cache, born, remote, clock, th>>
    PROVE  Versions'
<1>1. Known' \subseteq Known
  BY DEF Known
<1>2. \A d : BytesKnown(d, Known, cache) => BytesKnown(d, Known', cache)
  BY <1>1 DEF BytesKnown, Settles, BytesFit
<1>3. Ground'
  BY <1>1 DEF Basics, Versions, Ground
<1>4. Employed'
  <2>1. w.job.type = "RefreshTree" /\ \A x \in w.meta : x.ver <= clock
    BY DEF Basics, Versions, Employed
  <2>2. QED
    BY <2>1 DEF Employed, PutPc, LoadPc, Walking
<1>5. Refreshing'
  <2>1. ASSUME w'.pc = "f_apply"
        PROVE  Applies(w'.tx, w'.snap, w'.todo, w'.gone, Known', cache, clock)
    BY <1>2, <2>1 DEF Applies
  <2>2. QED
    BY <2>1 DEF Refreshing
<1>6. QED
  BY <1>2, <1>3, <1>4, <1>5 DEF Basics, Versions

LEMMA RefreshListVersions == ASSUME Basics, RefreshList PROVE Versions'
<1>1. /\ w.pc = "f_list" /\ UNCHANGED <<db, cache, born, remote, clock, th>> /\ w \in WorkerState
      /\ \A x, y \in w.seen : x.path = y.path => x = y
      /\ \A x, y \in remote : x.path = y.path => x = y
  BY WorkerTypes, BasicFacts DEF RefreshList, At, Basics, Versions, Refreshing, Inv
<1>2. PICK p \in IF w.offset = 0 THEN w.walk ELSE {w.dir} :
        LET found == Page(remote, p, w.offset)
            last == LastPage(remote, p, w.offset)
            walk == (IF last THEN w.walk \ {p} ELSE w.walk)
                       \cup {x.path : x \in {y \in found : y.kind = "Dir"}}
        IN  IF \E x \in Meta(remote, p) : x.kind = "Dir"
            THEN w' = [w EXCEPT !.pc = IF walk = {} THEN "f_snap" ELSE "f_list",
                                !.walk = walk,
                                !.dir = IF last THEN RootPath ELSE p,
                                !.offset = IF last THEN 0 ELSE @ + PageSize,
                                !.seen = Listed(@, found \cup
                                   IF p = RootPath THEN Meta(remote, p) ELSE {})]
            ELSE Abandon
  BY DEF RefreshList
<1> DEFINE found == Page(remote, p, w.offset)
           last == LastPage(remote, p, w.offset)
           walk == (IF last THEN w.walk \ {p} ELSE w.walk)
                       \cup {x.path : x \in {y \in found : y.kind = "Dir"}}
           dir == IF last THEN RootPath ELSE p
           offset == IF last THEN 0 ELSE w.offset + PageSize
           page == found \cup IF p = RootPath THEN Meta(remote, p) ELSE {}
<1>3. Abandon \/ w' = [w EXCEPT !.pc = IF walk = {} THEN "f_snap" ELSE "f_list",
                                !.walk = walk, !.dir = dir, !.offset = offset,
                                !.seen = Listed(@, page)]
  BY <1>2
<1>4. page \subseteq remote
  BY DEF Page, Listing, Meta
<1> HIDE DEF walk, dir, offset, page
<1>5. CASE Abandon
  BY <1>1, <1>5, JobAbandoned DEF Abandon, Basics
<1>6. CASE w' = [w EXCEPT !.pc = IF walk = {} THEN "f_snap" ELSE "f_list",
                          !.walk = walk, !.dir = dir, !.offset = offset, !.seen = Listed(@, page)]
  <2>1. /\ w'.pc \in {"f_snap", "f_list"} /\ w'.job = w.job /\ w'.meta = w.meta
        /\ w'.seen = Listed(w.seen, page)
    BY <1>1, <1>6 DEF WorkerState
  <2>2. w'.seen \subseteq Known
    BY <1>4, <2>1 DEF Listed, Known
  <2>3. \A x, y \in w'.seen : x.path = y.path => x = y
    <3>1. \A x, y \in page : x.path = y.path => x = y
      BY <1>1, <1>4
    <3>2. QED
      BY <1>1, <2>1, <3>1 DEF Listed, Exists, Meta
  <2>4. QED
    BY <1>1, <2>1, <2>2, <2>3, WalkVersions DEF Walking
<1>7. QED
  BY <1>3, <1>5, <1>6

LEMMA RefreshSnapshotVersions == ASSUME Basics, RefreshSnapshot PROVE Versions'
<1>1. /\ w.pc = "f_snap" /\ UNCHANGED <<db, cache, born, remote, clock, th>> /\ w \in WorkerState
      /\ \A x, y \in w.seen : x.path = y.path => x = y
      /\ w' = [w EXCEPT !.pc = "f_begin", !.snap = db.files]
  BY WorkerTypes DEF RefreshSnapshot, At, Basics, Versions, Refreshing, Inv
<1>2. /\ w'.pc = "f_begin" /\ w'.job = w.job /\ w'.meta = w.meta /\ w'.seen = w.seen
      /\ w'.snap = db.files
  BY <1>1 DEF WorkerState
<1>3. QED
  BY <1>1, <1>2, WalkVersions DEF Walking, Known

LEMMA RefreshBeginVersions == ASSUME Basics, RefreshBegin PROVE Versions'
<1> DEFINE gone == {r \in w.snap : r.path # RootPath /\ \A x \in w.seen : x.path # r.path}
<1>1. /\ w.pc = "f_begin" /\ UNCHANGED <<db, cache, born, remote, clock, th>> /\ w \in WorkerState
      /\ \A x, y \in w.seen : x.path = y.path => x = y
      /\ w.snap = db.files
      /\ w' = [w EXCEPT !.pc = "f_apply", !.tx = db, !.todo = w.seen, !.gone = gone]
  BY WorkerTypes DEF RefreshBegin, At, Basics, Versions, Refreshing, Inv
<1>2. /\ w'.pc = "f_apply" /\ w'.job = w.job /\ w'.meta = w.meta /\ w'.seen = w.seen
      /\ w'.snap = db.files /\ w'.tx = db /\ w'.todo = w.seen /\ w'.gone = gone
  BY <1>1 DEF WorkerState
<1>3. gone \subseteq {l \in db.files : ~Exists(w.seen, l.path)}
  BY <1>1 DEF Exists, Meta
<1> HIDE DEF gone
<1>4. Applies(db, db.files, w.seen, gone, Known, cache, clock)
  BY DEF Applies, InPlace, Waiting, Basics, Versions
<1>5. QED
  BY <1>1, <1>2, <1>3, <1>4, WalkVersions DEF Walking, Known


(* A step of the transaction.                                                  *)
LEMMA TxVersions ==
    ASSUME Basics, w.pc = "f_apply", w'.pc = "f_apply", w'.job = w.job, w'.meta = w.meta,
           w'.seen = w.seen, w'.snap = w.snap, w'.todo \subseteq w.todo, w'.gone \subseteq w.gone,
           born \subseteq born', \A i \in FileId : cache'[i] \in {cache[i], NoData},
           UNCHANGED <<db, remote, clock, th>>,
           Applies(w'.tx, w.snap, w'.todo, w'.gone, Known, cache', clock)
    PROVE  Versions'
<1>1. Known' = Known
  BY DEF Known
<1>2. RowsFit(db, cache', clock) /\ BytesKnown(db, Known, cache')
  BY BasicFacts, BytesDropped DEF Basics, Versions
<1>3. Ground'
  BY <1>1 DEF Basics, Versions, Ground
<1>4. Employed'
  BY DEF Basics, Versions, Employed, PutPc, LoadPc, Walking
<1>5. Refreshing'
  BY <1>1 DEF Basics, Versions, Refreshing, Walking
<1>6. QED
  BY <1>1, <1>2, <1>3, <1>4, <1>5 DEF Versions

LEMMA TxFacts ==
    ASSUME Basics, w.pc = "f_apply"
    PROVE  /\ w.tx \in Database /\ Sound(w.tx) /\ Tidy(w.tx)
           /\ Applies(w.tx, w.snap, w.todo, w.gone, Known, cache, clock)
           /\ w \in WorkerState /\ w.snap = db.files /\ w.todo \subseteq w.seen
           /\ w.gone \subseteq {l \in w.snap : ~Exists(w.seen, l.path)}
           /\ \A r, q \in w.snap : r.id = q.id => r = q
           /\ \A l \in w.snap : /\ l.cached => CachePath(l.path)
                                /\ l.sync \in Unsynced => l.cached
           /\ \A x, y \in w.seen : x.path = y.path => x = y
           /\ \A x \in w.todo : x \in Resource /\ x.ver <= clock /\ (OwnPath(x.path) => x.kind = "File")
<1>1. Sound(w.tx) /\ w \in WorkerState
  BY RefreshTypes, WorkerTypes DEF Basics, Inv
<1>2. Tidy(w.tx)
  BY DEF Basics, Safe, StoresOK, Stores, Locked
<1>3. /\ Applies(w.tx, w.snap, w.todo, w.gone, Known, cache, clock)
      /\ w.snap = db.files /\ w.todo \subseteq w.seen
      /\ w.gone \subseteq {l \in w.snap : ~Exists(w.seen, l.path)}
      /\ \A x, y \in w.seen : x.path = y.path => x = y
  BY DEF Basics, Versions, Refreshing
<1>4. \A r, q \in w.snap : r.id = q.id => r = q
  BY <1>3, BasicFacts DEF Tidy, IdsOnce
<1>5. \A l \in w.snap : (l.cached => CachePath(l.path)) /\ (l.sync \in Unsynced => l.cached)
  BY <1>3 DEF Basics, Versions, RowsFit
<1>6. \A x \in w.todo : x \in Resource /\ x.ver <= clock /\ (OwnPath(x.path) => x.kind = "File")
  BY <1>3, BasicFacts DEF Known, Basics, Versions, Ground
<1>7. QED
  BY <1>1, <1>2, <1>3, <1>4, <1>5, <1>6 DEF Sound

(* A local file of the snapshot steps aside.                                   *)
LEMMA TxAside ==
    ASSUME CopiesApart, Basics, w.pc = "f_apply",
           NEW l \in w.snap, l.cached, l \in w.gone \/ Exists(w.todo, l.path),
           NEW cp \in NextConflictPaths(w.tx, l.path), ~ConflictFails(w.tx, l.id, l.path, cp),
           NEW T \in SUBSET w.todo, NEW G \in SUBSET w.gone, l \notin G, ~Exists(T, l.path)
    PROVE  LET e == ApplyConflict(w.tx, l.id, l.path, cp)
           IN  /\ e \in Database /\ Applies(e, w.snap, T, G, Known, cache, clock)
               /\ \A r \in e.files : r.cached => r.path # l.path
<1> DEFINE e == ApplyConflict(w.tx, l.id, l.path, cp)
<1>1. e \in Database
  <2>1. l.path \in Path /\ l.id \in FileId
    BY RefreshTypes DEF Basics, Row
  <2>2. cp \in Path
    BY <2>1, TxFacts, NextConflictPathsType
  <2>3. QED
    BY <2>1, <2>2, TxFacts, ApplyConflictFollows DEF Follows, Sound
<1>2. /\ Sound(w.tx) /\ Tidy(w.tx) /\ clock \in Nat
      /\ Applies(w.tx, w.snap, w.todo, w.gone, Known, cache, clock)
      /\ \A r, q \in w.snap : r.id = q.id => r = q
  BY TxFacts, BasicFacts
<1>3. \A S \in SUBSET w.todo, H \in SUBSET w.gone :
         l \notin H /\ ~Exists(S, l.path) => Applies(e, w.snap, S, H, Known, cache, clock)
  BY <1>2, AsideApplies
<1>4. \A r \in e.files : r.cached => r.path # l.path
  BY <1>2, AsideApplies
<1>5. QED
  BY <1>1, <1>3, <1>4

LEMMA MergeConflictVersions ==
    ASSUME CopiesApart, Basics, RefreshMerge, NEW res \in w.todo, MergeConflict(res)
    PROVE  Versions'
<1>1. /\ w.pc = "f_apply" /\ FileId \ born # {} /\ UNCHANGED <<db, cache, remote, clock, th>>
  BY DEF RefreshMerge, At
<1>2. PICK l \in Conflicting(res) : \E cp \in NextConflictPaths(w.tx, l.path) :
         IF ConflictFails(w.tx, l.id, l.path, cp)
         THEN Abandon /\ UNCHANGED born
         ELSE LET aside == ApplyConflict(w.tx, l.id, l.path, cp)
              IN  /\ w' = [w EXCEPT !.tx = EnsureRemoteRow(aside, res, "Synced", FreshId),
                                    !.todo = @ \ {res}]
                  /\ BornFor(aside, res)
  BY DEF MergeConflict
<1>3. PICK cp \in NextConflictPaths(w.tx, l.path) :
         IF ConflictFails(w.tx, l.id, l.path, cp)
         THEN Abandon /\ UNCHANGED born
         ELSE LET aside == ApplyConflict(w.tx, l.id, l.path, cp)
              IN  /\ w' = [w EXCEPT !.tx = EnsureRemoteRow(aside, res, "Synced", FreshId),
                                    !.todo = @ \ {res}]
                  /\ BornFor(aside, res)
  BY <1>2
<1>4. CASE ConflictFails(w.tx, l.id, l.path, cp)
  BY <1>1, <1>3, <1>4, JobAbandoned DEF Abandon, Basics
<1>5. CASE ~ConflictFails(w.tx, l.id, l.path, cp)
  <2> DEFINE aside == ApplyConflict(w.tx, l.id, l.path, cp)
             e == EnsureRemoteRow(aside, res, "Synced", FreshId)
  <2>1. w' = [w EXCEPT !.tx = e, !.todo = @ \ {res}] /\ BornFor(aside, res)
    BY <1>3, <1>5
  <2>2. l \in w.snap /\ l.path = res.path /\ l.sync \in Unsynced
    BY DEF Conflicting, Local
  <2>3. l.cached /\ Exists(w.todo, l.path) /\ ~Exists(w.todo \ {res}, l.path) /\ l \notin w.gone
    BY <1>1, <2>2, TxFacts DEF Exists, Meta
  <2>4. /\ aside \in Database /\ Applies(aside, w.snap, w.todo \ {res}, w.gone, Known, cache, clock)
        /\ \A r \in aside.files : r.cached => r.path # res.path
    BY <1>1, <1>5, <2>2, <2>3, TxAside
  <2>5. res \in Resource /\ res.ver <= clock /\ cache[FreshId] = NoData
    BY <1>1, TxFacts DEF FreshId, Basics, Versions, Ground
  <2> HIDE DEF aside
  <2>6. Applies(e, w.snap, w.todo \ {res}, w.gone, Known, cache, clock)
    BY <2>4, <2>5, BesideApplies
  <2> HIDE DEF e
  <2>7. /\ w'.pc = w.pc /\ w'.job = w.job /\ w'.meta = w.meta /\ w'.seen = w.seen
        /\ w'.snap = w.snap /\ w'.todo = w.todo \ {res} /\ w'.gone = w.gone /\ w'.tx = e
    BY <1>1, <2>1, TxFacts DEF WorkerState
  <2>8. born \subseteq born'
    BY <2>1 DEF BornFor
  <2>9. QED
    BY <1>1, <2>6, <2>7, <2>8, TxVersions
<1>6. QED
  BY <1>4, <1>5

LEMMA MergeOtherVersions ==
    ASSUME Basics, RefreshMerge, NEW res \in w.todo, MergeOutdated(res) \/ MergePlain(res)
    PROVE  Versions'
<1>1. /\ w.pc = "f_apply" /\ FileId \ born # {} /\ UNCHANGED <<db, cache, remote, clock, th>>
  BY DEF RefreshMerge, At
<1>2. /\ res \in Resource /\ res.ver <= clock /\ cache[FreshId] = NoData
      /\ OwnPath(res.path) => res.kind = "File"
  BY <1>1, TxFacts DEF FreshId, Basics, Versions, Ground
<1>3. ASSUME NEW e, w' = [w EXCEPT !.tx = e, !.todo = @ \ {res}], BornFor(w.tx, res),
             Applies(e, w.snap, w.todo \ {res}, w.gone, Known, cache, clock)
      PROVE  Versions'
  <2>1. /\ w'.pc = w.pc /\ w'.job = w.job /\ w'.meta = w.meta /\ w'.seen = w.seen
        /\ w'.snap = w.snap /\ w'.todo = w.todo \ {res} /\ w'.gone = w.gone /\ w'.tx = e
    BY <1>1, <1>3, TxFacts DEF WorkerState
  <2>2. born \subseteq born'
    BY <1>3 DEF BornFor
  <2>3. QED
    BY <1>1, <1>3, <2>1, <2>2, TxVersions
<1>4. CASE MergeOutdated(res)
  <2> DEFINE merged == EnsureRemoteRow(w.tx, res, "Downloading", FreshId)
             f == The(RowAt(merged, res.path)).id
             e == Upsert(merged, f, "Download", res.path, RootPath)
  <2>1. w' = [w EXCEPT !.tx = e, !.todo = @ \ {res}] /\ BornFor(w.tx, res) /\ Outdated(res) # {}
    BY <1>4 DEF MergeOutdated
  <2>2. PICK l \in w.snap : l.path = res.path /\ l.cached
    BY <2>1 DEF Outdated, Local
  <2>3. Applies(e, w.snap, w.todo \ {res}, w.gone, Known, cache, clock)
    BY <1>1, <1>2, <2>2, TxFacts, OutdatedApplies
  <2> HIDE DEF e
  <2>4. QED
    BY <1>3, <2>1, <2>3
<1>5. CASE MergePlain(res)
  <2> DEFINE e == EnsureRemoteRow(w.tx, res, "Synced", FreshId)
  <2>1. w' = [w EXCEPT !.tx = e, !.todo = @ \ {res}] /\ BornFor(w.tx, res) /\ Outdated(res) = {}
    BY <1>5 DEF MergePlain
  <2>2. \A l \in w.snap : l.path = res.path /\ l.ver # res.ver /\ l.cached => res.kind # "File"
    BY <1>1, <2>1, TxFacts, NotRoot DEF Outdated, Local
  <2>3. Applies(e, w.snap, w.todo \ {res}, w.gone, Known, cache, clock)
    BY <1>1, <1>2, <2>2, TxFacts, PlainApplies
  <2> HIDE DEF e
  <2>4. QED
    BY <1>3, <2>1, <2>3
<1>6. QED
  BY <1>4, <1>5

LEMMA RefreshMergeVersions == ASSUME CopiesApart, Basics, RefreshMerge PROVE Versions'
BY MergeConflictVersions, MergeOtherVersions DEF RefreshMerge


LEMMA RefreshDropVersions == ASSUME CopiesApart, Basics, RefreshDrop PROVE Versions'
<1>1. /\ w.pc = "f_apply" /\ w.todo = {} /\ UNCHANGED <<db, born, remote, clock, th>>
  BY DEF RefreshDrop, At
<1>2. PICK l \in w.gone : DropRow(l) \/ KeepCopy(l) \/ DropConflict(l)
  BY DEF RefreshDrop
<1>3. /\ l \in w.snap /\ l.id \in FileId /\ cache \in [FileId -> Nat]
      /\ l.sync \in Unsynced => l.cached
  BY <1>1, RefreshTypes, TxFacts, BasicFacts DEF Basics, Row
<1>4. ASSUME NEW e, w' = [w EXCEPT !.tx = e, !.gone = @ \ {l}],
             \A i \in FileId : cache'[i] \in {cache[i], NoData},
             Applies(e, w.snap, {}, w.gone \ {l}, Known, cache', clock)
      PROVE  Versions'
  <2>1. /\ w'.pc = w.pc /\ w'.job = w.job /\ w'.meta = w.meta /\ w'.seen = w.seen
        /\ w'.snap = w.snap /\ w'.todo = w.todo /\ w'.gone = w.gone \ {l} /\ w'.tx = e
    BY <1>1, <1>4, TxFacts DEF WorkerState
  <2>2. QED
    BY <1>1, <1>4, <2>1, TxVersions
<1>5. CASE DropRow(l)
  <2>1. w' = [w EXCEPT !.tx = DeleteRow(w.tx, l.id), !.gone = @ \ {l}]
    BY <1>5 DEF DropRow
  <2>2. \A i \in FileId : cache'[i] \in {cache[i], NoData}
    BY <1>3, <1>5 DEF DropRow
  <2>3. Applies(DeleteRow(w.tx, l.id), w.snap, {}, w.gone \ {l}, Known, cache', clock)
    <3>1. /\ w.tx \in Database /\ Applies(w.tx, w.snap, w.todo, w.gone, Known, cache, clock)
          /\ \A r, q \in w.snap : r.id = q.id => r = q
      BY <1>1, TxFacts
    <3>2. Applies(DeleteRow(w.tx, l.id), w.snap, w.todo, w.gone \ {l}, Known, cache', clock)
      BY <1>1, <1>3, <2>2, <3>1, DeleteRowApplies
    <3>3. QED
      BY <1>1, <3>2
  <2>4. QED
    BY <1>4, <2>1, <2>2, <2>3
<1>6. CASE KeepCopy(l)
  <2>1. w' = [w EXCEPT !.gone = @ \ {l}] /\ cache' = cache
    BY <1>6 DEF KeepCopy
  <2>2. /\ w'.pc = w.pc /\ w'.job = w.job /\ w'.meta = w.meta /\ w'.seen = w.seen
        /\ w'.snap = w.snap /\ w'.todo = w.todo /\ w'.gone = w.gone \ {l} /\ w'.tx = w.tx
    BY <1>1, <2>1, TxFacts DEF WorkerState
  <2>3. Applies(w.tx, w.snap, w.todo, w.gone \ {l}, Known, cache, clock)
    BY <1>1, TxFacts, KeepCopyApplies
  <2>4. QED
    BY <1>1, <2>1, <2>2, <2>3, TxVersions
<1>7. CASE DropConflict(l)
  <2>1. l.cached /\ cache' = cache
    BY <1>3, <1>7 DEF DropConflict
  <2>2. PICK cp \in NextConflictPaths(w.tx, l.path) :
           IF ConflictFails(w.tx, l.id, l.path, cp) THEN Abandon
           ELSE w' = [w EXCEPT !.tx = ApplyConflict(w.tx, l.id, l.path, cp),
                               !.gone = @ \ {l}]
    BY <1>7 DEF DropConflict
  <2>3. CASE ConflictFails(w.tx, l.id, l.path, cp)
    BY <1>1, <2>1, <2>2, <2>3, JobAbandoned DEF Abandon, Basics
  <2>4. CASE ~ConflictFails(w.tx, l.id, l.path, cp)
    <3> DEFINE e == ApplyConflict(w.tx, l.id, l.path, cp)
    <3>1. w' = [w EXCEPT !.tx = e, !.gone = @ \ {l}]
      BY <2>2, <2>4
    <3>2. ~Exists({}, l.path)
      BY DEF Exists, Meta
    <3>3. Applies(e, w.snap, {}, w.gone \ {l}, Known, cache, clock)
      BY <1>1, <1>3, <2>1, <2>4, <3>2, TxAside
    <3> HIDE DEF e
    <3>4. QED
      BY <1>4, <2>1, <3>1, <3>3
  <2>5. QED
    BY <2>3, <2>4
<1>8. QED
  BY <1>2, <1>5, <1>6, <1>7

(* The transaction is the database again.                                      *)
LEMMA RefreshCommitVersions == ASSUME Basics, RefreshCommit PROVE Versions'
<1>1. /\ w.pc = "f_apply" /\ UNCHANGED <<cache, born, remote, clock, th>> /\ db' = w.tx
      /\ w' = [w EXCEPT !.pc = "f_done", !.tx = NoTx, !.seen = {}, !.snap = {}, !.before = 0]
  BY DEF RefreshCommit, At
<1>2. w'.pc = "f_done" /\ w'.job = w.job /\ w'.meta = w.meta /\ w'.seen = {}
  BY <1>1, TxFacts DEF WorkerState
<1>3. RowsFit(db', cache, clock) /\ BytesKnown(db', Known, cache)
  BY <1>1, TxFacts DEF Applies
<1>4. Employed'
  <2>1. w.job.type = "RefreshTree" /\ \A x \in w.meta : x.ver <= clock
    BY <1>1 DEF Basics, Versions, Employed, Walking
  <2>2. QED
    BY <1>1, <1>2, <2>1 DEF Employed, PutPc, LoadPc, Walking
<1>5. QED
  BY <1>1, <1>2, <1>3, <1>4, OutOfRefresh DEF Basics, Walking

LEMMA RefreshDoneVersions == ASSUME Basics, RefreshDone PROVE Versions'
<1> DEFINE f == w.job.file
<1>1. /\ w.pc = "f_done" /\ UNCHANGED <<cache, born, remote, clock, th>> /\ Finish
      /\ db' = DropOp(db, w.job.id)
  BY DEF RefreshDone, At
<1>2. /\ RowsFit(db, cache, clock) /\ BytesKnown(db, Known, cache)
      /\ w.job.type = "RefreshTree"
  BY <1>1 DEF Basics, Versions, Employed
<1>3. \A o \in db.queue : o.id = w.job.id => o.file = f /\ o.type = "RefreshTree"
  BY <1>1, <1>2 DEF Basics, Inv, JobHeld, Held
<1>4. Tends(db, db', f)
  BY <1>1, <1>3, BasicFacts, DropOpTends
<1>5. db'.files = db.files /\ db'.queue = {o \in db.queue : o.id # w.job.id}
  BY <1>1, BasicFacts DEF DropOp, Database
<1>6. Loads(db) \subseteq Loads(db')
  BY <1>3, <1>5 DEF Loads
<1>7. RowsFit(db', cache, clock) /\ BytesKnown(db', Known, cache)
  BY <1>2, <1>4, <1>5, <1>6, QueueTended
<1>8. QED
  BY <1>1, <1>7, JobFinished DEF Basics

LEMMA RefreshVersions == ASSUME CopiesApart, Basics, RefreshStep PROVE Versions'
BY RefreshListVersions, RefreshSnapshotVersions, RefreshBeginVersions, RefreshMergeVersions,
   RefreshDropVersions, RefreshCommitVersions, RefreshDoneVersions DEF RefreshStep
-----------------------------------------------------------------------------
(* Requests and restarts.                                                      *)
LEMMA LeasedStays ==
    ASSUME NEW d \in Database, NEW f, NEW type, NEW from, NEW to,
           NEW o \in d.queue, o.status = "Leased"
    PROVE  o \in Upsert(d, f, type, from, to).queue
<1> DEFINE C == Coalesced(d, f, type)
           e == Upsert(d, f, type, from, to)
<1>1. o \notin C
  BY DEF Coalesced, Runnable
<1>2. CASE ~HasRow(d, f)
  BY <1>2 DEF Upsert
<1>3. CASE HasRow(d, f) /\ C # {}
  <2> DEFINE new(q) == IF q \in C THEN [q EXCEPT !.status = "Pending", !.from = from, !.to = to]
                       ELSE q
  <2>1. e.queue = {new(q) : q \in d.queue}
    BY <1>3 DEF Upsert, Database
  <2>2. new(o) = o
    BY <1>1
  <2> HIDE DEF e, new
  <2>3. o \in e.queue
    BY <2>1, <2>2
  <2>4. QED
    BY <2>3 DEF e
<1>4. CASE HasRow(d, f) /\ C = {}
  BY <1>4 DEF Upsert, Database
<1>5. QED
  BY <1>2, <1>3, <1>4

LEMMA RequestRefreshVersions == ASSUME Basics, RequestRefresh PROVE Versions'
<1> DEFINE e == Upsert(db, Root, "RefreshTree", RootPath, RootPath)
<1>1. w.pc # "f_apply" /\ db' = e /\ UNCHANGED <<cache, born, remote, clock, th, w>>
  BY DEF RequestRefresh, Locked
<1>2. RowsFit(e, cache, clock) /\ BytesKnown(e, Known, cache) /\ e.files = db.files
  BY BasicFacts, RefreshTended DEF Basics, Versions
<1>3. w.job \in db.queue /\ w.job.status = "Leased" => w.job \in e.queue
  BY BasicFacts, LeasedStays
<1> HIDE DEF e
<1>4. Employed'
  <2>1. Employed
    BY DEF Basics, Versions
  <2>2. QED
    BY <1>1, <1>2, <1>3, <2>1 DEF Employed
<1>5. Refreshing'
  BY <1>1, <1>2 DEF Basics, Versions, Refreshing
<1>6. QED
  BY <1>1, <1>2, <1>4, <1>5 DEF Basics, Versions, Ground, Known

LEMMA RestartVersions == ASSUME Basics, CrashRestart PROVE Torn' \/ Versions'
<1>1. CASE Spend("half")
  BY <1>1, HalfTears DEF Basics, Inv
<1>2. CASE Reopen(db)
  <2> DEFINE e == Upsert(db, Root, "RefreshTree", RootPath, RootPath)
  <2>1. db' = e /\ w' = IdleWorker /\ UNCHANGED <<cache, born, remote, clock>>
    BY <1>2 DEF CrashRestart, Reopen
  <2>2. th' = th
    BY DEF CrashRestart, Basics, Versions, Ground, Inv, TypeOK
  <2>3. RowsFit(e, cache, clock) /\ BytesKnown(e, Known, cache)
    BY BasicFacts, RefreshTended DEF Basics, Versions
  <2> HIDE DEF e
  <2>4. w'.pc = "idle" /\ w'.seen = {} /\ w'.meta = {}
    BY <2>1 DEF IdleWorker
  <2>5. Employed'
    BY <2>4 DEF Employed, PutPc, LoadPc, Walking
  <2>6. QED
    BY <2>1, <2>2, <2>3, <2>4, <2>5, OutOfRefresh DEF Basics, Walking
<1>3. QED
  BY <1>1, <1>2 DEF CrashRestart

-----------------------------------------------------------------------------
(* The invariant, from the start, as long as there is no call and no kill in   *)
(* the middle of a critical section.                                           *)
Unattended == spent.user = 0 /\ ~Torn => Versions

LEMMA InitUnattended == ASSUME CopiesApart, Inv, Init PROVE Unattended
<1> DEFINE res(e) == [path |-> e.path, kind |-> e.kind, ver |-> 1,
                      data |-> IF e.kind = "File" THEN 1 ELSE NoData]
           row(e) == [id |-> e.id, path |-> e.path, kind |-> e.kind, sync |-> "Synced",
                      ver |-> 1, cached |-> e.local = "cached"]
           known == {x \in InitTree : x.local # "unknown"}
           start == [files |-> {RootRow} \cup {row(e) : e \in known},
                     queue |-> {}, copies |-> {}, nextOp |-> 1]
<1>1. /\ remote = {RootResource} \cup {res(e) : e \in InitTree}
      /\ db = Upsert(start, Root, "RefreshTree", RootPath, RootPath)
      /\ th = [t \in Thread |-> IdleThread] /\ w = IdleWorker
      /\ cache = [f \in FileId |-> IF \E e \in InitTree : e.id = f /\ e.local = "cached"
                                   THEN 1 ELSE NoData]
      /\ born = {Root} \cup {e.id : e \in InitTree} /\ clock = 1
  BY DEF Init
<1>2. \A e \in InitTree : res(e).path = e.path /\ res(e).kind = e.kind /\ res(e).ver = 1
                          /\ (e.kind = "File" => res(e).data = 1)
  OBVIOUS
<1>3. \A e \in InitTree : /\ row(e).id = e.id /\ row(e).path = e.path /\ row(e).sync = "Synced"
                          /\ row(e).ver = 1 /\ row(e).cached = (e.local = "cached")
  OBVIOUS
<1>4. start \in Database
  <2>1. \A e \in InitTree : row(e) \in Row
    BY InitPaths DEF Row, SyncState
  <2>2. start.files \in SUBSET Row
    BY <2>1, RootTypes
  <2>3. QED
    BY <2>2 DEF Database
<1>5. start.files = {RootRow} \cup {row(e) : e \in known} /\ start.queue = {} /\ start.copies = {}
  OBVIOUS
<1>6. \A x \in remote : x = RootResource \/ \E e \in InitTree : x = res(e)
  BY <1>1
<1> HIDE DEF res, row, start
<1>7. /\ RootResource.path = RootPath /\ RootResource.ver = 1
      /\ RootRow.id = Root /\ RootRow.path = RootPath /\ RootRow.cached = FALSE
      /\ RootRow.sync = "Placeholder" /\ RootRow.ver = 0
  BY DEF RootResource, RootRow, NoVersion
<1>8. \A e \in InitTree : e.local = "cached" => /\ e.kind = "File"
                                                /\ CachePath(e.path) /\ OwnPath(e.path)
  <2>1. \A e \in InitTree : Beside(e.path, e.path)
    <3>1. ASSUME NEW e \in InitTree PROVE e.path[Len(e.path)].n \in Nat
      <4>1. e.path[Len(e.path)] \in Name
        BY InitPaths, ElementOfSeq DEF Path
      <4>2. QED
        BY <4>1 DEF Name
    <3>2. QED
      BY <3>1 DEF Beside
  <2>2. QED
    BY <2>1 DEF CopiesApart, CachePath, OwnPath
<1>9. \A e \in InitTree : OwnPath(e.path) => e.kind = "File"
  BY StateAssumption DEF CopiesApart, OwnPath
<1>10. ASSUME NEW f \in FileId, cache[f] # NoData
       PROVE  cache[f] = 1 /\ \E e \in InitTree : e.id = f /\ e.local = "cached"
  BY <1>1, <1>10
<1>11. Known = remote
  BY <1>1 DEF Known, IdleWorker
<1>12. Ground
  <2>1. ASSUME NEW f \in FileId \ born PROVE cache[f] = NoData
    BY <1>1, <1>10
  <2>2. ASSUME NEW x \in Known PROVE x.ver <= clock /\ (OwnPath(x.path) => x.kind = "File")
    BY <1>1, <1>2, <1>6, <1>7, <1>9, <1>11, NotRoot
  <2>3. QED
    BY <1>1, <2>1, <2>2 DEF Ground
<1>13. Employed /\ Refreshing
  BY <1>1 DEF Employed, Refreshing, IdleWorker, PutPc, LoadPc, Walking
<1>14. RowsFit(start, cache, clock)
  <2>1. ASSUME NEW r \in start.files
        PROVE  /\ r.cached => CachePath(r.path) /\ OwnPath(r.path)
               /\ r.sync \in Unsynced => r.cached
               /\ ~r.cached => cache[r.id] = NoData
               /\ r.ver <= clock
    <3>1. CASE r = RootRow
      <4>1. \A e \in InitTree : e.id # Root
        BY InitPaths
      <4>2. cache[Root] = NoData
        BY <1>10, <4>1, RootAssumption
      <4>3. QED
        BY <1>1, <1>7, <3>1, <4>2 DEF Unsynced
    <3>2. ASSUME NEW e \in known, r = row(e)
          PROVE  /\ r.cached => CachePath(r.path) /\ OwnPath(r.path)
                 /\ r.sync \in Unsynced => r.cached
                 /\ ~r.cached => cache[r.id] = NoData
                 /\ r.ver <= clock
      <4>1. e.local # "cached" => cache[e.id] = NoData
        BY <1>10, InitPaths, StateAssumption
      <4>2. e \in InitTree
        OBVIOUS
      <4>3. /\ r.id = e.id /\ r.path = e.path /\ r.sync = "Synced" /\ r.ver = 1
            /\ r.cached = (e.local = "cached")
        BY <1>3, <3>2, <4>2
      <4>4. r.cached => CachePath(r.path) /\ OwnPath(r.path)
        BY <1>8, <4>2, <4>3
      <4>5. r.sync \notin Unsynced
        BY <4>3 DEF Unsynced
      <4>6. ~r.cached => cache[r.id] = NoData
        BY <4>1, <4>3
      <4>7. r.ver <= clock
        BY <1>1, <4>3
      <4>8. QED
        BY <4>4, <4>5, <4>6, <4>7
    <3>3. QED
      BY <1>5, <3>1, <3>2
  <2>2. QED
    BY <1>5, <2>1 DEF RowsFit
<1>15. BytesKnown(start, Known, cache)
  <2>1. ASSUME NEW r \in start.files, NEW x \in Known, x.path = r.path
        PROVE  cache[r.id] \in {NoData, x.data}
    <3>1. r.id \in FileId
      BY <1>4 DEF Database, Row
    <3>2. SUFFICES ASSUME cache[r.id] # NoData PROVE cache[r.id] = x.data
      OBVIOUS
    <3>3. PICK e \in InitTree : e.id = r.id /\ e.local = "cached"
      BY <1>10, <3>1, <3>2
    <3>4. r # RootRow
      BY <1>7, <3>3, InitPaths
    <3>5. r = row(e)
      BY <1>3, <1>5, <3>3, <3>4, StateAssumption
    <3>6. PICK g \in InitTree : x = res(g)
      BY <1>3, <1>6, <1>7, <1>11, <2>1, <3>5, StateAssumption
    <3>7. g = e
      BY <1>2, <1>3, <2>1, <3>5, <3>6, StateAssumption
    <3>8. QED
      BY <1>2, <1>8, <1>10, <3>1, <3>2, <3>3, <3>6, <3>7
  <2>2. QED
    BY <2>1 DEF BytesKnown, Settles, BytesFit
<1>16. RowsFit(db, cache, clock) /\ BytesKnown(db, Known, cache)
  BY <1>1, <1>4, <1>14, <1>15, RefreshTended
<1>17. QED
  BY <1>12, <1>13, <1>16 DEF Unattended, Versions

(* Calls and torn critical sections are counted.                               *)
LEMMA NoCallsYet ==
    ASSUME Inv, [Next]_vars, spent'.user = 0, ~Torn'
    PROVE  spent.user = 0 /\ ~Torn /\ ~Spend("user")
<1>1. spent \in [EventKind -> Nat] /\ "user" \in EventKind
  BY DEF Inv, TypeOK, Events, EventKind
<1>2. ~Torn
  BY NextCounted, TornStays DEF Inv
<1>3. spent.user = 0 /\ ~Spend("user")
  <2>1. CASE UNCHANGED spent
    BY <1>1, <2>1 DEF Spend
  <2>2. ASSUME NEW kind, Spend(kind) PROVE spent.user = 0 /\ ~Spend("user")
    <3>1. spent' = [spent EXCEPT ![kind] = @ + 1]
      BY <2>2 DEF Spend
    <3>2. spent'.user \in {spent.user, spent.user + 1} /\ spent.user \in Nat
      BY <1>1, <3>1
    <3>3. Spend("user") => spent'.user = spent.user + 1
      BY <1>1 DEF Spend
    <3>4. QED
      BY <3>2, <3>3
  <2>3. QED
    BY <2>1, <2>2, NextCounted DEF Counted
<1>4. QED
  BY <1>2, <1>3

LEMMA UnattendedKept ==
    ASSUME CopiesApart, Inv, Safe, RefreshInv, Unattended, [Next]_vars PROVE Unattended'
<1>1. SUFFICES ASSUME spent'.user = 0, ~Torn' PROVE Versions'
  BY DEF Unattended
<1>2. Versions /\ ~Spend("user")
  BY <1>1, NoCallsYet DEF Unattended
<1>3. Basics
  BY <1>2 DEF Basics
<1>4. \A t \in Thread : ~Call(t) /\ ~CallStep(t)
  <2>1. \A t \in Thread : th[t].pc = "idle"
    BY <1>2 DEF Versions, Ground, IdleThread
  <2>2. QED
    BY <1>2, <2>1 DEF Call, CreateFile, MakeDir, WriteFile, Unlink, Rename, ReadFile, MayCall,
       CallStep, CreateCommit, MkdirCommit, WriteCopy, WriteCommit, UnlinkCommit, RenameCommit,
       ReadDownload, ReadDownloadFails, ReadStore, ReadCommit
<1>5. CASE UNCHANGED vars
  <2>1. UNCHANGED <<db, cache, born, remote, clock, th, w>>
    BY <1>5 DEF vars
  <2>2. QED
    BY <1>2, <2>1 DEF Versions, Ground, Employed, Refreshing, Known
<1>6. QED
  BY <1>1, <1>3, <1>4, <1>5, WorkerVersions, RefreshVersions, NetworkVersions, OtherClientVersions,
     RequestRefreshVersions, RestartVersions DEF Next

(* Once nothing waits for a download, the versions pin the bytes.              *)
LEMMA UnattendedContent == ASSUME Unattended PROVE VersionPinsContent
<1>1. SUFFICES ASSUME Quiescent, spent.user = 0, ~Torn,
                      NEW r \in db.files, NEW x \in Meta(remote, r.path),
                      r.sync = "Synced", r.ver = x.ver, \A c \in db.copies : c[1] # r.id
               PROVE  cache[r.id] \in {NoData, x.data}
  BY DEF VersionPinsContent
<1>2. Settles(db, r, Known, cache)
  BY <1>1 DEF Unattended, Versions, BytesKnown
<1>3. Loads(db) = {}
  BY <1>1 DEF Loads, Quiescent
<1>4. BytesFit(r, Known, cache)
  BY <1>1, <1>2, <1>3 DEF Settles, CopyIds
<1>5. x \in Known /\ x.path = r.path
  BY <1>1 DEF Known, Meta
<1>6. QED
  BY <1>1, <1>4, <1>5 DEF BytesFit

(* Without calls and torn critical sections, the bytes of a Synced file are    *)
(* those that the server has at the version of its row, whatever other         *)
(* clients, faults and restarts do: a row that takes a newer version from a     *)
(* listing (reconcile_remote_tree) has a download queued in the same            *)
(* transaction, and one that keeps its version keeps its place; what steps      *)
(* aside is a conflict copy.  For a start without cached files below what a     *)
(* conflict copy may be called (CopiesApart).                                   *)
THEOREM VersionsPinContent ==
    ASSUME CopiesApart PROVE Spec => []VersionPinsContent
<1>1. Init => Inv /\ Safe /\ RefreshInv /\ Unattended
  BY InitInv, InitSafe, InitMirrors, InitUnattended
<1>2. (Inv /\ Safe /\ RefreshInv /\ Unattended) /\ [Next]_vars
         => (Inv /\ Safe /\ RefreshInv /\ Unattended)'
  BY NextKeeps, SafeKept, MirrorsKept, UnattendedKept
<1>3. (Inv /\ Safe /\ RefreshInv /\ Unattended) => VersionPinsContent
  BY UnattendedContent
<1>4. QED
  BY <1>1, <1>2, <1>3, PTL DEF Spec
=============================================================================
