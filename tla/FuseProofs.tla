------------------------------ MODULE FuseProofs -----------------------------
(****************************************************************************)
(* Theorems about the inode table and the write handles, for any number of   *)
(* threads, names, rows and requests: every path that path_to_ino knows      *)
(* leads to the inode that has it (Inv); what the variables hold and who is   *)
(* alone on a handle (TInv); and a close leaves the file of a steady handle   *)
(* with the bytes of the handle, wherever it was renamed to (Keep).           *)
(****************************************************************************)
EXTENDS FuseHandles, FunctionTheorems, FiniteSetTheorems, SequenceTheorems, TLAPS

(* Records are updated by EXCEPT, which only changes fields that are there.   *)
IsTable(tab) == {"entries", "byPath", "children", "nextIno"} \subseteq DOMAIN tab

IsEntry(e) == {"path", "size", "parent"} \subseteq DOMAIN e

Resolves(tab) ==
    \A p \in DOMAIN tab.byPath :
        tab.byPath[p] \in DOMAIN tab.entries /\ tab.entries[tab.byPath[p]].path = p

(* next_ino is above every inode that is in use.                             *)
Sound(tab) ==
    /\ IsTable(tab)
    /\ tab.nextIno \in Nat
    /\ \A i \in DOMAIN tab.entries : i \in Nat /\ i < tab.nextIno /\ IsEntry(tab.entries[i])
    /\ Resolves(tab)
-----------------------------------------------------------------------------
LEMMA StaleSound == ASSUME NEW tab, Sound(tab), NEW d PROVE Sound(Stale(tab, d))
BY DEF Sound, IsTable, Resolves, Stale

LEMMA ResizedSound == ASSUME NEW tab, Sound(tab), NEW i, NEW n PROVE Sound(Resized(tab, i, n))
BY DEF Sound, IsTable, IsEntry, Resolves, Resized

LEMMA RemovedSound == ASSUME NEW tab, Sound(tab), NEW i PROVE Sound(Removed(tab, i))
<1> DEFINE gone == Subtree(tab, i) \cap DOMAIN tab.entries
           rem == Removed(tab, i)
<1>1. /\ rem.entries = [j \in DOMAIN tab.entries \ gone |-> tab.entries[j]]
      /\ rem.byPath = [p \in DOMAIN tab.byPath \ {tab.entries[j].path : j \in gone} |-> tab.byPath[p]]
      /\ rem.nextIno = tab.nextIno
      /\ IsTable(rem)
  BY DEF Removed, Less, Sound, IsTable
<1>2. Resolves(rem)
  BY <1>1 DEF Sound, Resolves
<1>3. QED
  BY <1>1, <1>2 DEF Sound

LEMMA UpdatedSound ==
    ASSUME NEW tab, Sound(tab), NEW i \in DOMAIN tab.entries, NEW r, NEW d
    PROVE  Sound(Updated(tab, i, r, d))
<1> DEFINE new == [path |-> r.path, kind |-> r.kind, size |-> r.size, parent |-> d]
           old == tab.entries[i].path
           up == Updated(tab, i, r, d)
<1>1. /\ up.entries = [tab.entries EXCEPT ![i] = new]
      /\ up.byPath = IF old = r.path THEN tab.byPath ELSE With(Less(tab.byPath, {old}), r.path, i)
      /\ up.nextIno = tab.nextIno
      /\ IsTable(up)
  BY DEF Updated, Sound, IsTable
<1>2. Resolves(up)
  <2>1. CASE old = r.path
    BY <1>1, <2>1 DEF Sound, Resolves
  <2>2. CASE old # r.path
    BY <1>1, <2>2 DEF Sound, Resolves, With, Less
  <2>3. QED
    BY <2>1, <2>2
<1>3. \A j \in DOMAIN up.entries : j \in Nat /\ j < up.nextIno /\ IsEntry(up.entries[j])
  BY <1>1 DEF Sound, IsEntry
<1>4. QED
  BY <1>1, <1>2, <1>3 DEF Sound

LEMMA MovedSound ==
    ASSUME NEW tab, Sound(tab), NEW i \in DOMAIN tab.entries, NEW new, NEW d
    PROVE  Sound(Moved(tab, i, new, d))
<1> DEFINE old == tab.entries[i].path
           tree == Subtree(tab, i) \cap DOMAIN tab.entries
           to == [j \in tree |-> LET p == tab.entries[j].path
                                 IN  IF IsPrefix(old, p) THEN InPlace(old, new, p) ELSE new]
           last(p) == CHOOSE j \in tree : to[j] = p /\ (j = i => \A k \in tree : to[k] = p => k = i)
           news == {to[j] : j \in tree}
           rest == Less(tab.byPath, {tab.entries[j].path : j \in tree})
           mov == Moved(tab, i, new, d)
           ent(j) == [tab.entries[j] EXCEPT !.path = to[j], !.parent = IF j = i THEN d ELSE @]
<1>1. /\ mov.entries = [j \in DOMAIN tab.entries |-> IF j \notin tree THEN tab.entries[j] ELSE ent(j)]
      /\ mov.byPath = [p \in DOMAIN rest \cup news |-> IF p \in news THEN last(p) ELSE rest[p]]
      /\ mov.nextIno = tab.nextIno
      /\ IsTable(mov)
  BY DEF Moved, Sound, IsTable
<1>2. ASSUME NEW p \in news PROVE last(p) \in tree /\ to[last(p)] = p
  <2> HIDE DEF tree, to
  <2>1. PICK j \in tree : to[j] = p
    BY <1>2
  <2>2. \E k \in tree : to[k] = p /\ (k = i => \A l \in tree : to[l] = p => l = i)
    BY <2>1
  <2>3. QED
    BY <2>2
<1>3. ASSUME NEW p \in DOMAIN rest
      PROVE  rest[p] \in DOMAIN tab.entries \ tree /\ tab.entries[rest[p]].path = p
  BY <1>3 DEF Less, Sound, Resolves
<1>4. \A j \in tree : ent(j).path = to[j] /\ IsEntry(ent(j))
  <2> HIDE DEF to
  <2>1. QED
    BY DEF Sound, IsEntry
<1> HIDE DEF tree, to, last, news, rest, mov, ent
<1>5. tree \subseteq DOMAIN tab.entries
  BY DEF tree
<1>6. Resolves(mov)
  BY <1>1, <1>2, <1>3, <1>4, <1>5 DEF Resolves
<1>7. \A j \in DOMAIN mov.entries : j \in Nat /\ j < mov.nextIno /\ IsEntry(mov.entries[j])
  BY <1>1, <1>4 DEF Sound
<1>8. QED
  BY <1>1, <1>6, <1>7 DEF Sound, mov

(* A finite set has its numbers.                                              *)
LEMMA NumbersExist ==
    ASSUME NEW S, IsFiniteSet(S), NEW from \in Nat
    PROVE  /\ Cardinality(S) \in Nat
           /\ Numbers(S, from) \in [S -> from .. from + Cardinality(S) - 1]
           /\ IsInjective(Numbers(S, from))
<1> DEFINE n == Cardinality(S)
<1>1. n \in Nat /\ ExistsBijection(1 .. n, S)
  BY FS_CardinalityType
<1>2. PICK g \in Bijection(S, 1 .. n) : TRUE
  BY <1>1, Fun_ExistsBijSymmetric DEF ExistsBijection
<1>3. g \in [S -> 1 .. n] /\ IsInjective(g)
  BY <1>2 DEF Bijection, Injection
<1> DEFINE f == [x \in S |-> g[x] + from - 1]
<1>4. f \in [S -> from .. from + n - 1]
  BY <1>1, <1>3
<1>5. IsInjective(f)
  <2>1. \A x, y \in S : f[x] = f[y] => g[x] = g[y]
    BY <1>1, <1>3
  <2>2. QED
    BY <1>3, <2>1 DEF IsInjective
<1>6. \E h \in [S -> from .. from + n - 1] : IsInjective(h)
  BY <1>4, <1>5
<1>7. QED
  BY <1>1, <1>6 DEF Numbers

(* The image of a finite set of records under one of their fields, and of a  *)
(* finite set of rows of the sync layer.                                       *)
LEMMA FinitePaths == ASSUME NEW S, IsFiniteSet(S) PROVE IsFiniteSet({r.path : r \in S})
<1> DEFINE T == {r.path : r \in S}
           f == [r \in S |-> r.path]
<1>1. f \in Surjection(S, T)
  BY DEF Surjection
<1>2. QED
  BY <1>1, FS_Surjection

LEMMA FiniteListing == ASSUME NEW p, IsFiniteSet(DOMAIN disk) PROVE IsFiniteSet(Listing(p))
<1> DEFINE S == {g \in DOMAIN disk : ParentPath(disk[g].path) = p /\ disk[g].state # "deleting"}
           T == {Stored(g) : g \in S}
           f == [g \in S |-> Stored(g)]
<1>1. IsFiniteSet(S)
  BY FS_Subset
<1>2. f \in Surjection(S, T)
  BY DEF Surjection
<1>3. IsFiniteSet(T)
  <2> HIDE DEF S, T, f
  <2>1. QED
    BY <1>1, <1>2, FS_Surjection
<1>4. Listing(p) = T
  BY DEF Listing
<1>5. QED
  BY <1>3, <1>4

LEMMA UpsertedSound ==
    ASSUME NEW tab, Sound(tab), NEW d, NEW rows, IsFiniteSet(rows)
    PROVE  Sound(Upserted(tab, d, rows))
<1> DEFINE paths == {r.path : r \in rows}
           new == paths \ DOMAIN tab.byPath
           fresh == Numbers(new, tab.nextIno)
           inoOf == [p \in paths \cup DOMAIN tab.byPath |->
                        IF p \in DOMAIN tab.byPath THEN tab.byPath[p] ELSE fresh[p]]
           row(i) == {r \in rows : inoOf[r.path] = i}
           the(i) == CHOOSE r \in row(i) : TRUE
           up == Upserted(tab, d, rows)
           n == Cardinality(new)
<1>1. /\ up.entries = [i \in DOMAIN tab.entries \cup {inoOf[p] : p \in paths} |->
                          IF row(i) = {} THEN tab.entries[i]
                          ELSE [path |-> the(i).path, kind |-> the(i).kind, size |-> the(i).size,
                                parent |-> d]]
      /\ up.byPath = inoOf
      /\ up.nextIno = tab.nextIno + n
      /\ IsTable(up)
  BY DEF Upserted, Sound, IsTable
<1>2. /\ n \in Nat
      /\ fresh \in [new -> tab.nextIno .. tab.nextIno + n - 1]
      /\ \A p, q \in new : fresh[p] = fresh[q] => p = q
  <2>1. IsFiniteSet(new)
    BY FinitePaths, FS_Subset
  <2>2. n \in Nat /\ fresh \in [new -> tab.nextIno .. tab.nextIno + n - 1] /\ IsInjective(fresh)
    BY <2>1, NumbersExist DEF Sound
  <2>3. QED
    BY <2>2 DEF IsInjective
<1> HIDE DEF fresh, n
<1>3. \A p \in DOMAIN tab.byPath : inoOf[p] = tab.byPath[p] /\ inoOf[p] \in DOMAIN tab.entries
                                  /\ tab.entries[inoOf[p]].path = p
  BY DEF Sound, Resolves
<1>4. \A p \in new : inoOf[p] \in Nat /\ tab.nextIno <= inoOf[p] /\ inoOf[p] < tab.nextIno + n
                    /\ inoOf[p] \notin DOMAIN tab.entries
                    /\ inoOf[p] = fresh[p]
  BY <1>2 DEF Sound
<1>5. \A r \in rows : r.path \in DOMAIN inoOf
  OBVIOUS
<1>6. DOMAIN inoOf = new \cup DOMAIN tab.byPath
  OBVIOUS
<1> HIDE DEF inoOf, new
<1>7. \A p, q \in DOMAIN inoOf : inoOf[p] = inoOf[q] => p = q
  <2>1. \A p, q \in new : inoOf[p] = inoOf[q] => p = q
    BY <1>2, <1>4
  <2>2. QED
    BY <1>3, <1>4, <1>6, <2>1
<1>8. ASSUME NEW p \in DOMAIN inoOf
      PROVE  inoOf[p] \in DOMAIN up.entries /\ up.entries[inoOf[p]].path = p
  <2>1. CASE row(inoOf[p]) = {}
    <3>1. p \notin paths
      BY <2>1
    <3>2. p \in DOMAIN tab.byPath
      BY <3>1, <1>6 DEF new
    <3>3. QED
      BY <1>1, <1>3, <2>1, <3>2
  <2>2. CASE row(inoOf[p]) # {}
    <3>1. the(inoOf[p]) \in rows /\ inoOf[the(inoOf[p]).path] = inoOf[p]
      BY <2>2
    <3>2. the(inoOf[p]).path = p
      BY <3>1, <1>5, <1>7
    <3>3. p \in paths
      BY <3>1, <3>2
    <3>4. QED
      BY <1>1, <2>2, <3>2, <3>3
  <2>3. QED
    BY <2>1, <2>2
<1>9. ASSUME NEW i \in DOMAIN up.entries
      PROVE  i \in Nat /\ i < up.nextIno /\ IsEntry(up.entries[i])
  <2>1. i \in DOMAIN tab.entries \/ \E p \in DOMAIN inoOf : i = inoOf[p]
    BY <1>1, <1>5
  <2>2. i \in Nat /\ i < up.nextIno
    BY <1>1, <1>2, <1>3, <1>4, <1>6, <2>1 DEF Sound
  <2>3. IsEntry(up.entries[i])
    <3>1. CASE row(i) = {}
      <4>1. i \in DOMAIN tab.entries
        BY <1>1, <3>1
      <4>2. QED
        BY <1>1, <3>1, <4>1 DEF Sound
    <3>2. CASE row(i) # {}
      BY <1>1, <3>2 DEF IsEntry
    <3>3. QED
      BY <3>1, <3>2
  <2>4. QED
    BY <2>2, <2>3
<1>10. Resolves(up)
  BY <1>1, <1>8 DEF Resolves
<1>11. tab.nextIno + n \in Nat
  BY <1>2 DEF Sound
<1>12. QED
  BY <1>1, <1>9, <1>10, <1>11 DEF Sound

LEMMA ReplacedSound ==
    ASSUME NEW tab, Sound(tab), NEW d, NEW rows, IsFiniteSet(rows)
    PROVE  Sound(Replaced(tab, d, rows))
<1> DEFINE up == Upserted(tab, d, rows)
           re == Replaced(tab, d, rows)
<1>1. Sound(up)
  BY UpsertedSound
<1>2. re.entries = up.entries /\ re.byPath = up.byPath /\ re.nextIno = up.nextIno /\ IsTable(re)
  BY <1>1 DEF Replaced, Sound, IsTable
<1> HIDE DEF up, re
<1>3. Sound(re)
  BY <1>1, <1>2 DEF Sound, Resolves
<1>4. QED
  BY <1>3 DEF re
-----------------------------------------------------------------------------
(* The local variables of a request: the rows it has read are finitely many. *)
Local(r) == "rows" \in DOMAIN r /\ IsFiniteSet(r.rows)

Inv ==
    /\ Sound(table)
    /\ IsFiniteSet(DOMAIN disk)
    /\ DOMAIN th = Thread /\ \A t \in Thread : Local(th[t])

(* SetToSeq puts each element of a finite set somewhere, once.                *)
LEMMA TreeInRows ==
    LET row == SetToSeq(Tree)
    IN  /\ row \in Seq(Tree)
        /\ \A x \in Tree : \E k \in 1 .. Len(row) : row[k] = x
        /\ \A j, k \in 1 .. Len(row) : row[j] = row[k] => j = k
<1> DEFINE row == SetToSeq(Tree)
           n == Cardinality(Tree)
<1>1. n \in Nat /\ ExistsBijection(1 .. n, Tree)
  BY HandlesAssumption, FS_CardinalityType
<1>2. \E f \in [1 .. n -> Tree] : IsInjective(f)
  BY <1>1 DEF ExistsBijection, Bijection, Injection
<1>3. row \in [1 .. n -> Tree] /\ IsInjective(row)
  BY <1>2 DEF SetToSeq
<1>4. row \in Injection(1 .. n, Tree) /\ \A j, k \in 1 .. n : row[j] = row[k] => j = k
  BY <1>3 DEF Injection, IsInjective
<1>5. Cardinality(1 .. n) = n
  BY <1>1, FS_Interval
<1> HIDE DEF row, n
<1>6. row \in Surjection(1 .. n, Tree)
  BY <1>4, <1>5, HandlesAssumption, FS_Injection DEF n
<1>7. row \in Seq(Tree) /\ Len(row) = n
  BY <1>1, <1>3
<1>8. QED
  BY <1>4, <1>6, <1>7 DEF row, Surjection

LEMMA InitInv == ASSUME Init PROVE Inv
<1> DEFINE row == SetToSeq(Tree)
           all == 1 .. Len(row)
           inoOf(p) == IF p = <<>> THEN Root ELSE 1 + CHOOSE k \in all : row[k].path = p
           entry(i) == IF i = Root
                       THEN [path |-> <<>>, kind |-> "Dir", size |-> 0, parent |-> Root]
                       ELSE [path |-> row[i - 1].path, kind |-> row[i - 1].kind,
                             size |-> IF row[i - 1].kind = "File" THEN 1 ELSE 0,
                             parent |-> inoOf(ParentPath(row[i - 1].path))]
<1>1. /\ row \in Seq(Tree) /\ Len(row) \in Nat
      /\ \A x \in Tree : \E k \in all : row[k] = x
  BY TreeInRows
<1>2. /\ table.entries = [i \in 1 .. Len(row) + 1 |-> entry(i)]
      /\ table.byPath = [p \in {<<>>} \cup {r.path : r \in Tree} |-> inoOf(p)]
      /\ table.nextIno = Len(row) + 2
      /\ IsTable(table)
  BY DEF Init, IsTable
<1>3. DOMAIN disk = all
  BY DEF Init
<1> HIDE DEF row
<1>4. ASSUME NEW r \in Tree, r.path # <<>>
      PROVE  inoOf(r.path) \in 2 .. Len(row) + 1 /\ row[inoOf(r.path) - 1].path = r.path
  <2>1. \E k \in all : row[k].path = r.path
    BY <1>1
  <2> DEFINE at == CHOOSE k \in all : row[k].path = r.path
  <2>2. at \in all /\ row[at].path = r.path
    BY <2>1
  <2>3. inoOf(r.path) = 1 + at
    BY <1>4
  <2> HIDE DEF at, inoOf
  <2>4. QED
    BY <1>1, <2>2, <2>3
<1>5. \A i \in 1 .. Len(row) + 1 : i \in Nat /\ i < Len(row) + 2 /\ IsEntry(entry(i))
  BY <1>1 DEF IsEntry
<1>6. \A p \in DOMAIN table.byPath :
         inoOf(p) \in 1 .. Len(row) + 1 /\ entry(inoOf(p)).path = p
  <2> TAKE p \in DOMAIN table.byPath
  <2>1. CASE p = <<>>
    BY <1>1, <2>1 DEF Root
  <2>2. CASE p # <<>>
    <3>1. PICK r \in Tree : r.path = p
      BY <1>2, <2>2
    <3> DEFINE k == inoOf(p)
    <3>2. k \in 2 .. Len(row) + 1 /\ row[k - 1].path = p
      BY <1>4, <2>2, <3>1
    <3> HIDE DEF inoOf, k
    <3>3. entry(k).path = p /\ k \in 1 .. Len(row) + 1
      BY <1>1, <3>2 DEF Root
    <3>4. QED
      BY <3>3 DEF k
  <2>3. QED
    BY <2>1, <2>2
<1> HIDE DEF entry, inoOf
<1>7. Sound(table)
  BY <1>1, <1>2, <1>5, <1>6 DEF Sound, Resolves
<1>8. IsFiniteSet(DOMAIN disk)
  BY <1>1, <1>3, FS_Interval
<1>9. DOMAIN th = Thread /\ \A t \in Thread : Local(th[t])
  BY FS_EmptySet DEF Init, Idle, Local
<1>10. QED
  BY <1>7, <1>8, <1>9 DEF Inv
-----------------------------------------------------------------------------
(* How the steps change the local variables.                                  *)
LEMMA BecomeLocal ==
    ASSUME Inv, NEW t \in Thread, NEW r, Local(r), Become(t, r)
    PROVE  DOMAIN th' = Thread /\ \A u \in Thread : Local(th'[u])
BY DEF Inv, Become

LEMMA ReturnLocal ==
    ASSUME Inv, NEW t \in Thread, Return(t)
    PROVE  DOMAIN th' = Thread /\ \A u \in Thread : Local(th'[u])
<1>1. Local(Idle)
  BY FS_EmptySet DEF Idle, Local
<1>2. QED
  BY <1>1, BecomeLocal DEF Return

LEMMA GoLocal ==
    ASSUME Inv, NEW t \in Thread, NEW step, Go(t, step)
    PROVE  DOMAIN th' = Thread /\ \A u \in Thread : Local(th'[u])
BY DEF Inv, Go, Local

LEMMA OnwardLocal ==
    ASSUME IsFiniteSet(DOMAIN disk), NEW r, Local(r), NEW step, NEW i, NEW e
    PROVE  Local(Onward(r, step, i, e))
<1>1. Local(Idle) /\ IsFiniteSet({}) /\ IsFiniteSet({e}) /\ IsFiniteSet(Listing(e.path))
  BY FS_EmptySet, FS_Singleton, FiniteListing DEF Idle, Local
<1>2. QED
  BY <1>1 DEF Onward, Local

LEMMA FreshenedLocal ==
    ASSUME IsFiniteSet(DOMAIN disk), NEW r, Local(r), NEW step, NEW i
    PROVE  Local(Freshened(r, step, i))
<1>1. Local(Idle) /\ \A e : Local(Onward(r, step, i, e))
  BY FS_EmptySet, OnwardLocal DEF Idle, Local
<1>2. \A x : IsFiniteSet({x})
  BY FS_Singleton
<1>3. QED
  BY <1>1, <1>2 DEF Freshened, Local
-----------------------------------------------------------------------------
(* Next, action by action.                                                    *)
LEMMA NameCallKeeps == ASSUME Inv, NEW t \in Thread, NameCall(t) PROVE Inv'
<1>1. UNCHANGED <<disk, table>>
  BY DEF NameCall
<1>2. \E op, d, n, e, m : Become(t, Freshened(NameRequest(op, d, n, e, m), "r_dir", d))
  BY DEF NameCall
<1>3. \A op, d, n, e, m : Local(NameRequest(op, d, n, e, m))
  BY FS_EmptySet DEF NameRequest, Idle, Local
<1>4. DOMAIN th' = Thread /\ \A u \in Thread : Local(th'[u])
  BY <1>2, <1>3, FreshenedLocal, BecomeLocal DEF Inv
<1>5. QED
  BY <1>1, <1>4 DEF Inv

LEMMA InodeCallKeeps == ASSUME Inv, NEW t \in Thread, InodeCall(t) PROVE Inv'
<1>1. UNCHANGED <<disk, table>>
  BY DEF InodeCall
<1>2. PICK i \in DOMAIN table.entries \ {Root}, op \in {"getattr", "open", "setattr"} :
         Become(t, Freshened([Idle EXCEPT !.op = op, !.ino = i], "r_child", i))
  BY DEF InodeCall
<1>3. Local([Idle EXCEPT !.op = op, !.ino = i])
  BY FS_EmptySet DEF Idle, Local
<1>4. DOMAIN th' = Thread /\ \A u \in Thread : Local(th'[u])
  BY <1>2, <1>3, FreshenedLocal, BecomeLocal DEF Inv
<1>5. QED
  BY <1>1, <1>4 DEF Inv

LEMMA FindKeeps == ASSUME Inv, NEW t \in Thread, FindChild(t) \/ FindParent(t) PROVE Inv'
<1>1. UNCHANGED <<disk, table>>
  BY DEF FindChild, FindParent
<1>2. DOMAIN th' = Thread /\ \A u \in Thread : Local(th'[u])
  <2>1. CASE FindChild(t)
    BY <2>1, FreshenedLocal, BecomeLocal, ReturnLocal DEF Inv, FindChild
  <2>2. CASE FindParent(t)
    BY <2>2, FreshenedLocal, BecomeLocal DEF Inv, FindParent
  <2>3. QED
    BY <2>1, <2>2
<1>3. QED
  BY <1>1, <1>2 DEF Inv

LEMMA RefreshKeeps == ASSUME Inv, NEW t \in Thread, Refresh(t) PROVE Inv'
<1> DEFINE i == th[t].at
           r == CHOOSE r \in th[t].rows : TRUE
           d == table.entries[i].parent
           tab == Updated(table, i, r, d)
<1>1. UNCHANGED disk
  BY DEF Refresh
<1>2. CASE i \in DOMAIN table.entries
  <2>1. table' = tab /\ Become(t, Onward(th[t], Pc(t), i, tab.entries[i]))
    BY <1>2 DEF Refresh
  <2>2. Sound(tab)
    BY <1>2, UpdatedSound DEF Inv
  <2>3. Local(Onward(th[t], Pc(t), i, tab.entries[i]))
    BY OnwardLocal DEF Inv
  <2> HIDE DEF tab
  <2>4. QED
    BY <1>1, <2>1, <2>2, <2>3, BecomeLocal DEF Inv
<1>3. CASE i \notin DOMAIN table.entries
  BY <1>1, <1>3, ReturnLocal DEF Inv, Refresh
<1>4. QED
  BY <1>2, <1>3

LEMMA ReplaceChildrenKeeps == ASSUME Inv, NEW t \in Thread, ReplaceChildren(t) PROVE Inv'
<1>1. table' = Replaced(table, th[t].dir, th[t].rows) /\ UNCHANGED disk
  BY DEF ReplaceChildren
<1>2. Sound(table')
  BY <1>1, ReplacedSound DEF Inv, Local
<1> DEFINE r == th[t]
           next == CASE r.op = "readdir" -> Idle
                     [] r.op \in {"create", "mkdir"} -> [r EXCEPT !.pc = "parent", !.rows = {}]
                     [] OTHER -> [r EXCEPT !.pc = "child", !.rows = {}]
<1>3. Become(t, next) /\ Local(next)
  <2>1. Become(t, next)
    BY DEF ReplaceChildren
  <2>2. Local(next)
    BY FS_EmptySet DEF Inv, Idle, Local
  <2>3. QED
    BY <2>1, <2>2
<1> HIDE DEF next
<1>4. QED
  BY <1>1, <1>2, <1>3, BecomeLocal DEF Inv

LEMMA MakeRowKeeps == ASSUME Inv, NEW t \in Thread, MakeRow(t) PROVE Inv'
<1>1. UNCHANGED table
  BY DEF MakeRow
<1>2. CASE Return(t) /\ UNCHANGED disk
  BY <1>1, <1>2, ReturnLocal DEF Inv
<1>3. CASE ~(Return(t) /\ UNCHANGED disk)
  <2>1. DOMAIN disk' = DOMAIN disk \cup {clock + 1}
    BY <1>3 DEF MakeRow, With
  <2>2. IsFiniteSet(DOMAIN disk')
    BY <2>1, FS_AddElement DEF Inv
  <2> DEFINE r == th[t]
             row == [path |-> r.to, kind |-> IF r.op = "mkdir" THEN "Dir" ELSE "File", size |-> 0]
             next == [r EXCEPT !.pc = "enter", !.file = clock + 1, !.rows = {row}]
  <2>3. Become(t, next)
    BY <1>3 DEF MakeRow
  <2>4. Local(next)
    BY FS_Singleton DEF Inv, Local
  <2> HIDE DEF next
  <2>5. QED
    BY <1>1, <2>2, <2>3, <2>4, BecomeLocal DEF Inv
<1>4. QED
  BY <1>2, <1>3

LEMMA EnterKeeps == ASSUME Inv, NEW t \in Thread, Enter(t) PROVE Inv'
<1>1. /\ table' = Stale(Upserted(table, th[t].dir, th[t].rows), th[t].dir)
      /\ UNCHANGED disk
      /\ Return(t)
  BY DEF Enter
<1>2. Sound(table')
  BY <1>1, UpsertedSound, StaleSound DEF Inv, Local
<1>3. QED
  BY <1>1, <1>2, ReturnLocal DEF Inv

LEMMA OpenKeeps ==
    ASSUME Inv, NEW t \in Thread, Load(t) \/ Insert(t) PROVE Inv'
<1>1. CASE Load(t)
  <2> DEFINE r == th[t]
             next(cut, f, data) == [r EXCEPT !.pc = "insert", !.cut = cut, !.file = f, !.data = data]
  <2>1. Return(t) \/ \E cut, f, data : Become(t, next(cut, f, data))
    BY <1>1 DEF Load
  <2>2. \A cut, f, data : Local(next(cut, f, data))
    BY DEF Inv, Local
  <2>3. UNCHANGED <<disk, table>>
    BY <1>1 DEF Load
  <2> HIDE DEF next
  <2>4. QED
    BY <2>1, <2>2, <2>3, ReturnLocal, BecomeLocal DEF Inv
<1>2. CASE Insert(t)
  <2>1. Return(t) \/ \E r : Become(t, r) /\ Local(r)
    BY <1>2, FS_EmptySet DEF Insert, Inv, Local
  <2>2. UNCHANGED disk /\ (table' = table \/ table' = Resized(table, th[t].ino, 0))
    BY <1>2 DEF Insert
  <2>3. Sound(table')
    BY <2>2, ResizedSound DEF Inv
  <2>4. QED
    BY <2>1, <2>2, <2>3, ReturnLocal, BecomeLocal DEF Inv
<1>3. QED
  BY <1>1, <1>2

LEMMA RemoveKeeps ==
    ASSUME Inv, NEW t \in Thread, UnlinkRow(t) \/ RemoveEntry(t) PROVE Inv'
<1>1. CASE UnlinkRow(t)
  <2>1. table' = table /\ (Return(t) \/ Go(t, "remove"))
    BY <1>1 DEF UnlinkRow
  <2>2. DOMAIN disk' \subseteq DOMAIN disk
    BY <1>1 DEF UnlinkRow, Less
  <2>3. IsFiniteSet(DOMAIN disk')
    BY <2>2, FS_Subset DEF Inv
  <2>4. QED
    BY <2>1, <2>3, ReturnLocal, GoLocal DEF Inv
<1>2. CASE RemoveEntry(t)
  <2>1. table' = Stale(Removed(table, th[t].ino), th[t].dir) /\ UNCHANGED disk /\ Return(t)
    BY <1>2 DEF RemoveEntry
  <2>2. Sound(table')
    BY <2>1, RemovedSound, StaleSound DEF Inv
  <2>3. QED
    BY <2>1, <2>2, ReturnLocal DEF Inv
<1>3. QED
  BY <1>1, <1>2

LEMMA DeleteDoneKeeps == ASSUME Inv, DeleteDone PROVE Inv'
<1>1. DOMAIN disk' \subseteq DOMAIN disk /\ UNCHANGED <<table, th>>
  BY DEF DeleteDone, Less
<1>2. IsFiniteSet(DOMAIN disk')
  BY <1>1, FS_Subset DEF Inv
<1>3. QED
  BY <1>1, <1>2 DEF Inv

LEMMA RenameKeeps ==
    ASSUME Inv, NEW t \in Thread, RenameRow(t) \/ RenameEntry(t) PROVE Inv'
<1>1. CASE RenameRow(t)
  <2>1. UNCHANGED table /\ DOMAIN disk' = DOMAIN disk
    BY <1>1 DEF RenameRow
  <2> DEFINE next(moved) == [th[t] EXCEPT !.pc = "rekey", !.moved = moved]
  <2>2. Return(t) \/ \E moved : Become(t, next(moved))
    BY <1>1 DEF RenameRow
  <2>3. \A moved : Local(next(moved))
    BY DEF Inv, Local
  <2> HIDE DEF next
  <2>4. QED
    BY <2>1, <2>2, <2>3, ReturnLocal, BecomeLocal DEF Inv
<1>2. CASE RenameEntry(t)
  <2> DEFINE r == th[t]
             taken == {table.byPath[p] : p \in {r.to} \cap DOMAIN table.byPath} \ {r.ino}
             tab == IF taken = {} THEN table ELSE Removed(table, CHOOSE j \in taken : TRUE)
             known == r.ino \in DOMAIN tab.entries
             mov == IF known THEN Moved(tab, r.ino, r.to, r.newDir) ELSE tab
  <2>1. table' = Stale(Stale(mov, r.dir), r.newDir) /\ UNCHANGED disk /\ Return(t)
    BY <1>2 DEF RenameEntry
  <2>2. Sound(tab)
    BY RemovedSound DEF Inv
  <2> HIDE DEF tab
  <2>3. Sound(mov)
    BY <2>2, MovedSound
  <2> HIDE DEF mov
  <2>4. Sound(table')
    BY <2>1, <2>3, StaleSound
  <2>5. QED
    BY <2>1, <2>4, ReturnLocal DEF Inv
<1>3. QED
  BY <1>1, <1>2

LEMMA WriteKeeps ==
    ASSUME Inv, NEW t \in Thread,
           WriteCall(t) \/ TruncateTemp(t) \/ MarkDirty(t) \/ CommitCall(t)
    PROVE  Inv'
<1> DEFINE call(op, pc, h, i, p) ==
             [Idle EXCEPT !.op = op, !.pc = pc, !.fh = h, !.ino = i, !.path = p]
           write(h, i) == [Idle EXCEPT !.op = "write", !.pc = "mark", !.fh = h, !.ino = i]
           apply(p) == [th[t] EXCEPT !.pc = "apply", !.path = p]
<1>1. UNCHANGED disk
  BY DEF WriteCall, TruncateTemp, MarkDirty, CommitCall
<1>2. UNCHANGED table \/ \E i, n : table' = Resized(table, i, n)
  BY DEF WriteCall, TruncateTemp, MarkDirty, CommitCall
<1>3. \/ Return(t) \/ Go(t, "mark") \/ \E p : Become(t, apply(p))
      \/ \E h, i : Become(t, write(h, i))
      \/ \E op, pc, h, i, p : Become(t, call(op, pc, h, i, p))
  BY DEF WriteCall, TruncateTemp, MarkDirty, CommitCall
<1>4. /\ \A op, pc, h, i, p : Local(call(op, pc, h, i, p))
      /\ \A h, i : Local(write(h, i))
      /\ \A p : Local(apply(p))
  BY FS_EmptySet DEF Idle, Inv, Local
<1>5. Sound(table')
  BY <1>2, ResizedSound DEF Inv
<1> HIDE DEF call, write, apply
<1>6. QED
  BY <1>1, <1>3, <1>4, <1>5, ReturnLocal, GoLocal, BecomeLocal DEF Inv

LEMMA CommitKeeps ==
    ASSUME Inv, NEW t \in Thread, Apply(t) \/ Record(t) \/ Finish(t) \/ Fail(t)
    PROVE  Inv'
<1>1. CASE Apply(t)
  <2> DEFINE next(r) == [th[t] EXCEPT !.pc = "record", !.rows = {r}]
  <2>1. UNCHANGED table /\ DOMAIN disk' = DOMAIN disk
    BY <1>1 DEF Apply
  <2>2. Return(t) \/ Go(t, "drop") \/ \E r : Become(t, next(r))
    BY <1>1 DEF Apply, CommitFailed
  <2>3. \A r : Local(next(r))
    BY FS_Singleton DEF Inv, Local
  <2> HIDE DEF next
  <2>4. QED
    BY <2>1, <2>2, <2>3, ReturnLocal, GoLocal, BecomeLocal DEF Inv
<1>2. CASE Record(t)
  <2>1. UNCHANGED disk /\ (Return(t) \/ Go(t, "finish") \/ Go(t, "drop"))
    BY <1>2 DEF Record, CommitFailed
  <2>2. \/ UNCHANGED table
        \/ \E i \in DOMAIN table.entries : \E r, d : table' = Stale(Updated(table, i, r, d), d)
    BY <1>2 DEF Record
  <2>3. Sound(table')
    BY <2>2, UpdatedSound, StaleSound DEF Inv
  <2>4. QED
    BY <2>1, <2>3, ReturnLocal, GoLocal DEF Inv
<1>3. CASE Finish(t) \/ Fail(t)
  <2>1. UNCHANGED <<disk, table>> /\ (Return(t) \/ Go(t, "drop"))
    BY <1>3 DEF Finish, Fail, CommitFailed
  <2>2. QED
    BY <2>1, ReturnLocal, GoLocal DEF Inv
<1>4. QED
  BY <1>1, <1>2, <1>3

LEMMA InvKept == ASSUME Inv, [Next]_vars PROVE Inv'
<1>1. CASE UNCHANGED vars
  BY <1>1 DEF Inv, vars
<1>2. CASE DeleteDone
  BY <1>2, DeleteDoneKeeps
<1>3. ASSUME NEW t \in Thread,
             \/ NameCall(t) \/ InodeCall(t) \/ WriteCall(t) \/ CommitCall(t)
             \/ ReplaceChildren(t) \/ FindChild(t) \/ FindParent(t) \/ Refresh(t)
             \/ MakeRow(t) \/ Enter(t) \/ Load(t) \/ Insert(t)
             \/ UnlinkRow(t) \/ RemoveEntry(t) \/ RenameRow(t) \/ RenameEntry(t)
             \/ TruncateTemp(t) \/ MarkDirty(t) \/ Apply(t) \/ Record(t) \/ Finish(t)
             \/ Fail(t)
      PROVE  Inv'
  BY <1>3, NameCallKeeps, InodeCallKeeps, FindKeeps, RefreshKeeps, ReplaceChildrenKeeps,
     MakeRowKeeps, EnterKeeps, OpenKeeps, RemoveKeeps, RenameKeeps, WriteKeeps, CommitKeeps
<1>4. QED
  BY <1>1, <1>2, <1>3 DEF Next

(* The inductive invariant: the table is sound, a listing that a request     *)
(* carries is finite.                                                         *)
THEOREM HandlesInvariance == Spec => []Inv
BY InitInv, InvKept, PTL DEF Spec

(* However many requests overlap, no refresh, commit, rename or removal      *)
(* leaves path_to_ino with a path that its inode does not have.               *)
THEOREM LookupsResolve == Spec => []PathsResolve
<1>1. Inv => PathsResolve
  BY DEF Inv, Sound, Resolves, PathsResolve
<1>2. QED
  BY <1>1, HandlesInvariance, PTL
-----------------------------------------------------------------------------
(* What a request has in its local variables, and in which steps.             *)
Op == {"none", "lookup", "readdir", "create", "mkdir", "unlink", "rmdir", "rename", "getattr",
       "open", "setattr", "write", "flush", "fsync", "release"}

Step == {"idle", "r_dir", "r_child", "r_parent", "replace", "child", "parent", "create", "enter",
         "load", "insert", "unlink", "remove", "rename", "rekey",
         "stage", "mark", "apply", "record", "finish", "drop"}

StoredRow == [path : Path, kind : Kind, size : Nat]

Request == [op : Op, pc : Step, dir : Nat, name : Path, newDir : Nat, newName : Path,
            locks : SUBSET Nat, ino : Nat, at : Nat, path : Path, to : Path,
            rows : SUBSET (StoredRow \cup Entry), fh : Nat, data : SUBSET Nat, cut : BOOLEAN,
            file : Nat, moved : SUBSET Nat]

OfHandle == {"stage", "mark", "apply", "record", "finish", "drop"}
Closing  == {"finish", "drop"}

Fits(r) ==
    /\ r \in Request /\ IsFiniteSet(r.data)
    /\ r.pc \in {"r_dir", "r_child", "r_parent", "load", "insert", "record"} => r.rows # {}
    /\ r.pc \in {"load", "insert"} => r.rows \subseteq Entry
    /\ r.pc = "enter" => \E w \in r.rows : w.path = r.to
    /\ r.pc = "record" => \A w \in r.rows : w.path = r.path
    /\ r.pc \in OfHandle \/ r.op = "release" => r.fh # 0
    /\ r.pc \in {"apply", "record"} => r.op \in {"flush", "fsync", "release", "setattr"}
    /\ r.pc \in Closing => r.op \in {"release", "setattr"}

Entries(tab) == \A i \in DOMAIN tab.entries : tab.entries[i] \in Entry

Copies(hs) == \A h \in DOMAIN hs : hs[h] \in Handle /\ IsFiniteSet(hs[h].data)

Rows ==
    /\ clock \in Nat /\ DOMAIN disk \subseteq 1 .. clock
    /\ \A f \in DOMAIN disk : disk[f] \in Row /\ IsFiniteSet(disk[f].data)

Typed ==
    /\ Rows
    /\ Entries(table)
    /\ nextFh \in Nat \ {0} /\ DOMAIN handles \subseteq 1 .. nextFh - 1
    /\ Copies(handles)
    /\ \A t \in Thread : Fits(th[t])
    /\ allow \in Limit

(* A release is alone on its handle, and a truncation on its temporary one.   *)
Alone ==
    \A t \in Thread :
        LET h == th[t].fh
        IN  /\ h # 0 => h \in DOMAIN handles
            /\ h # 0 /\ th[t].op \in {"release", "setattr"} => OnHandle(h) = {t}
            /\ h # 0 /\ th[t].op = "setattr" => ~handles[h].held

TInv == Inv /\ Typed /\ Alone
-----------------------------------------------------------------------------
(* The operators keep the types.                                              *)
LEMMA SizeType == ASSUME NEW S, IsFiniteSet(S) PROVE Size(S) \in Nat
BY FS_CardinalityType DEF Size

LEMMA JoinType == ASSUME NEW p \in Path, NEW n \in Path PROVE Join(p, n) \in Path
<1>1. <<"/">> \in Path
  BY DEF Path
<1>2. p \o <<"/">> \in Path
  BY <1>1 DEF Path
<1>3. p \o <<"/">> \o n \in Path
  BY <1>2 DEF Path
<1>4. QED
  BY <1>3 DEF Join

LEMMA InPlaceType ==
    ASSUME NEW old \in Path, NEW new \in Path, NEW p \in Path
    PROVE  InPlace(old, new, p) \in Path
<1>1. SubSeq(p, Len(old) + 1, Len(p)) \in Path
  BY DEF Path
<1>2. QED
  BY <1>1 DEF InPlace, Path

LEMMA PathType == /\ \A e \in Entry : e.path \in Path
                  /\ \A f \in Row : f.path \in Path
                  /\ \A h \in Handle : h.path \in Path
                  /\ <<>> \in Path
BY DEF Entry, Row, Handle, Path

LEMMA StoredType == ASSUME Typed, NEW f \in DOMAIN disk PROVE Stored(f) \in StoredRow
<1>1. Size(disk[f].data) \in Nat
  BY SizeType DEF Typed, Rows
<1>2. disk[f] \in Row
  BY DEF Typed, Rows
<1>3. QED
  BY <1>1, <1>2 DEF Stored, StoredRow, Row, Path

LEMMA ListingType == ASSUME Typed, NEW p PROVE Listing(p) \subseteq StoredRow
BY StoredType DEF Listing

LEMMA EntryType ==
    ASSUME NEW w \in StoredRow \cup Entry, NEW d \in Nat
    PROVE  [path |-> w.path, kind |-> w.kind, size |-> w.size, parent |-> d] \in Entry
BY DEF StoredRow, Entry, Path

LEMMA UpdatedType ==
    ASSUME NEW tab, Sound(tab), Entries(tab), NEW i \in DOMAIN tab.entries,
           NEW w \in StoredRow \cup Entry, NEW d \in Nat
    PROVE  Entries(Updated(tab, i, w, d))
<1> DEFINE new == [path |-> w.path, kind |-> w.kind, size |-> w.size, parent |-> d]
<1>1. new \in Entry
  BY EntryType
<1>2. Updated(tab, i, w, d).entries = [tab.entries EXCEPT ![i] = new]
  BY DEF Updated, Sound, IsTable
<1> HIDE DEF new
<1>3. QED
  BY <1>1, <1>2 DEF Entries

LEMMA UpsertedType ==
    ASSUME NEW tab, Sound(tab), Entries(tab), NEW d \in Nat,
           NEW rows \in SUBSET (StoredRow \cup Entry)
    PROVE  Entries(Upserted(tab, d, rows))
<1> DEFINE paths == {r.path : r \in rows}
           fresh == Numbers(paths \ DOMAIN tab.byPath, tab.nextIno)
           inoOf == [p \in paths \cup DOMAIN tab.byPath |->
                        IF p \in DOMAIN tab.byPath THEN tab.byPath[p] ELSE fresh[p]]
           row(i) == {r \in rows : inoOf[r.path] = i}
           the(i) == CHOOSE r \in row(i) : TRUE
           new(w) == [path |-> w.path, kind |-> w.kind, size |-> w.size, parent |-> d]
           up == Upserted(tab, d, rows)
<1>1. up.entries = [i \in DOMAIN tab.entries \cup {inoOf[p] : p \in paths} |->
                       IF row(i) = {} THEN tab.entries[i] ELSE new(the(i))]
  BY DEF Upserted, Sound, IsTable
<1>2. \A w \in rows : new(w) \in Entry
  BY EntryType
<1>3. ASSUME NEW p \in paths PROVE row(inoOf[p]) # {}
  <2>1. PICK r \in rows : r.path = p
    BY <1>3
  <2>2. QED
    BY <2>1
<1>4. \A i : row(i) # {} => the(i) \in rows
  OBVIOUS
<1> HIDE DEF inoOf, row, the, new
<1>5. ASSUME NEW i \in DOMAIN up.entries PROVE up.entries[i] \in Entry
  <2>1. CASE row(i) = {}
    <3>1. i \in DOMAIN tab.entries
      BY <1>1, <1>3, <2>1
    <3>2. QED
      BY <1>1, <2>1, <3>1 DEF Entries
  <2>2. CASE row(i) # {}
    BY <1>1, <1>2, <1>4, <2>2
  <2>3. QED
    BY <2>1, <2>2
<1>6. QED
  BY <1>5 DEF Entries

LEMMA ReplacedType ==
    ASSUME NEW tab, Sound(tab), Entries(tab), NEW d \in Nat,
           NEW rows \in SUBSET (StoredRow \cup Entry), IsFiniteSet(rows)
    PROVE  Entries(Replaced(tab, d, rows))
<1>1. IsTable(Upserted(tab, d, rows)) /\ Entries(Upserted(tab, d, rows))
  BY UpsertedSound, UpsertedType DEF Sound
<1>2. Replaced(tab, d, rows).entries = Upserted(tab, d, rows).entries
  BY <1>1 DEF Replaced, IsTable
<1>3. QED
  BY <1>1, <1>2 DEF Entries

LEMMA RemovedType ==
    ASSUME NEW tab, Sound(tab), Entries(tab), NEW i
    PROVE  Entries(Removed(tab, i))
BY DEF Removed, Less, Sound, IsTable, Entries

LEMMA ResizedType ==
    ASSUME NEW tab, Sound(tab), Entries(tab), NEW i, NEW n \in Nat
    PROVE  Entries(Resized(tab, i, n))
BY DEF Resized, Sound, IsTable, Entries, Entry

LEMMA StaleType ==
    ASSUME NEW tab, Sound(tab), Entries(tab), NEW d
    PROVE  Entries(Stale(tab, d))
BY DEF Stale, Sound, IsTable, Entries

LEMMA MovedType ==
    ASSUME NEW tab, Sound(tab), Entries(tab), NEW i \in DOMAIN tab.entries,
           NEW new \in Path, NEW d \in Nat
    PROVE  Entries(Moved(tab, i, new, d))
<1> DEFINE old == tab.entries[i].path
           tree == Subtree(tab, i) \cap DOMAIN tab.entries
           to == [j \in tree |-> LET p == tab.entries[j].path
                                 IN  IF IsPrefix(old, p) THEN InPlace(old, new, p) ELSE new]
           ent(j) == [tab.entries[j] EXCEPT !.path = to[j], !.parent = IF j = i THEN d ELSE @]
<1>1. Moved(tab, i, new, d).entries =
         [j \in DOMAIN tab.entries |-> IF j \notin tree THEN tab.entries[j] ELSE ent(j)]
  BY DEF Moved, Sound, IsTable
<1>2. tree \subseteq DOMAIN tab.entries /\ \A j \in DOMAIN tab.entries : tab.entries[j].path \in Path
  BY PathType DEF Entries
<1> HIDE DEF tree
<1>3. \A j \in tree : to[j] \in Path
  BY <1>2, InPlaceType
<1> HIDE DEF to
<1>4. \A j \in tree : ent(j) \in Entry
  BY <1>2, <1>3 DEF Entries, Entry, Path
<1> HIDE DEF ent
<1>5. QED
  BY <1>1, <1>2, <1>4 DEF Entries
-----------------------------------------------------------------------------
LEMMA IdleFits == Fits(Idle)
BY FS_EmptySet DEF Fits, Idle, Request, Path, Op, Step, OfHandle, Closing

LEMMA OnwardFits ==
    ASSUME Typed, NEW r, Fits(r), NEW step, NEW i \in Nat, NEW e \in Entry
    PROVE  Fits(Onward(r, step, i, e))
<1>1. e.path \in Path /\ Listing(e.path) \subseteq StoredRow
  BY PathType, ListingType
<1>2. Join(e.path, r.newName) \in Path /\ Join(e.path, r.name) \in Path
  BY <1>1, JoinType DEF Fits, Request
<1> DEFINE a == [r EXCEPT !.pc = "replace", !.rows = Listing(e.path)]
           b(pc) == [r EXCEPT !.pc = pc, !.ino = i, !.path = e.path, !.rows = {e}]
           c(pc) == [r EXCEPT !.pc = pc, !.ino = i, !.path = e.path, !.rows = {}]
           d(pc, to) == [r EXCEPT !.pc = pc, !.rows = {}, !.to = to]
<1>3. Fits(a)
  BY <1>1 DEF Fits, Request, Step, OfHandle, Closing
<1>4. ASSUME NEW pc \in {"unlink", "load"} PROVE Fits(b(pc))
  <2>1. b(pc) \in Request
    BY <1>1 DEF Fits, Request, Step
  <2>2. QED
    BY <2>1 DEF Fits, Request, OfHandle, Closing
<1>5. Fits(c("unlink")) /\ Fits(c("parent"))
  BY <1>1 DEF Fits, Request, Step, OfHandle, Closing
<1>6. \A to \in Path : Fits(d("rename", to)) /\ Fits(d("create", to))
  BY DEF Fits, Request, Step, OfHandle, Closing
<1>7. \/ Onward(r, step, i, e) = Idle
      \/ Onward(r, step, i, e) = a
      \/ \E pc \in {"unlink", "load"} : Onward(r, step, i, e) = b(pc)
      \/ \E pc \in {"unlink", "parent"} : Onward(r, step, i, e) = c(pc)
      \/ \E pc \in {"rename", "create"}, to \in Path : Onward(r, step, i, e) = d(pc, to)
  BY <1>2 DEF Onward
<1> HIDE DEF a, b, c, d
<1>8. QED
  BY <1>3, <1>4, <1>5, <1>6, <1>7, IdleFits

LEMMA FreshenedFits ==
    ASSUME Inv, Typed, NEW r, Fits(r), NEW step \in {"r_dir", "r_child", "r_parent"}, NEW i
    PROVE  Fits(Freshened(r, step, i))
<1>1. CASE i \notin DOMAIN table.entries
  BY <1>1, IdleFits DEF Freshened
<1>2. CASE i \in DOMAIN table.entries
  <2> DEFINE e == table.entries[i]
             next == [r EXCEPT !.pc = step, !.at = i, !.rows = {Stored(FileAt(e.path))}]
  <2>1. i \in Nat /\ e \in Entry
    BY <1>2 DEF Inv, Sound, Typed, Entries
  <2>2. Fits(Onward(r, step, i, e))
    BY <2>1, OnwardFits
  <2>3. ASSUME At(e.path) # {} PROVE Fits(next)
    <3>1. FileAt(e.path) \in DOMAIN disk
      BY <2>3 DEF FileAt, At
    <3>2. Stored(FileAt(e.path)) \in StoredRow
      BY <3>1, StoredType
    <3> DEFINE s == Stored(FileAt(e.path))
    <3> HIDE DEF s, e
    <3>3. QED
      BY <2>1, <3>2 DEF Fits, Request, Step, OfHandle, Closing, s
  <2>4. \/ Freshened(r, step, i) \in {Idle, Onward(r, step, i, e)}
        \/ At(e.path) # {} /\ Freshened(r, step, i) = next
    BY <1>2 DEF Freshened
  <2> HIDE DEF e, next
  <2>5. QED
    BY <2>2, <2>3, <2>4, IdleFits
<1>3. QED
  BY <1>1, <1>2
-----------------------------------------------------------------------------
(* What the steps of Alone and Typed have in common.                           *)
LEMMA FitsKept ==
    ASSUME Inv, Typed, NEW t \in Thread, NEW r, Fits(r), Become(t, r)
    PROVE  \A u \in Thread : Fits(th'[u])
BY DEF Inv, Typed, Become

LEMMA ReturnFits ==
    ASSUME Inv, Typed, NEW t \in Thread, Return(t)
    PROVE  \A u \in Thread : Fits(th'[u])
BY FitsKept, IdleFits DEF Return

(* A thread goes on with its handle, or without one.                          *)
LEMMA AloneKept ==
    ASSUME TInv, NEW t \in Thread, NEW r, Become(t, r),
           r.fh = 0 \/ (r.fh = th[t].fh /\ r.op = th[t].op),
           DOMAIN handles \subseteq DOMAIN handles',
           \A h \in DOMAIN handles : handles'[h].held = handles[h].held
    PROVE  Alone'
<1>1. /\ th'[t] = r
      /\ \A u \in Thread \ {t} : th'[u] = th[u]
  BY DEF TInv, Inv, Become
<1> HIDE DEF Become
<1>2. ASSUME NEW u \in Thread, th'[u].fh # 0
      PROVE  /\ th'[u].fh \in DOMAIN handles'
             /\ th'[u].op \in {"release", "setattr"} => {v \in Thread : th'[v].fh = th'[u].fh} = {u}
             /\ th'[u].op = "setattr" => ~handles'[th'[u].fh].held
  <2>1. th'[u].fh = th[u].fh /\ th'[u].op = th[u].op
    BY <1>1, <1>2
  <2>2. \A v \in Thread : th'[v].fh = th'[u].fh => th[v].fh = th[u].fh
    BY <1>1, <1>2, <2>1
  <2>3. QED
    BY <1>2, <2>1, <2>2 DEF TInv, Alone, OnHandle
<1>3. QED
  BY <1>2 DEF Alone, OnHandle

LEMMA ReturnAlone ==
    ASSUME TInv, NEW t \in Thread, Return(t),
           DOMAIN handles \subseteq DOMAIN handles',
           \A h \in DOMAIN handles : handles'[h].held = handles[h].held
    PROVE  Alone'
<1>1. Become(t, Idle) /\ Idle.fh = 0
  BY DEF Return, Idle
<1>2. QED
  BY <1>1, AloneKept

LEMMA UnsteadyType ==
    ASSUME NEW hs, Copies(hs), NEW S
    PROVE  /\ Copies(Unsteady(hs, S))
           /\ DOMAIN Unsteady(hs, S) = DOMAIN hs
           /\ \A h \in DOMAIN hs :
                 /\ Unsteady(hs, S)[h].path = hs[h].path /\ Unsteady(hs, S)[h].file = hs[h].file
                 /\ Unsteady(hs, S)[h].data = hs[h].data /\ Unsteady(hs, S)[h].dirty = hs[h].dirty
                 /\ Unsteady(hs, S)[h].held = hs[h].held
                 /\ Unsteady(hs, S)[h].steady = (hs[h].steady /\ h \notin S)
<1> DEFINE new(h) == [hs[h] EXCEPT !.steady = @ /\ h \notin S]
<1>1. ASSUME NEW h \in DOMAIN hs
      PROVE  /\ new(h) \in Handle /\ IsFiniteSet(new(h).data)
             /\ new(h).path = hs[h].path /\ new(h).file = hs[h].file /\ new(h).data = hs[h].data
             /\ new(h).dirty = hs[h].dirty /\ new(h).held = hs[h].held
             /\ new(h).steady = (hs[h].steady /\ h \notin S)
  <2>1. hs[h] \in Handle /\ IsFiniteSet(hs[h].data)
    BY DEF Copies
  <2> DEFINE b == hs[h].steady /\ h \notin S
  <2>2. b \in BOOLEAN
    BY <2>1 DEF Handle
  <2>3. new(h) = [hs[h] EXCEPT !.steady = b]
    OBVIOUS
  <2> HIDE DEF b, new
  <2>4. /\ new(h) \in Handle /\ new(h).data = hs[h].data
        /\ new(h).path = hs[h].path /\ new(h).file = hs[h].file
        /\ new(h).dirty = hs[h].dirty /\ new(h).held = hs[h].held
        /\ new(h).steady = b
    BY <2>1, <2>2, <2>3 DEF Handle
  <2>5. QED
    BY <2>1, <2>4 DEF b
<1>2. Unsteady(hs, S) = [h \in DOMAIN hs |-> new(h)]
  BY DEF Unsteady
<1> HIDE DEF new
<1>3. QED
  BY <1>1, <1>2 DEF Copies

(* The steps that leave the rows and the handles alone.                       *)
LEMMA ThreadStep ==
    ASSUME TInv, NEW t \in Thread, NEW r, Fits(r), Become(t, r),
           r.fh = 0 \/ (r.fh = th[t].fh /\ r.op = th[t].op),
           UNCHANGED <<disk, handles, nextFh, clock>>, Entries(table'), allow' \in Limit
    PROVE  Typed' /\ Alone'
<1>1. \A u \in Thread : Fits(th'[u])
  BY FitsKept DEF TInv
<1>2. Alone'
  BY AloneKept
<1>3. Typed'
  BY <1>1 DEF TInv, Typed, Rows
<1>4. QED
  BY <1>2, <1>3

LEMMA ReturnStep ==
    ASSUME TInv, NEW t \in Thread, Return(t),
           UNCHANGED <<disk, handles, nextFh, clock>>, Entries(table'), allow' \in Limit
    PROVE  Typed' /\ Alone'
<1>1. Become(t, Idle) /\ Fits(Idle) /\ Idle.fh = 0
  BY IdleFits DEF Idle, Return
<1>2. QED
  BY <1>1, ThreadStep

LEMMA UseType == ASSUME Typed, NEW kind, Use(kind) PROVE allow' \in Limit
BY DEF Typed, Use, Limit

LEMMA OnwardAlone ==
    ASSUME NEW r \in Request, NEW step, NEW i, NEW e
    PROVE  LET n == Onward(r, step, i, e) IN n.fh = 0 \/ (n.fh = r.fh /\ n.op = r.op)
BY DEF Onward, Idle, Request

LEMMA FreshenedAlone ==
    ASSUME NEW r \in Request, NEW step, NEW i
    PROVE  LET n == Freshened(r, step, i) IN n.fh = 0 \/ (n.fh = r.fh /\ n.op = r.op)
BY OnwardAlone DEF Freshened, Idle, Request

LEMMA OpenedType ==
    ASSUME Typed, NEW new \in Handle, IsFiniteSet(new.data)
    PROVE  /\ Copies(Opened(new))
           /\ DOMAIN Opened(new) = DOMAIN handles \cup {nextFh} /\ nextFh \notin DOMAIN handles
           /\ Opened(new)[nextFh] = new
           /\ \A h \in DOMAIN handles :
                 LET g == Opened(new)[h]
                 IN  /\ g.path = handles[h].path /\ g.file = handles[h].file
                     /\ g.data = handles[h].data /\ g.dirty = handles[h].dirty
                     /\ g.held = handles[h].held
                     /\ g.steady = (handles[h].steady /\ handles[h].file # new.file)
<1> DEFINE S == Using(new.file)
           hs == Unsteady(handles, S)
<1>1. /\ Copies(hs) /\ DOMAIN hs = DOMAIN handles
      /\ \A h \in DOMAIN handles :
            /\ hs[h].path = handles[h].path /\ hs[h].file = handles[h].file
            /\ hs[h].data = handles[h].data /\ hs[h].dirty = handles[h].dirty
            /\ hs[h].held = handles[h].held
            /\ hs[h].steady = (handles[h].steady /\ h \notin S)
  BY UnsteadyType DEF Typed
<1>2. nextFh \notin DOMAIN handles
  BY DEF Typed
<1>3. Opened(new) = [z \in DOMAIN hs \cup {nextFh} |-> IF z = nextFh THEN new ELSE hs[z]]
  BY DEF Opened, With
<1>4. \A h \in DOMAIN handles : h \in S <=> handles[h].file = new.file
  BY DEF Using
<1> HIDE DEF S, hs
<1>5. \A h \in DOMAIN handles : Opened(new)[h] = hs[h]
  BY <1>1, <1>2, <1>3
<1>6. Copies(Opened(new))
  BY <1>1, <1>3 DEF Copies
<1>7. QED
  BY <1>1, <1>2, <1>3, <1>4, <1>5, <1>6
-----------------------------------------------------------------------------
(* Next, action by action.                                                    *)
LEMMA NameRequestFits ==
    ASSUME TInv, NEW op \in NameOps, NEW d \in Folders, NEW e \in Folders,
           NEW n \in Name, NEW m \in Name
    PROVE  LET r == NameRequest(op, d, n, e, m) IN Fits(r) /\ r \in Request /\ r.fh = 0
<1> DEFINE r == NameRequest(op, d, n, e, m)
           locks == Locks(op, d, n, e)
<1>1. locks \subseteq Nat
  BY DEF Locks, Folders, TInv, Inv, Sound, Resolves
<1>2. d \in Nat /\ e \in Nat /\ n \in Path /\ m \in Path
  BY HandlesAssumption DEF Folders, TInv, Inv, Sound, Path
<1>3. op \in Op /\ op # "release"
  BY HandlesAssumption DEF Op
<1>4. r = [Idle EXCEPT !.op = op, !.locks = locks, !.dir = d, !.name = n, !.newDir = e, !.newName = m]
  BY DEF NameRequest
<1> HIDE DEF locks, r
<1>5. r \in Request /\ r.fh = 0 /\ r.pc = "idle" /\ r.data = {} /\ r.op = op
  BY <1>1, <1>2, <1>3, <1>4, IdleFits DEF Fits, Request, Idle
<1>6. Fits(r)
  BY <1>3, <1>5, FS_EmptySet DEF Fits, OfHandle, Closing
<1>7. QED
  BY <1>5, <1>6 DEF r

LEMMA NameCallTyped == ASSUME TInv, NEW t \in Thread, NameCall(t) PROVE Typed' /\ Alone'
<1>1. PICK op \in NameOps, d \in Folders, e \in Folders, n \in Name, m \in Name :
         /\ Become(t, Freshened(NameRequest(op, d, n, e, m), "r_dir", d))
         /\ Use(IF op \in Changes THEN "name" ELSE "look")
         /\ UNCHANGED <<disk, table, handles, nextFh, clock>>
  BY DEF NameCall
<1> DEFINE r == NameRequest(op, d, n, e, m)
<1>2. Fits(r) /\ r \in Request /\ r.fh = 0
  BY NameRequestFits
<1> HIDE DEF r
<1>3. Fits(Freshened(r, "r_dir", d)) /\ Freshened(r, "r_dir", d).fh = 0
  BY <1>2, FreshenedFits, FreshenedAlone DEF TInv
<1>4. Entries(table') /\ allow' \in Limit
  BY <1>1, UseType DEF TInv, Typed
<1>5. QED
  BY <1>1, <1>3, <1>4, ThreadStep DEF r

LEMMA InodeRequestFits ==
    ASSUME TInv, NEW i \in DOMAIN table.entries, NEW op \in {"getattr", "open", "setattr"}
    PROVE  LET r == [Idle EXCEPT !.op = op, !.ino = i] IN Fits(r) /\ r \in Request /\ r.fh = 0
<1> DEFINE r == [Idle EXCEPT !.op = op, !.ino = i]
<1>1. i \in Nat
  BY DEF TInv, Inv, Sound
<1>2. r \in Request /\ r.fh = 0 /\ r.pc = "idle" /\ r.data = {} /\ r.op = op
  BY <1>1, IdleFits DEF Fits, Request, Idle, Op
<1>3. QED
  BY <1>2, FS_EmptySet DEF Fits, OfHandle, Closing

LEMMA InodeCallTyped == ASSUME TInv, NEW t \in Thread, InodeCall(t) PROVE Typed' /\ Alone'
<1>1. PICK i \in DOMAIN table.entries \ {Root}, op \in {"getattr", "open", "setattr"} :
         /\ Become(t, Freshened([Idle EXCEPT !.op = op, !.ino = i], "r_child", i))
         /\ Use(IF op = "getattr" THEN "look" ELSE "open")
         /\ UNCHANGED <<disk, table, handles, nextFh, clock>>
  BY DEF InodeCall
<1> DEFINE r == [Idle EXCEPT !.op = op, !.ino = i]
<1>2. Fits(r) /\ r \in Request /\ r.fh = 0
  BY InodeRequestFits
<1> HIDE DEF r
<1>3. Fits(Freshened(r, "r_child", i)) /\ Freshened(r, "r_child", i).fh = 0
  BY <1>2, FreshenedFits, FreshenedAlone DEF TInv
<1>4. Entries(table') /\ allow' \in Limit
  BY <1>1, UseType DEF TInv, Typed
<1>5. QED
  BY <1>1, <1>3, <1>4, ThreadStep DEF r

LEMMA FindTyped ==
    ASSUME TInv, NEW t \in Thread, FindChild(t) \/ FindParent(t) PROVE Typed' /\ Alone'
<1>1. UNCHANGED <<disk, table, handles, nextFh, clock, allow>>
  BY DEF FindChild, FindParent
<1>2. Entries(table') /\ allow' \in Limit
  BY <1>1 DEF TInv, Typed
<1>3. Return(t) \/ \E step \in {"r_child", "r_parent"} : \E i : Become(t, Freshened(th[t], step, i))
  BY DEF FindChild, FindParent
<1>4. ASSUME NEW step \in {"r_child", "r_parent"}, NEW i
      PROVE  LET r == Freshened(th[t], step, i)
             IN  Fits(r) /\ (r.fh = 0 \/ (r.fh = th[t].fh /\ r.op = th[t].op))
  <2>1. Fits(th[t]) /\ th[t] \in Request
    BY DEF TInv, Typed, Fits
  <2>2. QED
    BY <2>1, FreshenedFits, FreshenedAlone DEF TInv
<1>5. QED
  BY <1>1, <1>2, <1>3, <1>4, ThreadStep, ReturnStep

LEMMA RefreshTyped == ASSUME TInv, NEW t \in Thread, Refresh(t) PROVE Typed' /\ Alone'
<1> DEFINE i == th[t].at
           w == CHOOSE w \in th[t].rows : TRUE
           d == table.entries[i].parent
           tab == Updated(table, i, w, d)
           r == Onward(th[t], Pc(t), i, tab.entries[i])
<1>1. UNCHANGED <<disk, handles, nextFh, clock, allow>> /\ allow' \in Limit
  BY DEF Refresh, TInv, Typed
<1>2. CASE i \in DOMAIN table.entries
  <2>1. table' = tab /\ Become(t, r)
    BY <1>2 DEF Refresh
  <2>2. Fits(th[t]) /\ th[t] \in Request
    BY DEF TInv, Typed, Fits
  <2>3. w \in StoredRow \cup Entry
    <3>1. th[t].rows # {} /\ th[t].rows \subseteq StoredRow \cup Entry
      BY <2>2 DEF Refresh, Pc, Fits, Request
    <3>2. QED
      BY <3>1
  <2>4. d \in Nat /\ i \in Nat
    BY <1>2, <2>2 DEF TInv, Typed, Entries, Entry, Request
  <2> HIDE DEF w, d
  <2>5. Entries(tab) /\ i \in DOMAIN tab.entries
    BY <1>2, <2>3, <2>4, UpdatedType DEF TInv, Typed, Inv, Sound, IsTable, Updated
  <2> HIDE DEF tab
  <2>6. Fits(r) /\ (r.fh = 0 \/ (r.fh = th[t].fh /\ r.op = th[t].op))
    BY <2>2, <2>4, <2>5, OnwardFits, OnwardAlone DEF TInv, Entries
  <2> HIDE DEF r
  <2>7. QED
    BY <1>1, <2>1, <2>5, <2>6, ThreadStep
<1>3. CASE i \notin DOMAIN table.entries
  <2>1. UNCHANGED table /\ Return(t)
    BY <1>3 DEF Refresh
  <2>2. QED
    BY <1>1, <2>1, ReturnStep DEF TInv, Typed
<1>4. QED
  BY <1>2, <1>3

LEMMA ReplaceChildrenTyped ==
    ASSUME TInv, NEW t \in Thread, ReplaceChildren(t) PROVE Typed' /\ Alone'
<1> DEFINE r == th[t]
           next(pc) == [r EXCEPT !.pc = pc, !.rows = {}]
<1>1. Fits(r) /\ r \in Request /\ IsFiniteSet(r.rows)
  BY DEF TInv, Typed, Fits, Inv, Local
<1>2. /\ UNCHANGED <<disk, handles, nextFh, clock, allow>>
      /\ table' = Replaced(table, r.dir, r.rows)
  BY DEF ReplaceChildren
<1>3. Entries(table') /\ allow' \in Limit
  BY <1>1, <1>2, ReplacedType DEF TInv, Inv, Typed, Request
<1>4. Return(t) \/ \E pc \in {"parent", "child"} : Become(t, next(pc))
  BY DEF ReplaceChildren, Return
<1>5. ASSUME NEW pc \in {"parent", "child"}
      PROVE  Fits(next(pc)) /\ next(pc).fh = r.fh /\ next(pc).op = r.op
  BY <1>1 DEF Fits, Request, Step, OfHandle, Closing
<1> HIDE DEF next
<1>6. QED
  BY <1>2, <1>3, <1>4, <1>5, ReturnStep, ThreadStep

LEMMA HandleStep ==
    ASSUME TInv, NEW t \in Thread, NEW r, Fits(r), Become(t, r),
           r.fh = 0 \/ (r.fh = th[t].fh /\ r.op = th[t].op),
           DOMAIN handles' = DOMAIN handles, Copies(handles'), UNCHANGED nextFh,
           \A h \in DOMAIN handles : handles'[h].held = handles[h].held,
           Rows', Entries(table'), allow' \in Limit
    PROVE  Typed' /\ Alone'
<1>1. \A u \in Thread : Fits(th'[u])
  BY FitsKept DEF TInv
<1>2. Alone'
  BY AloneKept
<1>3. Typed'
  BY <1>1 DEF TInv, Typed
<1>4. QED
  BY <1>2, <1>3

LEMMA ReturnHandleStep ==
    ASSUME TInv, NEW t \in Thread, Return(t),
           DOMAIN handles' = DOMAIN handles, Copies(handles'), UNCHANGED nextFh,
           \A h \in DOMAIN handles : handles'[h].held = handles[h].held,
           Rows', Entries(table'), allow' \in Limit
    PROVE  Typed' /\ Alone'
<1>1. Become(t, Idle) /\ Fits(Idle) /\ Idle.fh = 0
  BY IdleFits DEF Idle, Return
<1>2. QED
  BY <1>1, HandleStep

(* A step of a request within a call.                                         *)
LEMMA GoFits ==
    ASSUME TInv, NEW t \in Thread, NEW step \in {"remove", "mark", "finish", "drop"},
           step # "remove" => th[t].fh # 0,
           step \in Closing => th[t].op \in {"release", "setattr"}
    PROVE  LET r == [th[t] EXCEPT !.pc = step]
           IN  /\ Fits(r) /\ r.fh = th[t].fh /\ r.op = th[t].op
               /\ Go(t, step) <=> Become(t, r)
<1>1. Fits(th[t])
  BY DEF TInv, Typed
<1>2. QED
  BY <1>1 DEF Fits, Request, Step, OfHandle, Closing, Go, Become

LEMMA RowsKept ==
    ASSUME Rows, clock' \in Nat, clock' >= clock, DOMAIN disk' \subseteq DOMAIN disk,
           \A f \in DOMAIN disk' : disk'[f] = disk[f]
    PROVE  Rows'
BY DEF Rows

LEMMA DeleteDoneTyped == ASSUME TInv, DeleteDone PROVE Typed' /\ Alone'
<1>1. /\ DOMAIN disk' \subseteq DOMAIN disk /\ \A f \in DOMAIN disk' : disk'[f] = disk[f]
      /\ UNCHANGED <<table, handles, nextFh, th, clock, allow>>
  BY DEF DeleteDone, Less
<1>2. Rows'
  BY <1>1, RowsKept DEF TInv, Typed, Rows
<1>3. Typed'
  BY <1>1, <1>2 DEF TInv, Typed
<1>4. Alone'
  BY <1>1 DEF TInv, Alone, OnHandle
<1>5. QED
  BY <1>3, <1>4

LEMMA MakeRowTyped == ASSUME TInv, NEW t \in Thread, MakeRow(t) PROVE Typed' /\ Alone'
<1> DEFINE r == th[t]
           kind == IF r.op = "mkdir" THEN "Dir" ELSE "File"
           row == [path |-> r.to, kind |-> kind, data |-> {}, remote |-> FALSE, state |-> "kept"]
           w == [path |-> r.to, kind |-> kind, size |-> 0]
           next == [r EXCEPT !.pc = "enter", !.file = clock + 1, !.rows = {w}]
<1>1. UNCHANGED <<table, handles, nextFh, allow>> /\ Entries(table') /\ allow' \in Limit
  BY DEF MakeRow, TInv, Typed
<1>2. CASE Return(t) /\ UNCHANGED <<disk, clock>>
  BY <1>1, <1>2, ReturnStep
<1>3. CASE ~(Return(t) /\ UNCHANGED <<disk, clock>>)
  <2>1. clock' = clock + 1 /\ disk' = With(disk, clock + 1, row) /\ Become(t, next)
    BY <1>3 DEF MakeRow
  <2>2. Fits(r) /\ r \in Request /\ clock \in Nat
    BY DEF TInv, Typed, Fits, Rows
  <2>3. row \in Row /\ IsFiniteSet(row.data) /\ w \in StoredRow /\ w.path = r.to
    BY <2>2, FS_EmptySet DEF Row, RowState, Kind, StoredRow, Request
  <2> HIDE DEF row, w
  <2>4. Rows'
    BY <2>1, <2>2, <2>3 DEF Rows, With, TInv, Typed
  <2>5. Fits(next) /\ next.fh = r.fh /\ next.op = r.op
    <3> DEFINE ws == {w}
               f == clock + 1
    <3>0. ws \in SUBSET (StoredRow \cup Entry) /\ f \in Nat
      BY <2>2, <2>3
    <3>1. next = [r EXCEPT !.pc = "enter", !.file = f, !.rows = ws]
      OBVIOUS
    <3> HIDE DEF ws, f, next
    <3>2. /\ next \in Request /\ next.fh = r.fh /\ next.op = r.op /\ next.pc = "enter"
          /\ next.data = r.data /\ next.rows = ws /\ next.to = r.to
      BY <2>2, <3>0, <3>1 DEF Request, Step
    <3>3. QED
      BY <2>2, <2>3, <3>2 DEF Fits, OfHandle, Closing, ws
  <2> HIDE DEF next
  <2>6. Copies(handles') /\ DOMAIN handles' = DOMAIN handles
    BY <1>1 DEF TInv, Typed
  <2>7. QED
    BY <1>1, <2>1, <2>4, <2>5, <2>6, HandleStep
<1>4. QED
  BY <1>2, <1>3

LEMMA EnterOpens ==
    ASSUME TInv, NEW t \in Thread, Enter(t), th[t].op # "mkdir"
    PROVE  \E new \in Handle :
              /\ IsFiniteSet(new.data) /\ handles' = Opened(new) /\ nextFh' = nextFh + 1
              /\ new.steady => /\ new.file \in Kept(new.path) /\ Using(new.file) = {}
                               /\ disk[new.file].data = new.data
<1> DEFINE r == th[t]
           up == Upserted(table, r.dir, r.rows)
           s == r.file \in Kept(r.to) /\ Using(r.file) = {} /\ disk[r.file].data = {}
           new == [ino |-> up.byPath[r.to], parent |-> r.dir, path |-> r.to, data |-> {},
                   dirty |-> FALSE, file |-> r.file, held |-> TRUE, steady |-> s]
<1>1. Pc(t) = "enter" /\ handles' = Opened(new) /\ nextFh' = nextFh + 1
  BY DEF Enter
<1>2. Fits(r) /\ r \in Request /\ IsFiniteSet(r.rows)
  BY DEF TInv, Typed, Fits, Inv, Local
<1>3. up.byPath[r.to] \in Nat
  <2>1. PICK w \in r.rows : w.path = r.to
    BY <1>1, <1>2 DEF Fits, Pc
  <2>2. r.to \in DOMAIN up.byPath
    BY <2>1 DEF Upserted, TInv, Inv, Sound, IsTable
  <2>3. Sound(up)
    BY <1>2, UpsertedSound DEF TInv, Inv
  <2>4. QED
    BY <2>2, <2>3 DEF Sound, Resolves
<1>4. s \in BOOLEAN
  OBVIOUS
<1>5. new.steady => /\ new.file \in Kept(new.path) /\ Using(new.file) = {}
                    /\ disk[new.file].data = new.data
  OBVIOUS
<1> HIDE DEF s, up
<1>6. new \in Handle /\ IsFiniteSet(new.data)
  BY <1>2, <1>3, <1>4, FS_EmptySet DEF Handle, Request
<1> HIDE DEF new
<1>7. QED
  BY <1>1, <1>5, <1>6

LEMMA EnterTyped == ASSUME TInv, NEW t \in Thread, Enter(t) PROVE Typed' /\ Alone'
<1> DEFINE r == th[t]
           up == Upserted(table, r.dir, r.rows)
<1>1. /\ table' = Stale(up, r.dir) /\ Return(t)
      /\ UNCHANGED <<disk, clock, allow>> /\ allow' \in Limit
  BY DEF Enter, TInv, Typed
<1>2. Entries(table')
  <2>1. r \in Request /\ IsFiniteSet(r.rows)
    BY DEF TInv, Typed, Fits, Inv, Local
  <2>2. Sound(up) /\ Entries(up)
    BY <2>1, UpsertedSound, UpsertedType DEF TInv, Inv, Typed, Request
  <2> HIDE DEF up
  <2>3. QED
    BY <1>1, <2>2, StaleType
<1>3. Rows'
  BY <1>1 DEF TInv, Typed, Rows
<1>4. CASE r.op = "mkdir"
  <2>1. UNCHANGED <<handles, nextFh>>
    BY <1>4 DEF Enter
  <2>2. QED
    BY <1>1, <1>2, <2>1, ReturnStep
<1>5. CASE r.op # "mkdir"
  <2>1. PICK new \in Handle :
           IsFiniteSet(new.data) /\ handles' = Opened(new) /\ nextFh' = nextFh + 1
    BY <1>5, EnterOpens
  <2>2. /\ Copies(handles') /\ DOMAIN handles' = DOMAIN handles \cup {nextFh}
        /\ \A h \in DOMAIN handles : handles'[h].held = handles[h].held
    BY <2>1, OpenedType DEF TInv
  <2>3. nextFh' \in Nat \ {0} /\ DOMAIN handles' \subseteq 1 .. nextFh' - 1
    BY <2>1, <2>2 DEF TInv, Typed
  <2>4. \A u \in Thread : Fits(th'[u])
    BY <1>1, ReturnFits DEF TInv
  <2>5. Alone'
    BY <1>1, <2>2, ReturnAlone
  <2>6. QED
    BY <1>1, <1>2, <1>3, <2>2, <2>3, <2>4, <2>5 DEF Typed
<1>6. QED
  BY <1>4, <1>5

LEMMA LoadTyped == ASSUME TInv, NEW t \in Thread, Load(t) PROVE Typed' /\ Alone'
<1> DEFINE r == th[t]
           e == CHOOSE e \in r.rows : TRUE
           next(cut, f, data) == [r EXCEPT !.pc = "insert", !.cut = cut, !.file = f, !.data = data]
<1>1. /\ UNCHANGED <<disk, table, handles, nextFh, clock, allow>> /\ Pc(t) = "load"
      /\ Entries(table') /\ allow' \in Limit
  BY DEF Load, TInv, Typed
<1>2. Fits(r) /\ r \in Request /\ r.rows # {} /\ r.rows \subseteq Entry
  BY <1>1 DEF TInv, Typed, Fits, Pc
<1>3. CASE Return(t)
  BY <1>1, <1>3, ReturnStep
<1>4. CASE ~Return(t)
  <2> DEFINE file == IF At(r.path) = {} THEN 0 ELSE FileAt(r.path)
             data(cut) == IF cut \/ e.size = 0 THEN {} ELSE disk[FileAt(r.path)].data
  <2>1. ~(e.size > 0 /\ ~IsFile(r.path))
    BY <1>4 DEF Load
  <2>2. PICK cut \in BOOLEAN : Become(t, next(cut, file, data(cut)))
    BY <1>4, <2>1 DEF Load
  <2>3. At(r.path) # {} => FileAt(r.path) \in DOMAIN disk
    BY DEF At, FileAt
  <2>4. file \in Nat
    BY <2>3 DEF TInv, Typed, Rows
  <2>5. data(cut) \subseteq Nat /\ IsFiniteSet(data(cut))
    <3>1. e \in Entry
      BY <1>2
    <3>2. e.size = 0 \/ At(r.path) # {}
      BY <2>1, <3>1 DEF IsFile, Entry
    <3> HIDE DEF e
    <3>3. QED
      BY <2>3, <3>2, FS_EmptySet DEF TInv, Typed, Rows, Row
  <2> HIDE DEF file, data
  <2> DEFINE n == next(cut, file, data(cut))
  <2>6. /\ n \in Request /\ n.fh = r.fh /\ n.op = r.op /\ n.pc = "insert"
        /\ n.data = data(cut) /\ n.rows = r.rows
    BY <1>2, <2>4, <2>5 DEF Request, Step
  <2> HIDE DEF next, n
  <2>7. Fits(n)
    BY <1>2, <2>5, <2>6 DEF Fits, OfHandle, Closing
  <2>8. QED
    BY <1>1, <2>2, <2>6, <2>7, ThreadStep DEF n
<1>5. QED
  BY <1>3, <1>4

LEMMA InsertOpens ==
    ASSUME TInv, NEW t \in Thread, Insert(t)
    PROVE  \E new \in Handle :
              /\ IsFiniteSet(new.data) /\ handles' = Opened(new) /\ nextFh' = nextFh + 1
              /\ new.held => th[t].op = "open"
              /\ new.steady => /\ new.file \in Kept(new.path) /\ Using(new.file) = {}
                               /\ new.dirty \/ disk[new.file].data = new.data
<1> DEFINE r == th[t]
           e == CHOOSE e \in r.rows : TRUE
           held == r.op = "open" /\ (r.cut => r.ino \in DOMAIN table.entries)
           steady == /\ r.file \in Kept(r.path) /\ Using(r.file) = {}
                     /\ r.cut \/ disk[r.file].data = r.data
           new == [ino |-> r.ino, parent |-> e.parent, path |-> r.path, data |-> r.data,
                   dirty |-> r.cut, file |-> r.file, held |-> held, steady |-> steady]
<1>1. Pc(t) = "insert" /\ handles' = Opened(new) /\ nextFh' = nextFh + 1
  BY DEF Insert
<1>2. Fits(r) /\ r \in Request /\ e \in Entry
  <2>1. Fits(r) /\ r \in Request /\ r.rows # {} /\ r.rows \subseteq Entry
    BY <1>1 DEF TInv, Typed, Fits, Pc
  <2>2. QED
    BY <2>1
<1>3. held \in BOOLEAN /\ steady \in BOOLEAN
  OBVIOUS
<1>4. /\ new.held => r.op = "open"
      /\ new.steady => /\ new.file \in Kept(new.path) /\ Using(new.file) = {}
                       /\ new.dirty \/ disk[new.file].data = new.data
  OBVIOUS
<1> HIDE DEF e, held, steady
<1>5. new \in Handle /\ new.data = r.data
  BY <1>2, <1>3 DEF Handle, Entry, Request
<1> HIDE DEF new
<1>6. QED
  BY <1>1, <1>2, <1>4, <1>5 DEF Fits

LEMMA InsertTyped == ASSUME TInv, NEW t \in Thread, Insert(t) PROVE Typed' /\ Alone'
<1> DEFINE r == th[t]
           next == [r EXCEPT !.pc = "stage", !.fh = nextFh, !.rows = {}]
<1>1. /\ UNCHANGED <<disk, clock, allow>> /\ allow' \in Limit
      /\ table' = IF r.cut THEN Resized(table, r.ino, 0) ELSE table
      /\ IF r.op = "open" THEN Return(t) ELSE Become(t, next)
  BY DEF Insert, TInv, Typed
<1>2. Fits(r) /\ r \in Request
  BY DEF TInv, Typed, Fits
<1>3. PICK new \in Handle : /\ IsFiniteSet(new.data) /\ handles' = Opened(new)
                            /\ nextFh' = nextFh + 1 /\ (new.held => r.op = "open")
  BY InsertOpens
<1>5. /\ Copies(handles') /\ DOMAIN handles' = DOMAIN handles \cup {nextFh}
      /\ \A h \in DOMAIN handles : handles'[h].held = handles[h].held
      /\ handles'[nextFh] = new /\ nextFh \notin DOMAIN handles
  BY <1>3, OpenedType DEF TInv
<1>6. nextFh' \in Nat \ {0} /\ DOMAIN handles' \subseteq 1 .. nextFh' - 1 /\ nextFh \in Nat \ {0}
  BY <1>3, <1>5 DEF TInv, Typed
<1>7. Entries(table')
  BY <1>1, ResizedType DEF TInv, Inv, Typed
<1>8. Rows'
  BY <1>1 DEF TInv, Typed, Rows
<1>9. CASE r.op = "open"
  <2>1. Return(t)
    BY <1>1, <1>9
  <2>2. \A u \in Thread : Fits(th'[u])
    BY <2>1, ReturnFits DEF TInv
  <2>3. Alone'
    BY <2>1, <1>5, ReturnAlone
  <2>4. QED
    BY <1>1, <1>5, <1>6, <1>7, <1>8, <2>2, <2>3 DEF Typed
<1>10. CASE r.op # "open"
  <2>1. Become(t, next)
    BY <1>1, <1>10
  <2>2. /\ next \in Request /\ next.fh = nextFh /\ next.op = r.op /\ next.pc = "stage"
        /\ next.data = r.data
    BY <1>2, <1>6 DEF Request, Step
  <2> HIDE DEF next
  <2>3. Fits(next)
    BY <1>2, <1>6, <2>2 DEF Fits, OfHandle, Closing
  <2>4. \A u \in Thread : Fits(th'[u])
    BY <2>1, <2>3, FitsKept DEF TInv
  <2>5. th'[t] = next /\ \A u \in Thread \ {t} : th'[u] = th[u] /\ th[u].fh # nextFh
    <3>1. \A u \in Thread : th[u].fh # nextFh
      BY <1>5, <1>6 DEF TInv, Alone
    <3>2. QED
      BY <2>1, <3>1 DEF TInv, Inv, Become
  <2>6. ASSUME NEW u \in Thread, th'[u].fh # 0
        PROVE  /\ th'[u].fh \in DOMAIN handles'
               /\ th'[u].op \in {"release", "setattr"} => {v \in Thread : th'[v].fh = th'[u].fh} = {u}
               /\ th'[u].op = "setattr" => ~handles'[th'[u].fh].held
    <3>1. CASE u = t
      <4>1. ~new.held
        BY <1>3, <1>10
      <4>2. th'[u].fh = nextFh /\ {v \in Thread : th'[v].fh = nextFh} = {u}
        BY <2>2, <2>5, <3>1
      <4>3. nextFh \in DOMAIN handles'
        BY <1>5
      <4>4. QED
        BY <1>5, <4>1, <4>2, <4>3
    <3>2. CASE u # t
      <4>1. th'[u] = th[u] /\ th[u].fh # nextFh /\ th[u].fh \in DOMAIN handles
        BY <2>5, <2>6, <3>2 DEF TInv, Alone
      <4>2. \A v \in Thread : th'[v].fh = th[u].fh => th[v].fh = th[u].fh
        BY <2>2, <2>5, <4>1
      <4>3. QED
        BY <1>5, <2>6, <4>1, <4>2 DEF TInv, Alone, OnHandle
    <3>3. QED
      BY <3>1, <3>2
  <2>7. Alone'
    BY <2>6 DEF Alone, OnHandle
  <2>8. QED
    BY <1>1, <1>5, <1>6, <1>7, <1>8, <2>4, <2>7 DEF Typed
<1>11. QED
  BY <1>9, <1>10

LEMMA UnlinkRowTyped == ASSUME TInv, NEW t \in Thread, UnlinkRow(t) PROVE Typed' /\ Alone'
<1> DEFINE p == th[t].path
           f == FileAt(p)
<1>1. UNCHANGED <<table, nextFh, clock, allow>> /\ Entries(table') /\ allow' \in Limit
  BY DEF UnlinkRow, TInv, Typed
<1>2. CASE Return(t) /\ UNCHANGED <<disk, handles>>
  BY <1>1, <1>2, ReturnStep
<1>3. CASE ~(Return(t) /\ UNCHANGED <<disk, handles>>)
  <2>1. /\ At(p) # {} /\ handles' = Unsteady(handles, Using(f)) /\ Go(t, "remove")
        /\ disk' = IF disk[f].remote THEN [disk EXCEPT ![f].state = "deleting"] ELSE Less(disk, {f})
    BY <1>3 DEF UnlinkRow, IsFile
  <2>2. f \in DOMAIN disk
    BY <2>1 DEF At, FileAt
  <2> HIDE DEF f
  <2>3. Rows'
    <3>1. CASE disk[f].remote
      <4> DEFINE row == [disk[f] EXCEPT !.state = "deleting"]
      <4>1. disk' = [disk EXCEPT ![f] = row]
        BY <2>1, <3>1
      <4>2. row \in Row /\ IsFiniteSet(row.data)
        BY <2>2 DEF TInv, Typed, Rows, Row, RowState
      <4> HIDE DEF row
      <4>3. QED
        BY <1>1, <2>2, <4>1, <4>2 DEF TInv, Typed, Rows
    <3>2. CASE ~disk[f].remote
      BY <1>1, <2>1, <3>2, RowsKept DEF TInv, Typed, Rows, Less
    <3>3. QED
      BY <3>1, <3>2
  <2>4. /\ Copies(handles') /\ DOMAIN handles' = DOMAIN handles
        /\ \A h \in DOMAIN handles : handles'[h].held = handles[h].held
    BY <2>1, UnsteadyType DEF TInv, Typed
  <2> DEFINE r == [th[t] EXCEPT !.pc = "remove"]
  <2>5. Fits(r) /\ r.fh = th[t].fh /\ r.op = th[t].op /\ Become(t, r)
    BY <2>1, GoFits DEF Closing
  <2> HIDE DEF r
  <2>6. QED
    BY <1>1, <2>3, <2>4, <2>5, HandleStep
<1>4. QED
  BY <1>2, <1>3

LEMMA RemoveEntryTyped == ASSUME TInv, NEW t \in Thread, RemoveEntry(t) PROVE Typed' /\ Alone'
<1>1. /\ UNCHANGED <<disk, handles, nextFh, clock, allow>> /\ Return(t) /\ allow' \in Limit
      /\ table' = Stale(Removed(table, th[t].ino), th[t].dir)
  BY DEF RemoveEntry, TInv, Typed
<1>2. Entries(table')
  BY <1>1, RemovedSound, RemovedType, StaleType DEF TInv, Inv, Typed
<1>3. QED
  BY <1>1, <1>2, ReturnStep

LEMMA RenameRowTyped == ASSUME TInv, NEW t \in Thread, RenameRow(t) PROVE Typed' /\ Alone'
<1> DEFINE r == th[t]
           old == r.path
           new == r.to
           below == {f \in DOMAIN disk : Under(old, disk[f].path)}
           clash == {f \in below : \E g \in At(InPlace(old, new, disk[f].path)) :
                                     g \in below => Len(disk[f].path) <= Len(disk[g].path)}
                    \cup {f \in DOMAIN disk : LikeUnder(old, disk[f].path)}
           moved == {f \in below : \A g \in clash : Len(disk[f].path) < Len(disk[g].path)}
           taken == UNION {Using(f) : f \in moved}
           lost == {h \in taken : clash # {} \/ Committing(h) \/ Midway(h)}
           next == [r EXCEPT !.pc = "rekey", !.moved = taken]
<1>1. UNCHANGED <<table, nextFh, clock, allow>> /\ Entries(table') /\ allow' \in Limit
  BY DEF RenameRow, TInv, Typed
<1>2. CASE Return(t) /\ UNCHANGED <<disk, handles>>
  BY <1>1, <1>2, ReturnStep
<1>3. CASE ~(Return(t) /\ UNCHANGED <<disk, handles>>)
  <2>1. /\ disk' = [f \in DOMAIN disk |-> IF f \in moved
                                        THEN [disk[f] EXCEPT !.path = InPlace(old, new, @)]
                                        ELSE disk[f]]
        /\ handles' = Unsteady(handles, lost)
        /\ IF clash = {} THEN Become(t, next) ELSE Return(t)
    BY <1>3 DEF RenameRow
  <2>2. taken \subseteq Nat
    BY DEF Using, TInv, Typed
  <2> HIDE DEF clash, moved, taken, lost
  <2>3. Fits(r) /\ r \in Request
    BY DEF TInv, Typed, Fits
  <2>4. Rows'
    <3>1. \A f \in DOMAIN disk : /\ InPlace(old, new, disk[f].path) \in Path
                                  /\ disk[f] \in Row /\ IsFiniteSet(disk[f].data)
      BY <2>3, InPlaceType, PathType DEF TInv, Typed, Rows, Request
    <3>2. \A f \in DOMAIN disk :
             LET row == [disk[f] EXCEPT !.path = InPlace(old, new, disk[f].path)]
             IN  row \in Row /\ row.data = disk[f].data
      BY <3>1 DEF Row
    <3>3. QED
      BY <1>1, <2>1, <3>1, <3>2 DEF TInv, Typed, Rows
  <2>5. /\ Copies(handles') /\ DOMAIN handles' = DOMAIN handles
        /\ \A h \in DOMAIN handles : handles'[h].held = handles[h].held
    BY <2>1, UnsteadyType DEF TInv, Typed
  <2>6. Fits(next) /\ next.fh = r.fh /\ next.op = r.op
    BY <2>2, <2>3 DEF Fits, Request, Step, OfHandle, Closing
  <2> HIDE DEF next
  <2>7. QED
    BY <1>1, <2>1, <2>4, <2>5, <2>6, HandleStep, ReturnHandleStep
<1>4. QED
  BY <1>2, <1>3

LEMMA RekeyedType ==
    ASSUME Typed, NEW i, NEW old \in Path, NEW new \in Path, NEW d \in Nat
    PROVE  LET hs == Rekeyed(i, old, new, d)
           IN  /\ Copies(hs) /\ DOMAIN hs = DOMAIN handles
               /\ \A h \in DOMAIN handles :
                     /\ hs[h].path = IF IsPrefix(old, handles[h].path)
                                     THEN InPlace(old, new, handles[h].path) ELSE handles[h].path
                     /\ hs[h].file = handles[h].file /\ hs[h].data = handles[h].data
                     /\ hs[h].dirty = handles[h].dirty /\ hs[h].held = handles[h].held
                     /\ hs[h].steady = handles[h].steady
<1> DEFINE g(h) == [handles[h] EXCEPT !.path = InPlace(old, new, handles[h].path),
                                      !.parent = IF handles[h].ino = i THEN d ELSE @]
           hs == Rekeyed(i, old, new, d)
<1>1. hs = [h \in DOMAIN handles |-> IF IsPrefix(old, handles[h].path) THEN g(h) ELSE handles[h]]
  BY DEF Rekeyed
<1>2. ASSUME NEW h \in DOMAIN handles
      PROVE  /\ g(h) \in Handle /\ g(h).path = InPlace(old, new, handles[h].path)
             /\ g(h).file = handles[h].file /\ g(h).data = handles[h].data
             /\ g(h).dirty = handles[h].dirty /\ g(h).held = handles[h].held
             /\ g(h).steady = handles[h].steady
  <2>1. handles[h] \in Handle
    BY DEF Typed, Copies
  <2>2. InPlace(old, new, handles[h].path) \in Path
    BY <2>1, InPlaceType, PathType
  <2>3. QED
    BY <2>1, <2>2 DEF Handle
<1> HIDE DEF g, hs
<1>3. QED
  BY <1>1, <1>2 DEF hs, Typed, Copies

LEMMA RenameEntryTyped == ASSUME TInv, NEW t \in Thread, RenameEntry(t) PROVE Typed' /\ Alone'
<1> DEFINE r == th[t]
           taken == {table.byPath[p] : p \in {r.to} \cap DOMAIN table.byPath} \ {r.ino}
           tab == IF taken = {} THEN table ELSE Removed(table, CHOOSE j \in taken : TRUE)
           known == r.ino \in DOMAIN tab.entries
           mov == IF known THEN Moved(tab, r.ino, r.to, r.newDir) ELSE tab
           old == tab.entries[r.ino].path
           hs == IF known THEN Rekeyed(r.ino, old, r.to, r.newDir) ELSE handles
<1>1. /\ table' = Stale(Stale(mov, r.dir), r.newDir) /\ \E lost : handles' = Unsteady(hs, lost)
      /\ UNCHANGED <<disk, nextFh, clock, allow>> /\ Return(t) /\ allow' \in Limit
  BY DEF RenameEntry, TInv, Typed
<1>2. Fits(r) /\ r \in Request
  BY DEF TInv, Typed, Fits
<1>3. Sound(tab) /\ Entries(tab)
  BY RemovedSound, RemovedType DEF TInv, Inv, Typed
<1> HIDE DEF tab
<1>4. Sound(mov) /\ Entries(mov)
  BY <1>2, <1>3, MovedSound, MovedType DEF Request
<1> HIDE DEF mov
<1>5. Entries(table')
  BY <1>1, <1>4, StaleSound, StaleType
<1>6. /\ Copies(hs) /\ DOMAIN hs = DOMAIN handles
      /\ \A h \in DOMAIN handles : hs[h].held = handles[h].held
  <2>1. known => old \in Path
    BY <1>3, PathType DEF Entries
  <2>2. r.to \in Path /\ r.newDir \in Nat
    BY <1>2 DEF Request
  <2> HIDE DEF old, known
  <2>3. CASE known
    BY <2>1, <2>2, <2>3, RekeyedType DEF TInv
  <2>4. QED
    BY <2>3 DEF TInv, Typed
<1> HIDE DEF hs
<1>7. /\ Copies(handles') /\ DOMAIN handles' = DOMAIN handles
      /\ \A h \in DOMAIN handles : handles'[h].held = handles[h].held
  BY <1>1, <1>6, UnsteadyType
<1>8. Rows'
  BY <1>1 DEF TInv, Typed, Rows
<1>9. QED
  BY <1>1, <1>5, <1>7, <1>8, ReturnHandleStep

(* A new request on a handle that the kernel holds.                           *)
LEMMA CallTyped ==
    ASSUME TInv, NEW t \in Thread, NEW r, Fits(r), Become(t, r),
           r.fh \in DOMAIN handles, Held(r.fh), r.op # "setattr",
           r.op = "release" => OnHandle(r.fh) = {},
           DOMAIN handles' = DOMAIN handles, Copies(handles'), UNCHANGED nextFh,
           \A h \in DOMAIN handles : handles'[h].held = handles[h].held,
           Rows', Entries(table'), allow' \in Limit
    PROVE  Typed' /\ Alone'
<1>1. th'[t] = r /\ \A u \in Thread \ {t} : th'[u] = th[u]
  BY DEF TInv, Inv, Become
<1>2. \A u \in Thread : Fits(th'[u])
  BY FitsKept DEF TInv
<1>3. ASSUME NEW u \in Thread, th'[u].fh # 0
      PROVE  /\ th'[u].fh \in DOMAIN handles'
             /\ th'[u].op \in {"release", "setattr"} => {v \in Thread : th'[v].fh = th'[u].fh} = {u}
             /\ th'[u].op = "setattr" => ~handles'[th'[u].fh].held
  <2>1. CASE u = t
    BY <1>1, <2>1 DEF OnHandle
  <2>2. CASE u # t
    <3>1. th'[u] = th[u] /\ th[u].fh # 0
      BY <1>1, <1>3, <2>2
    <3>2. th[u].fh \in DOMAIN handles /\ (th[u].op = "setattr" => ~handles[th[u].fh].held)
      BY <3>1 DEF TInv, Alone
    <3>3. ASSUME th[u].op \in {"release", "setattr"} PROVE th[u].fh # r.fh
      BY <3>2, <3>3 DEF Held, OnHandle
    <3>4. ASSUME th[u].op \in {"release", "setattr"}
          PROVE  {v \in Thread : th'[v].fh = th[u].fh} = {u}
      <4>1. {v \in Thread : th[v].fh = th[u].fh} = {u}
        BY <3>1, <3>4 DEF TInv, Alone, OnHandle
      <4>2. QED
        BY <1>1, <2>2, <3>1, <3>3, <3>4, <4>1
    <3>5. QED
      BY <3>1, <3>2, <3>4
  <2>3. QED
    BY <2>1, <2>2
<1>4. Alone'
  BY <1>3 DEF Alone, OnHandle
<1>5. Typed'
  BY <1>2 DEF TInv, Typed
<1>6. QED
  BY <1>4, <1>5

LEMMA StagedType ==
    ASSUME Typed, NEW h, NEW cut
    PROVE  /\ Copies(Staged(h, cut)) /\ DOMAIN Staged(h, cut) = DOMAIN handles
           /\ \A g \in DOMAIN handles :
                 LET x == Staged(h, cut)[g]
                 IN  /\ x.path = handles[g].path /\ x.file = handles[g].file
                     /\ x.dirty = handles[g].dirty /\ x.held = handles[g].held
                     /\ x.steady = handles[g].steady /\ (g # h => x = handles[g])
<1> DEFINE data == IF cut THEN {} ELSE handles[h].data \cup {clock + 1}
           new == [handles[h] EXCEPT !.data = data]
<1>1. Staged(h, cut) = [handles EXCEPT ![h] = new]
  BY DEF Staged
<1>2. ASSUME h \in DOMAIN handles
      PROVE  /\ new \in Handle /\ IsFiniteSet(new.data)
             /\ new.path = handles[h].path /\ new.file = handles[h].file
             /\ new.dirty = handles[h].dirty /\ new.held = handles[h].held
             /\ new.steady = handles[h].steady
  <2>1. handles[h] \in Handle /\ IsFiniteSet(handles[h].data) /\ clock \in Nat
    BY <1>2 DEF Typed, Copies, Rows
  <2>2. data \subseteq Nat
    BY <2>1 DEF Handle
  <2>3. IsFiniteSet(data)
    BY <2>1, FS_EmptySet, FS_AddElement
  <2> HIDE DEF data
  <2>4. QED
    BY <2>1, <2>2, <2>3 DEF Handle
<1> HIDE DEF new
<1>3. QED
  BY <1>1, <1>2 DEF Typed, Copies

LEMMA WriteCallTyped == ASSUME TInv, NEW t \in Thread, WriteCall(t) PROVE Typed' /\ Alone'
<1> DEFINE r(h) == [Idle EXCEPT !.op = "write", !.pc = "mark", !.fh = h, !.ino = handles[h].ino]
<1>1. PICK h \in DOMAIN handles, cut \in BOOLEAN :
         /\ Held(h) /\ Use("write") /\ handles' = Staged(h, cut) /\ clock' = clock + 1
         /\ Become(t, r(h)) /\ UNCHANGED <<disk, table, nextFh>>
  BY DEF WriteCall
<1>2. handles[h].ino \in Nat /\ h \in Nat \ {0}
  BY DEF TInv, Typed, Copies, Handle
<1>3. r(h) \in Request /\ r(h).fh = h /\ r(h).op = "write" /\ r(h).pc = "mark" /\ r(h).data = {}
  BY <1>2, IdleFits DEF Fits, Request, Idle, Op, Step
<1> HIDE DEF r
<1>4. Fits(r(h))
  BY <1>2, <1>3, FS_EmptySet DEF Fits, OfHandle, Closing
<1>5. Rows' /\ Entries(table') /\ allow' \in Limit
  BY <1>1, RowsKept, UseType DEF TInv, Typed, Rows
<1>6. /\ Copies(handles') /\ DOMAIN handles' = DOMAIN handles
      /\ \A g \in DOMAIN handles : handles'[g].held = handles[g].held
  BY <1>1, StagedType DEF TInv
<1>7. QED
  BY <1>1, <1>3, <1>4, <1>5, <1>6, CallTyped

LEMMA TruncateTempTyped ==
    ASSUME TInv, NEW t \in Thread, TruncateTemp(t) PROVE Typed' /\ Alone'
<1> DEFINE r == [th[t] EXCEPT !.pc = "mark"]
<1>1. /\ Pc(t) = "stage" /\ handles' = Staged(th[t].fh, TRUE) /\ Go(t, "mark")
      /\ UNCHANGED <<disk, table, nextFh, clock, allow>>
  BY DEF TruncateTemp
<1>2. th[t].fh # 0
  BY <1>1 DEF TInv, Typed, Fits, OfHandle, Pc
<1>3. Fits(r) /\ r.fh = th[t].fh /\ r.op = th[t].op /\ Become(t, r)
  BY <1>1, <1>2, GoFits DEF Closing
<1> HIDE DEF r
<1>4. Rows' /\ Entries(table') /\ allow' \in Limit
  BY <1>1 DEF TInv, Typed, Rows
<1>5. /\ Copies(handles') /\ DOMAIN handles' = DOMAIN handles
      /\ \A g \in DOMAIN handles : handles'[g].held = handles[g].held
  <2>1. PICK h, cut : handles' = Staged(h, cut)
    BY <1>1
  <2>2. QED
    BY <2>1, StagedType DEF TInv
<1>6. QED
  BY <1>1, <1>3, <1>4, <1>5, HandleStep

LEMMA MarkDirtyTyped == ASSUME TInv, NEW t \in Thread, MarkDirty(t) PROVE Typed' /\ Alone'
<1> DEFINE h == th[t].fh
           hs == [handles EXCEPT ![h].dirty = TRUE]
           next == [th[t] EXCEPT !.pc = "apply", !.path = handles[h].path]
<1>1. /\ Pc(t) = "mark" /\ \E S : handles' = Unsteady(hs, S)
      /\ table' = Resized(table, handles[h].ino, Size(handles[h].data))
      /\ Return(t) \/ (th[t].op = "setattr" /\ Become(t, next))
      /\ UNCHANGED <<disk, nextFh, clock, allow>>
  BY DEF MarkDirty
<1>2. Fits(th[t]) /\ h # 0 /\ h \in DOMAIN handles
  BY <1>1 DEF TInv, Typed, Fits, OfHandle, Pc, Alone
<1>3. handles[h] \in Handle /\ IsFiniteSet(handles[h].data)
  BY <1>2 DEF TInv, Typed, Copies
<1>4. /\ Copies(hs) /\ DOMAIN hs = DOMAIN handles
      /\ \A g \in DOMAIN handles : hs[g].held = handles[g].held
  BY <1>2, <1>3 DEF TInv, Typed, Copies, Handle
<1> HIDE DEF hs
<1>5. /\ Copies(handles') /\ DOMAIN handles' = DOMAIN handles
      /\ \A g \in DOMAIN handles : handles'[g].held = handles[g].held
  BY <1>1, <1>4, UnsteadyType
<1>6. Entries(table')
  BY <1>1, <1>3, SizeType, ResizedType DEF TInv, Inv, Typed
<1>7. Rows' /\ allow' \in Limit
  BY <1>1 DEF TInv, Typed, Rows
<1>8. CASE Return(t)
  BY <1>1, <1>5, <1>6, <1>7, <1>8, ReturnHandleStep
<1>9. CASE th[t].op = "setattr" /\ Become(t, next)
  <2>1. Fits(next) /\ next.fh = th[t].fh /\ next.op = th[t].op
    BY <1>2, <1>3, <1>9, PathType DEF Fits, Request, Step, OfHandle, Closing
  <2> HIDE DEF next
  <2>2. QED
    BY <1>1, <1>5, <1>6, <1>7, <1>9, <2>1, HandleStep
<1>10. QED
  BY <1>1, <1>8, <1>9

LEMMA CommitCallTyped == ASSUME TInv, NEW t \in Thread, CommitCall(t) PROVE Typed' /\ Alone'
<1> DEFINE r(op, h) == [Idle EXCEPT !.op = op, !.pc = IF handles[h].dirty THEN "apply" ELSE "finish",
                                    !.fh = h, !.ino = handles[h].ino, !.path = handles[h].path]
<1>1. PICK h \in DOMAIN handles, op \in {"flush", "fsync", "release"} :
         /\ Held(h) /\ (handles[h].dirty \/ op = "release")
         /\ op = "release" => OnHandle(h) = {}
         /\ UNCHANGED allow \/ Use("flush")
         /\ Become(t, r(op, h)) /\ \E S : handles' = Unsteady(handles, S)
         /\ UNCHANGED <<disk, table, nextFh, clock>>
  BY DEF CommitCall
<1>2. handles[h] \in Handle /\ h \in Nat \ {0}
  BY DEF TInv, Typed, Copies
<1>3. /\ r(op, h) \in Request /\ r(op, h).fh = h /\ r(op, h).op = op /\ r(op, h).data = {}
      /\ r(op, h).pc = IF handles[h].dirty THEN "apply" ELSE "finish"
  <2> DEFINE pc == IF handles[h].dirty THEN "apply" ELSE "finish"
             ino == handles[h].ino
             path == handles[h].path
  <2>1. pc \in Step /\ ino \in Nat /\ path \in Path /\ op \in Op
    BY <1>2, PathType DEF Handle, Step, Op
  <2>2. r(op, h) = [Idle EXCEPT !.op = op, !.pc = pc, !.fh = h, !.ino = ino, !.path = path]
    OBVIOUS
  <2> HIDE DEF pc, ino, path, r
  <2>3. Idle \in Request /\ Idle.data = {}
    BY IdleFits DEF Fits, Idle
  <2>4. /\ r(op, h) \in Request /\ r(op, h).fh = h /\ r(op, h).op = op /\ r(op, h).data = {}
        /\ r(op, h).pc = pc
    BY <1>2, <2>1, <2>2, <2>3 DEF Request
  <2>5. QED
    BY <2>4 DEF pc
<1> HIDE DEF r
<1>4. Fits(r(op, h))
  BY <1>1, <1>2, <1>3, FS_EmptySet DEF Fits, OfHandle, Closing
<1>5. Rows' /\ Entries(table') /\ allow' \in Limit
  BY <1>1, UseType DEF TInv, Typed, Rows
<1>6. /\ Copies(handles') /\ DOMAIN handles' = DOMAIN handles
      /\ \A g \in DOMAIN handles : handles'[g].held = handles[g].held
  BY <1>1, UnsteadyType DEF TInv, Typed
<1>7. QED
  BY <1>1, <1>3, <1>4, <1>5, <1>6, CallTyped

LEMMA FailedFits ==
    ASSUME TInv, NEW t \in Thread, th[t].pc \in {"apply", "record"}, CommitFailed(t)
    PROVE  \E r : /\ Fits(r) /\ Become(t, r)
                  /\ r.fh = 0 \/ (r.fh = th[t].fh /\ r.op = th[t].op)
<1>1. CASE th[t].op = "release"
  <2> DEFINE r == [th[t] EXCEPT !.pc = "drop"]
  <2>1. th[t].fh # 0
    BY <1>1 DEF TInv, Typed, Fits
  <2>2. Fits(r) /\ r.fh = th[t].fh /\ r.op = th[t].op /\ Become(t, r)
    BY <1>1, <2>1, GoFits DEF CommitFailed, Closing
  <2> HIDE DEF r
  <2>3. QED
    BY <2>2
<1>2. CASE th[t].op # "release"
  BY <1>2, IdleFits DEF CommitFailed, Return, Idle
<1>3. QED
  BY <1>1, <1>2

LEMMA ApplyTyped == ASSUME TInv, NEW t \in Thread, Apply(t) PROVE Typed' /\ Alone'
<1> DEFINE r == th[t]
           h == r.fh
           p == r.path
           f == FileAt(p)
           w == [path |-> p, kind |-> "File", size |-> Size(handles[h].data)]
           next == [r EXCEPT !.pc = "record", !.rows = {w}]
<1>1. /\ Pc(t) = "apply" /\ UNCHANGED <<table, nextFh, clock, allow>>
      /\ Entries(table') /\ allow' \in Limit
  BY DEF Apply, TInv, Typed
<1>2. Fits(r) /\ r \in Request /\ h \in DOMAIN handles
  BY <1>1 DEF TInv, Typed, Fits, OfHandle, Pc, Alone
<1>3. handles[h] \in Handle /\ IsFiniteSet(handles[h].data)
  BY <1>2 DEF TInv, Typed, Copies
<1>4. CASE ~IsFile(p)
  <2>1. CommitFailed(t) /\ UNCHANGED <<disk, handles>>
    BY <1>4 DEF Apply
  <2>2. QED
    BY <1>1, <2>1, FailedFits, ThreadStep DEF Pc
<1>5. CASE IsFile(p)
  <2> DEFINE row == [disk[f] EXCEPT !.data = handles[h].data,
                                    !.state = IF @ = "kept" THEN @ ELSE "revived"]
  <2>1. /\ disk' = [disk EXCEPT ![f] = row]
        /\ handles' = Unsteady(handles, Using(f) \ {h})
        /\ Become(t, next)
    BY <1>5 DEF Apply
  <2>2. f \in DOMAIN disk
    BY <1>5 DEF IsFile, At, FileAt
  <2>3. row \in Row /\ IsFiniteSet(row.data)
    BY <1>3, <2>2 DEF TInv, Typed, Rows, Row, RowState, Handle
  <2> HIDE DEF row
  <2>4. Rows'
    BY <1>1, <2>1, <2>2, <2>3 DEF TInv, Typed, Rows
  <2>5. /\ Copies(handles') /\ DOMAIN handles' = DOMAIN handles
        /\ \A g \in DOMAIN handles : handles'[g].held = handles[g].held
    BY <2>1, UnsteadyType DEF TInv, Typed
  <2>6. Fits(next) /\ next.fh = r.fh /\ next.op = r.op
    <3>1. w \in StoredRow /\ w.path = p
      BY <1>2, <1>3, SizeType DEF StoredRow, Kind, Request
    <3> HIDE DEF w
    <3>2. QED
      BY <1>1, <1>2, <3>1 DEF Fits, Request, Step, OfHandle, Closing, Pc
  <2> HIDE DEF next
  <2>7. QED
    BY <1>1, <2>1, <2>4, <2>5, <2>6, HandleStep
<1>6. QED
  BY <1>4, <1>5

LEMMA RecordTyped == ASSUME TInv, NEW t \in Thread, Record(t) PROVE Typed' /\ Alone'
<1> DEFINE r == th[t]
           h == r.fh
           i == handles[h].ino
           d == handles[h].parent
           w == CHOOSE w \in r.rows : TRUE
<1>1. Pc(t) = "record" /\ UNCHANGED <<disk, nextFh, clock, allow>> /\ Rows' /\ allow' \in Limit
  BY DEF Record, TInv, Typed, Rows
<1>2. Fits(r) /\ r \in Request /\ h \in DOMAIN handles /\ handles[h] \in Handle
  BY <1>1 DEF TInv, Typed, Fits, OfHandle, Pc, Alone, Copies
<1>3. CASE i \in DOMAIN table.entries
  <2>1. /\ table' = Stale(Updated(table, i, w, d), d)
        /\ handles' = [handles EXCEPT ![h].path = w.path, ![h].dirty = FALSE]
        /\ IF r.op \in {"flush", "fsync"} THEN Return(t) ELSE Go(t, "finish")
    BY <1>3 DEF Record
  <2>2. w \in StoredRow \cup Entry /\ w.path \in Path
    <3>1. r.rows # {} /\ r.rows \subseteq StoredRow \cup Entry
      BY <1>1, <1>2 DEF Fits, Request, Pc
    <3>2. w \in StoredRow \cup Entry
      BY <3>1
    <3>3. QED
      BY <3>2, PathType DEF StoredRow
  <2>3. d \in Nat
    BY <1>2 DEF Handle
  <2> HIDE DEF w, d
  <2>4. Entries(table')
    BY <1>3, <2>1, <2>2, <2>3, UpdatedType, UpdatedSound, StaleType DEF TInv, Inv, Typed
  <2>5. /\ Copies(handles') /\ DOMAIN handles' = DOMAIN handles
        /\ \A g \in DOMAIN handles : handles'[g].held = handles[g].held
    BY <1>2, <2>1, <2>2 DEF TInv, Typed, Copies, Handle
  <2>6. CASE r.op \in {"flush", "fsync"}
    BY <1>1, <2>1, <2>4, <2>5, <2>6, ReturnHandleStep
  <2>7. CASE r.op \notin {"flush", "fsync"}
    <3> DEFINE next == [r EXCEPT !.pc = "finish"]
    <3>1. r.op \in {"release", "setattr"} /\ r.fh # 0
      BY <1>1, <1>2, <2>7 DEF Fits, OfHandle, Pc
    <3>2. Fits(next) /\ next.fh = r.fh /\ next.op = r.op /\ Become(t, next)
      BY <2>1, <2>7, <3>1, GoFits DEF Closing
    <3> HIDE DEF next
    <3>3. QED
      BY <1>1, <2>4, <2>5, <3>2, HandleStep
  <2>8. QED
    BY <2>6, <2>7
<1>4. CASE i \notin DOMAIN table.entries
  <2>1. CommitFailed(t) /\ UNCHANGED <<table, handles>>
    BY <1>4 DEF Record
  <2>2. Entries(table')
    BY <2>1 DEF TInv, Typed
  <2>3. QED
    BY <1>1, <2>1, <2>2, FailedFits, ThreadStep DEF Pc
<1>5. QED
  BY <1>3, <1>4

LEMMA FinishTyped == ASSUME TInv, NEW t \in Thread, Finish(t) PROVE Typed' /\ Alone'
<1> DEFINE h == th[t].fh
<1>1. /\ Pc(t) \in Closing /\ handles' = Less(handles, {h}) /\ Return(t)
      /\ UNCHANGED <<disk, table, nextFh, clock, allow>>
  BY DEF Finish, Closing
<1>2. h # 0 /\ OnHandle(h) = {t}
  BY <1>1 DEF TInv, Typed, Fits, OfHandle, Closing, Pc, Alone
<1>3. /\ DOMAIN handles' = DOMAIN handles \ {h}
      /\ \A g \in DOMAIN handles' : handles'[g] = handles[g]
  BY <1>1 DEF Less
<1>4. \A u \in Thread : Fits(th'[u])
  BY <1>1, ReturnFits DEF TInv
<1>5. Typed'
  BY <1>1, <1>3, <1>4 DEF TInv, Typed, Rows, Copies
<1>6. th'[t].fh = 0 /\ \A u \in Thread \ {t} : th'[u] = th[u]
  BY <1>1 DEF TInv, Inv, Return, Become, Idle
<1>7. ASSUME NEW u \in Thread, th'[u].fh # 0
      PROVE  /\ th'[u].fh \in DOMAIN handles'
             /\ th'[u].op \in {"release", "setattr"} => {v \in Thread : th'[v].fh = th'[u].fh} = {u}
             /\ th'[u].op = "setattr" => ~handles'[th'[u].fh].held
  <2>1. u # t /\ th'[u] = th[u] /\ th[u].fh # h
    BY <1>2, <1>6, <1>7 DEF OnHandle
  <2>2. \A v \in Thread : th'[v].fh = th[u].fh => th[v].fh = th[u].fh
    BY <1>6, <1>7, <2>1
  <2>3. QED
    BY <1>3, <1>7, <2>1, <2>2 DEF TInv, Alone, OnHandle
<1>8. Alone'
  BY <1>7 DEF Alone, OnHandle
<1>9. QED
  BY <1>5, <1>8

LEMMA FailTyped == ASSUME TInv, NEW t \in Thread, Fail(t) PROVE Typed' /\ Alone'
<1>1. /\ UNCHANGED <<disk, table, nextFh, clock>> /\ Use("fault")
      /\ \/ Return(t) /\ UNCHANGED handles
         \/ Return(t) /\ handles' = Unsteady(handles, {th[t].fh})
         \/ /\ Pc(t) = "apply" /\ CommitFailed(t)
            /\ handles' = Unsteady(handles, {th[t].fh})
  BY DEF Fail
<1>2. Rows' /\ Entries(table') /\ allow' \in Limit
  BY <1>1, UseType DEF TInv, Typed, Rows
<1>3. CASE Return(t) /\ UNCHANGED handles
  BY <1>1, <1>2, <1>3, ReturnStep
<1>4. ASSUME handles' = Unsteady(handles, {th[t].fh})
      PROVE  /\ Copies(handles') /\ DOMAIN handles' = DOMAIN handles
             /\ \A g \in DOMAIN handles : handles'[g].held = handles[g].held
  BY <1>4, UnsteadyType DEF TInv, Typed
<1>5. CASE Return(t) /\ handles' = Unsteady(handles, {th[t].fh})
  BY <1>1, <1>2, <1>4, <1>5, ReturnHandleStep
<1>6. CASE /\ Pc(t) = "apply" /\ CommitFailed(t)
           /\ handles' = Unsteady(handles, {th[t].fh})
  BY <1>1, <1>2, <1>4, <1>6, FailedFits, HandleStep DEF Pc
<1>7. QED
  BY <1>1, <1>3, <1>5, <1>6

LEMMA InitTyped == ASSUME Init PROVE TInv
<1> DEFINE row == SetToSeq(Tree)
           all == 1 .. Len(row)
           inoOf(p) == IF p = <<>> THEN Root ELSE 1 + CHOOSE k \in all : row[k].path = p
           data(k) == IF row[k].kind = "File" THEN {0} ELSE {}
           stored(k) == [path |-> row[k].path, kind |-> row[k].kind, remote |-> TRUE,
                         state |-> "kept", data |-> data(k)]
           entry(i) == IF i = Root
                       THEN [path |-> <<>>, kind |-> "Dir", size |-> 0, parent |-> Root]
                       ELSE [path |-> row[i - 1].path, kind |-> row[i - 1].kind,
                             size |-> IF row[i - 1].kind = "File" THEN 1 ELSE 0,
                             parent |-> inoOf(ParentPath(row[i - 1].path))]
<1>1. /\ row \in Seq(Tree) /\ Len(row) \in Nat
      /\ \A x \in Tree : \E k \in all : row[k] = x
  BY TreeInRows
<1>2. /\ table.entries = [i \in 1 .. Len(row) + 1 |-> entry(i)]
      /\ disk = [k \in all |-> stored(k)]
      /\ handles = <<>> /\ nextFh = 1 /\ th = [t \in Thread |-> Idle] /\ clock = Len(row)
      /\ allow \in Limits
  BY DEF Init
<1> HIDE DEF row
<1>3. \A k \in all : row[k] \in Tree /\ row[k].path \in Path /\ row[k].kind \in Kind
  BY <1>1, HandlesAssumption
<1>4. ASSUME NEW k \in all PROVE inoOf(ParentPath(row[k].path)) \in Nat
  <2> DEFINE p == ParentPath(row[k].path)
  <2>1. p = <<>> \/ \E s \in Tree : s.path = p
    BY <1>3, TreeAssumption
  <2> HIDE DEF p
  <2>2. CASE p = <<>>
    BY <2>2 DEF Root, p
  <2>3. CASE p # <<>>
    <3>1. \E j \in all : row[j].path = p
      BY <1>1, <2>1, <2>3
    <3> DEFINE at == CHOOSE j \in all : row[j].path = p
    <3>2. at \in all
      BY <3>1
    <3>3. inoOf(p) = 1 + at
      BY <2>3
    <3> HIDE DEF at, inoOf
    <3>4. inoOf(p) \in Nat
      BY <1>1, <3>2, <3>3
    <3>5. QED
      BY <3>4 DEF p
  <2>4. QED
    BY <2>2, <2>3
<1> HIDE DEF inoOf
<1>5. ASSUME NEW i \in 1 .. Len(row) + 1 PROVE entry(i) \in Entry
  <2>1. CASE i = Root
    BY <2>1, PathType DEF Entry, Kind, Root
  <2>2. CASE i # Root
    <3>1. i - 1 \in all
      BY <1>1, <2>2 DEF Root
    <3>2. QED
      BY <1>3, <1>4, <2>2, <3>1 DEF Entry
  <2>3. QED
    BY <2>1, <2>2
<1>6. ASSUME NEW k \in all PROVE stored(k) \in Row /\ IsFiniteSet(stored(k).data)
  <2>0. {0} \subseteq Nat /\ IsFiniteSet({0}) /\ IsFiniteSet({})
    BY FS_EmptySet, FS_Singleton
  <2>1. data(k) \subseteq Nat /\ IsFiniteSet(data(k))
    BY <2>0
  <2> HIDE DEF data
  <2>2. QED
    BY <1>3, <2>1 DEF Row, RowState
<1> HIDE DEF entry, stored
<1>7. Rows
  BY <1>1, <1>2, <1>6 DEF Rows
<1>8. Typed
  BY <1>2, <1>5, <1>7, IdleFits, HandlesAssumption DEF Typed, Entries, Copies
<1>9. Alone
  BY <1>2 DEF Alone, Idle
<1>10. QED
  BY <1>8, <1>9, InitInv DEF TInv

LEMMA TInvKept == ASSUME TInv, [Next]_vars PROVE TInv'
<1>1. Inv'
  BY InvKept DEF TInv
<1>2. CASE UNCHANGED vars
  <2>1. UNCHANGED <<disk, table, handles, nextFh, th, clock, allow>>
    BY <1>2 DEF vars
  <2>2. Typed' /\ Alone'
    BY <2>1 DEF TInv, Typed, Rows, Alone, OnHandle
  <2>3. QED
    BY <1>1, <2>2 DEF TInv
<1>3. CASE DeleteDone
  BY <1>1, <1>3, DeleteDoneTyped DEF TInv
<1>4. ASSUME NEW t \in Thread,
             \/ NameCall(t) \/ InodeCall(t) \/ WriteCall(t) \/ CommitCall(t)
             \/ ReplaceChildren(t) \/ FindChild(t) \/ FindParent(t) \/ Refresh(t)
             \/ MakeRow(t) \/ Enter(t) \/ Load(t) \/ Insert(t)
             \/ UnlinkRow(t) \/ RemoveEntry(t) \/ RenameRow(t) \/ RenameEntry(t)
             \/ TruncateTemp(t) \/ MarkDirty(t) \/ Apply(t) \/ Record(t) \/ Finish(t)
             \/ Fail(t)
      PROVE  TInv'
  <2>1. Typed' /\ Alone'
    BY <1>4, NameCallTyped, InodeCallTyped, WriteCallTyped, CommitCallTyped, ReplaceChildrenTyped,
       FindTyped, RefreshTyped, MakeRowTyped, EnterTyped, LoadTyped, InsertTyped, UnlinkRowTyped,
       RemoveEntryTyped, RenameRowTyped, RenameEntryTyped, TruncateTempTyped, MarkDirtyTyped,
       ApplyTyped, RecordTyped, FinishTyped, FailTyped
  <2>2. QED
    BY <1>1, <2>1 DEF TInv
<1>5. QED
  BY <1>2, <1>3, <1>4 DEF Next

THEOREM HandlesTyped == Spec => []TypeOK
<1>1. TInv => TypeOK
  BY DEF TInv, Typed, Rows, Entries, Copies, Alone, TypeOK
<1>2. QED
  BY <1>1, InitTyped, TInvKept, PTL DEF Spec
-----------------------------------------------------------------------------
(* What goes with a steady handle: its row, which no other handle shares; the *)
(* bytes of the one and of the other; and where the file is.                   *)
Pending(h) == \E t \in OnHandle(h) : Pc(t) = "mark"

Same(h) == disk[handles[h].file].data = handles[h].data

Owns(h) ==
    LET f == handles[h].file
    IN  /\ f \in DOMAIN disk /\ disk[f].state = "kept" /\ disk[f].kind = "File"
        /\ \A g \in DOMAIN handles : handles[g].file = f => g = h

Current(h) ==
    /\ handles[h].dirty \/ Same(h) \/ Pending(h)
    /\ \A t \in OnHandle(h) : /\ Pc(t) = "record" => Same(h) \/ Pending(h)
                              /\ Pc(t) \in Closing => Same(h)

Moving(t, h) == Pc(t) = "rekey" /\ h \in th[t].moved

Placed(h) ==
    LET p == disk[handles[h].file].path
        q == handles[h].path
    IN  /\ \A t \in OnHandle(h) : Pc(t) \in {"apply", "record"} => th[t].path = p /\ ~Midway(h)
        /\ ~Midway(h) => q = p
        /\ \A t, u \in Thread : Moving(t, h) /\ Moving(u, h) => t = u
        /\ \A t \in Thread :
              Moving(t, h) => Under(th[t].path, q) /\ p = InPlace(th[t].path, th[t].to, q)

Steady == \A h \in DOMAIN handles : handles[h].steady => Owns(h) /\ Current(h) /\ Placed(h)

PathsOnce == \A f, g \in DOMAIN disk : disk[f].path = disk[g].path => f = g

(* A rename has moved the files of handles that there have been.              *)
Historic == \A t \in Thread : Pc(t) = "rekey" => th[t].moved \subseteq 1 .. nextFh - 1

Keep == PathsOnce /\ Historic /\ Steady
-----------------------------------------------------------------------------
LEMMA UnderPrefix ==
    ASSUME NEW p \in Path, NEW q \in Path, Under(p, q) PROVE IsPrefix(p, q)
<1>1. CASE q = p
  BY <1>1 DEF IsPrefix, Path
<1>2. CASE IsPrefix(p \o <<"/">>, q)
  <2> DEFINE s == p \o <<"/">>
  <2>1. <<"/">> \in Path
    BY DEF Path
  <2>2. Len(s) = Len(p) + 1 /\ s \in Path /\ \A i \in 1 .. Len(p) : s[i] = p[i]
    BY <2>1 DEF Path
  <2>3. Len(s) <= Len(q) /\ SubSeq(s, 1, Len(s)) = SubSeq(q, 1, Len(s))
    BY <1>2 DEF IsPrefix
  <2> HIDE DEF s
  <2>4. \A i \in 1 .. Len(s) : s[i] = q[i]
    BY <2>2, <2>3 DEF Path
  <2>5. Len(p) <= Len(q) /\ \A i \in 1 .. Len(p) : p[i] = q[i]
    BY <2>2, <2>3, <2>4 DEF Path
  <2>6. SubSeq(p, 1, Len(p)) = SubSeq(q, 1, Len(p))
    BY <2>5 DEF Path
  <2>7. QED
    BY <2>5, <2>6 DEF IsPrefix
<1>3. QED
  BY <1>1, <1>2 DEF Under

LEMMA InPlaceOnce ==
    ASSUME NEW old \in Path, NEW new \in Path, NEW p \in Path, NEW q \in Path,
           IsPrefix(old, p), IsPrefix(old, q), InPlace(old, new, p) = InPlace(old, new, q)
    PROVE  p = q
<1> DEFINE s(x) == SubSeq(x, Len(old) + 1, Len(x))
           l(x) == SubSeq(x, 1, Len(old))
<1>1. ASSUME NEW x \in Path, Len(old) <= Len(x)
      PROVE  s(x) \in Path /\ l(x) \o s(x) = x
  <2>1. s(x) \in Path /\ Len(old) \in Nat /\ Len(x) \in Nat
    BY DEF Path
  <2>2. l(x) \o s(x) = SubSeq(x, 1, Len(x))
    <3> DEFINE k == Len(old)
               n == Len(x)
    <3>1. 1 \in 1 .. n + 1 /\ k \in 1 - 1 .. n /\ n \in k .. n /\ x \in Seq(Letter \cup {"/"})
      BY <1>1, <2>1 DEF Path
    <3>2. QED
      BY <3>1, ConcatAdjacentSubSeq
  <2>3. SubSeq(x, 1, Len(x)) = x
    BY SubSeqFull DEF Path
  <2>4. QED
    BY <2>1, <2>2, <2>3
<1>2. l(p) = l(q) /\ Len(old) <= Len(p) /\ Len(old) <= Len(q)
  BY DEF IsPrefix
<1>3. new \o s(p) = new \o s(q)
  BY DEF InPlace
<1>4. s(p) \in Path /\ s(q) \in Path /\ l(p) \o s(p) = p /\ l(q) \o s(q) = q
  BY <1>1, <1>2
<1> HIDE DEF s, l
<1>5. s(p) = s(q)
  BY <1>3, <1>4, ConcatSimplifications DEF Path
<1>6. QED
  BY <1>2, <1>4, <1>5
-----------------------------------------------------------------------------
(* A step that leaves alone a handle, its row and those who are at work on it. *)
LEMMA Unhurt ==
    ASSUME Inv, NEW t \in Thread, NEW r, Become(t, r),
           NEW h \in DOMAIN handles, Owns(h), Current(h), Placed(h),
           th[t].pc = "mark" => th[t].fh # h,
           r.pc \in {"apply", "record", "finish", "drop"} => r.fh # h,
           th[t].pc = "rekey" => h \notin th[t].moved,
           r.pc = "rekey" => h \notin r.moved,
           handles'[h].file = handles[h].file, handles'[h].path = handles[h].path,
           handles'[h].data = handles[h].data, handles'[h].dirty = handles[h].dirty,
           handles[h].file \in DOMAIN disk',
           LET f == handles[h].file
           IN  /\ disk'[f].path = disk[f].path /\ disk'[f].data = disk[f].data
               /\ disk'[f].kind = disk[f].kind /\ disk'[f].state = disk[f].state,
           \A g \in DOMAIN handles' :
              handles'[g].file = handles[h].file => g \in DOMAIN handles /\ handles[g].file = handles[h].file
    PROVE  (Owns(h) /\ Current(h) /\ Placed(h))'
<1>1. th'[t] = r /\ \A u \in Thread \ {t} : th'[u] = th[u]
  BY DEF Inv, Become
<1>2. Owns(h)'
  BY DEF Owns
<1>3. Same(h)' <=> Same(h)
  BY DEF Same
<1>4. Pending(h) => Pending(h)'
  BY <1>1 DEF Pending, OnHandle, Pc
<1>5. ASSUME NEW u \in Thread PROVE Moving(u, h)' <=> Moving(u, h)
  BY <1>1 DEF Moving, Pc
<1>6. Midway(h)' <=> Midway(h)
  BY <1>5 DEF Midway, Moving
<1>7. ASSUME NEW u \in Thread, th'[u].fh = h, th'[u].pc \in {"apply", "record", "finish", "drop"}
      PROVE  u \in OnHandle(h) /\ th'[u] = th[u]
  BY <1>1, <1>7 DEF OnHandle
<1>8. Current(h)'
  BY <1>3, <1>4, <1>7 DEF Current, OnHandle, Pc, Closing
<1>9. Placed(h)'
  <2>1. \A u \in Thread : Moving(u, h) => th'[u] = th[u]
    BY <1>1 DEF Moving, Pc
  <2>2. QED
    BY <1>5, <1>6, <1>7, <2>1 DEF Placed, OnHandle, Pc
<1>10. QED
  BY <1>2, <1>8, <1>9

LEMMA PathsKept ==
    ASSUME PathsOnce, DOMAIN disk' \subseteq DOMAIN disk,
           \A f \in DOMAIN disk' : disk'[f].path = disk[f].path
    PROVE  PathsOnce'
BY DEF PathsOnce

LEMMA HistoricKept ==
    ASSUME TInv, Typed', Historic, NEW t \in Thread, NEW r, Become(t, r), nextFh' >= nextFh,
           r.pc = "rekey" => r.moved \subseteq 1 .. nextFh - 1
    PROVE  Historic'
<1>1. th'[t] = r /\ \A u \in Thread \ {t} : th'[u] = th[u]
  BY DEF TInv, Inv, Become
<1>2. nextFh \in Nat /\ nextFh' \in Nat
  BY DEF TInv, Typed
<1>3. ASSUME NEW u \in Thread, th'[u].pc = "rekey" PROVE th'[u].moved \subseteq 1 .. nextFh - 1
  BY <1>1, <1>3 DEF Historic, Pc
<1>4. QED
  BY <1>2, <1>3 DEF Historic, Pc

(* The steps that are not about a handle and its file.                        *)
Loud == {"mark", "apply", "record", "finish", "drop", "rekey"}

LEMMA QuietStep ==
    ASSUME TInv, Typed', Keep, NEW t \in Thread, NEW r, Become(t, r),
           th[t].pc \notin Loud, r.pc \notin Loud,
           UNCHANGED <<disk, handles, nextFh>>
    PROVE  Keep'
<1>1. PathsOnce'
  BY DEF Keep, PathsOnce
<1>2. Historic'
  <2>1. nextFh' >= nextFh
    BY DEF TInv, Typed
  <2>2. QED
    BY <2>1, HistoricKept DEF Keep, Loud
<1>3. ASSUME NEW h \in DOMAIN handles, handles[h].steady
      PROVE  (Owns(h) /\ Current(h) /\ Placed(h))'
  <2>1. Owns(h) /\ Current(h) /\ Placed(h)
    BY <1>3 DEF Keep, Steady
  <2>2. handles[h].file \in DOMAIN disk
    BY <2>1 DEF Owns
  <2>3. QED
    BY <2>1, <2>2, Unhurt DEF TInv, Loud
<1>4. Steady'
  BY <1>3 DEF Steady
<1>5. QED
  BY <1>1, <1>2, <1>4 DEF Keep

LEMMA QuietReturn ==
    ASSUME TInv, Typed', Keep, NEW t \in Thread, Return(t), th[t].pc \notin Loud,
           UNCHANGED <<disk, handles, nextFh>>
    PROVE  Keep'
<1>1. Become(t, Idle) /\ Idle.pc \notin Loud
  BY DEF Return, Idle, Loud
<1>2. QED
  BY <1>1, QuietStep

LEMMA FreshenedQuiet ==
    ASSUME NEW r \in Request, NEW step, NEW i
    PROVE  /\ \A e : Onward(r, step, i, e).pc \notin Loud
           /\ step \in {"r_dir", "r_child", "r_parent"} => Freshened(r, step, i).pc \notin Loud
<1>1. \A e : Onward(r, step, i, e).pc \notin Loud
  BY DEF Onward, Idle, Request, Loud
<1>2. QED
  BY <1>1 DEF Freshened, Idle, Request, Loud
-----------------------------------------------------------------------------
LEMMA NameCallSteady == ASSUME TInv, Typed', Keep, NEW t \in Thread, NameCall(t) PROVE Keep'
<1>1. PICK op \in NameOps, d, e \in Folders, n, m \in Name :
         /\ Become(t, Freshened(NameRequest(op, d, n, e, m), "r_dir", d))
         /\ Pc(t) = "idle" /\ UNCHANGED <<disk, table, handles, nextFh, clock>>
  BY DEF NameCall
<1>2. Freshened(NameRequest(op, d, n, e, m), "r_dir", d).pc \notin Loud
  BY NameRequestFits, FreshenedQuiet
<1>3. QED
  BY <1>1, <1>2, QuietStep DEF Pc, Loud

LEMMA InodeCallSteady == ASSUME TInv, Typed', Keep, NEW t \in Thread, InodeCall(t) PROVE Keep'
<1>1. PICK i \in DOMAIN table.entries \ {Root}, op \in {"getattr", "open", "setattr"} :
         /\ Become(t, Freshened([Idle EXCEPT !.op = op, !.ino = i], "r_child", i))
         /\ Pc(t) = "idle" /\ UNCHANGED <<disk, table, handles, nextFh, clock>>
  BY DEF InodeCall
<1>2. Freshened([Idle EXCEPT !.op = op, !.ino = i], "r_child", i).pc \notin Loud
  BY InodeRequestFits, FreshenedQuiet
<1>3. QED
  BY <1>1, <1>2, QuietStep DEF Pc, Loud

LEMMA FindSteady ==
    ASSUME TInv, Typed', Keep, NEW t \in Thread, FindChild(t) \/ FindParent(t) PROVE Keep'
<1>1. Pc(t) \in {"child", "parent"} /\ UNCHANGED <<disk, handles, nextFh>>
  BY DEF FindChild, FindParent
<1>2. Return(t) \/ \E step \in {"r_child", "r_parent"} : \E i : Become(t, Freshened(th[t], step, i))
  BY DEF FindChild, FindParent
<1>3. th[t] \in Request
  BY DEF TInv, Typed, Fits
<1>4. \A step \in {"r_child", "r_parent"} : \A i : Freshened(th[t], step, i).pc \notin Loud
  BY <1>3, FreshenedQuiet
<1>5. QED
  BY <1>1, <1>2, <1>4, QuietStep, QuietReturn DEF Pc, Loud

LEMMA RefreshSteady ==
    ASSUME TInv, Typed', Keep, NEW t \in Thread, Refresh(t) PROVE Keep'
<1>1. Pc(t) \in {"r_dir", "r_child", "r_parent"} /\ UNCHANGED <<disk, handles, nextFh>>
  BY DEF Refresh
<1>2. Return(t) \/ \E i, e : Become(t, Onward(th[t], Pc(t), i, e))
  BY DEF Refresh
<1>3. th[t] \in Request
  BY DEF TInv, Typed, Fits
<1>4. \A i, e : Onward(th[t], Pc(t), i, e).pc \notin Loud
  BY <1>3, FreshenedQuiet
<1>5. QED
  BY <1>1, <1>2, <1>4, QuietStep, QuietReturn DEF Pc, Loud

LEMMA ReplaceChildrenSteady ==
    ASSUME TInv, Typed', Keep, NEW t \in Thread, ReplaceChildren(t) PROVE Keep'
<1> DEFINE next(pc) == [th[t] EXCEPT !.pc = pc, !.rows = {}]
<1>1. /\ Pc(t) = "replace" /\ UNCHANGED <<disk, handles, nextFh>>
      /\ Return(t) \/ \E pc \in {"parent", "child"} : Become(t, next(pc))
  BY DEF ReplaceChildren, Return
<1>2. th[t] \in Request
  BY DEF TInv, Typed, Fits
<1>3. \A pc \in {"parent", "child"} : next(pc).pc \notin Loud
  BY <1>2 DEF Request, Loud
<1> HIDE DEF next
<1>4. QED
  BY <1>1, <1>3, QuietStep, QuietReturn DEF Pc, Loud

LEMMA LoadSteady == ASSUME TInv, Typed', Keep, NEW t \in Thread, Load(t) PROVE Keep'
<1> DEFINE next(cut, f, data) == [th[t] EXCEPT !.pc = "insert", !.cut = cut, !.file = f, !.data = data]
<1>1. /\ Pc(t) = "load" /\ UNCHANGED <<disk, handles, nextFh>>
      /\ Return(t) \/ \E cut, f, data : Become(t, next(cut, f, data))
  BY DEF Load
<1>2. th[t] \in Request
  BY DEF TInv, Typed, Fits
<1>3. \A cut, f, data : next(cut, f, data).pc \notin Loud
  BY <1>2 DEF Request, Loud
<1> HIDE DEF next
<1>4. QED
  BY <1>1, <1>3, QuietStep, QuietReturn DEF Pc, Loud

LEMMA RemoveEntrySteady ==
    ASSUME TInv, Typed', Keep, NEW t \in Thread, RemoveEntry(t) PROVE Keep'
<1>1. Pc(t) = "remove" /\ UNCHANGED <<disk, handles, nextFh>> /\ Return(t)
  BY DEF RemoveEntry
<1>2. QED
  BY <1>1, QuietReturn DEF Pc, Loud

LEMMA DeleteDoneSteady == ASSUME TInv, Keep, DeleteDone PROVE Keep'
<1>1. PICK f \in DOMAIN disk : disk[f].state # "kept" /\ disk' = Less(disk, {f})
  BY DEF DeleteDone
<1>2. /\ DOMAIN disk' = DOMAIN disk \ {f} /\ \A g \in DOMAIN disk' : disk'[g] = disk[g]
      /\ UNCHANGED <<handles, nextFh, th>>
  BY <1>1 DEF DeleteDone, Less
<1>3. PathsOnce' /\ Historic'
  BY <1>2 DEF Keep, PathsOnce, Historic, Pc
<1>4. ASSUME NEW h \in DOMAIN handles, handles[h].steady
      PROVE  (Owns(h) /\ Current(h) /\ Placed(h))'
  <2>1. Owns(h) /\ Current(h) /\ Placed(h)
    BY <1>4 DEF Keep, Steady
  <2>2. handles[h].file \in DOMAIN disk' /\ disk'[handles[h].file] = disk[handles[h].file]
    BY <1>1, <1>2, <2>1 DEF Owns
  <2>3. Owns(h)'
    BY <1>2, <2>1, <2>2 DEF Owns
  <2>4. Current(h)'
    BY <1>2, <2>1, <2>2 DEF Current, Same, Pending, OnHandle, Pc
  <2>5. Placed(h)'
    BY <1>2, <2>1, <2>2 DEF Placed, Midway, Moving, OnHandle, Pc
  <2>6. QED
    BY <2>3, <2>4, <2>5
<1>5. QED
  BY <1>2, <1>3, <1>4 DEF Keep, Steady

LEMMA MakeRowSteady == ASSUME TInv, Typed', Keep, NEW t \in Thread, MakeRow(t) PROVE Keep'
<1> DEFINE r == th[t]
           kind == IF r.op = "mkdir" THEN "Dir" ELSE "File"
           row == [path |-> r.to, kind |-> kind, data |-> {}, remote |-> FALSE, state |-> "kept"]
           w == [path |-> r.to, kind |-> kind, size |-> 0]
           next == [r EXCEPT !.pc = "enter", !.file = clock + 1, !.rows = {w}]
<1>1. Pc(t) = "create" /\ UNCHANGED <<handles, nextFh>>
  BY DEF MakeRow
<1>2. CASE Return(t) /\ UNCHANGED <<disk, clock>>
  BY <1>1, <1>2, QuietReturn DEF Pc, Loud
<1>3. CASE ~(Return(t) /\ UNCHANGED <<disk, clock>>)
  <2>1. At(r.to) = {} /\ disk' = With(disk, clock + 1, row) /\ Become(t, next)
    BY <1>3 DEF MakeRow
  <2>2. next.pc = "enter"
    BY DEF TInv, Typed, Fits, Request
  <2>3. clock + 1 \notin DOMAIN disk
    BY DEF TInv, Typed, Rows
  <2>4. row.path = r.to
    OBVIOUS
  <2> HIDE DEF next, row
  <2>5. /\ DOMAIN disk' = DOMAIN disk \cup {clock + 1} /\ disk'[clock + 1] = row
        /\ \A f \in DOMAIN disk : disk'[f] = disk[f]
    BY <2>1, <2>3 DEF With
  <2>6. PathsOnce'
    BY <2>1, <2>4, <2>5 DEF Keep, PathsOnce, At
  <2>7. Historic'
    <3>1. nextFh' >= nextFh
      BY <1>1 DEF TInv, Typed
    <3>2. QED
      BY <2>1, <2>2, <3>1, HistoricKept DEF Keep
  <2>8. ASSUME NEW h \in DOMAIN handles, handles[h].steady
        PROVE  (Owns(h) /\ Current(h) /\ Placed(h))'
    <3>1. Owns(h) /\ Current(h) /\ Placed(h)
      BY <2>8 DEF Keep, Steady
    <3>2. handles[h].file \in DOMAIN disk
      BY <3>1 DEF Owns
    <3>3. QED
      BY <1>1, <2>1, <2>2, <2>5, <3>1, <3>2, Unhurt DEF TInv, Pc
  <2>9. QED
    BY <1>1, <2>6, <2>7, <2>8 DEF Keep, Steady
<1>4. QED
  BY <1>2, <1>3

(* The handle that a step opens, and the others.                              *)
LEMMA OpenStep ==
    ASSUME TInv, Typed', Keep, NEW t \in Thread, NEW r, Become(t, r),
           th[t].pc \notin Loud, r.pc \notin Loud,
           NEW new \in Handle, IsFiniteSet(new.data), handles' = Opened(new), nextFh' = nextFh + 1,
           UNCHANGED disk,
           new.steady => /\ new.file \in Kept(new.path) /\ Using(new.file) = {}
                         /\ new.dirty \/ disk[new.file].data = new.data
    PROVE  Keep'
<1> PICK n : n = nextFh
  OBVIOUS
<1>1. /\ DOMAIN handles' = DOMAIN handles \cup {nextFh} /\ nextFh \notin DOMAIN handles
      /\ handles'[nextFh] = new
      /\ \A h \in DOMAIN handles :
            /\ handles'[h].path = handles[h].path /\ handles'[h].file = handles[h].file
            /\ handles'[h].data = handles[h].data /\ handles'[h].dirty = handles[h].dirty
            /\ handles'[h].steady = (handles[h].steady /\ handles[h].file # new.file)
  BY OpenedType DEF TInv
<1>2. th'[t] = r /\ \A u \in Thread \ {t} : th'[u] = th[u]
  BY DEF TInv, Inv, Become
<1>3. PathsOnce' /\ Historic'
  <2>1. nextFh' >= nextFh
    BY DEF TInv, Typed
  <2>2. QED
    BY <2>1, HistoricKept DEF Keep, PathsOnce, Loud
<1>4. ASSUME NEW h \in DOMAIN handles, handles'[h].steady
      PROVE  (Owns(h) /\ Current(h) /\ Placed(h))'
  <2>1. handles[h].steady /\ handles[h].file # new.file
    BY <1>1, <1>4
  <2>2. Owns(h) /\ Current(h) /\ Placed(h)
    BY <2>1 DEF Keep, Steady
  <2>3. handles[h].file \in DOMAIN disk
    BY <2>2 DEF Owns
  <2>4. \A g \in DOMAIN handles' :
           handles'[g].file = handles[h].file => g \in DOMAIN handles /\ handles[g].file = handles[h].file
    BY <1>1, <2>1
  <2>5. QED
    BY <1>1, <2>2, <2>3, <2>4, Unhurt DEF TInv, Loud
<1>5. ASSUME new.steady PROVE (Owns(n) /\ Current(n) /\ Placed(n))'
  <2>1. /\ n \in DOMAIN handles' /\ handles'[n] = new /\ new.file \in DOMAIN disk
        /\ disk[new.file].path = new.path /\ disk[new.file].kind = "File"
        /\ disk[new.file].state = "kept"
    BY <1>1, <1>5 DEF Kept, At
  <2>2. \A g \in DOMAIN handles' : handles'[g].file = new.file => g = n
    BY <1>1, <1>5 DEF Using
  <2>3. \A u \in Thread : ~(th'[u].pc = "rekey" /\ n \in th'[u].moved)
    BY <1>2 DEF TInv, Typed, Keep, Historic, Pc, Loud
  <2>4. \A u \in Thread : th'[u].fh = n => th'[u].pc \notin Loud
    <3>1. \A u \in Thread : th[u].fh # n
      BY <1>1 DEF TInv, Typed, Alone
    <3>2. QED
      BY <1>2, <3>1
  <2>5. Owns(n)'
    BY <2>1, <2>2 DEF Owns
  <2>6. Current(n)'
    BY <1>5, <2>1, <2>4 DEF Current, Same, OnHandle, Pc, Loud, Closing
  <2>7. Placed(n)'
    BY <2>1, <2>3, <2>4 DEF Placed, Moving, Midway, OnHandle, Pc, Loud
  <2>8. QED
    BY <2>5, <2>6, <2>7
<1>6. Steady'
  BY <1>1, <1>4, <1>5 DEF Steady
<1>7. QED
  BY <1>3, <1>6 DEF Keep

LEMMA EnterSteady == ASSUME TInv, Typed', Keep, NEW t \in Thread, Enter(t) PROVE Keep'
<1>1. /\ Pc(t) = "enter" /\ Become(t, Idle) /\ UNCHANGED disk
      /\ th[t].op = "mkdir" => UNCHANGED <<handles, nextFh>>
  BY DEF Enter, Return
<1>2. th[t].pc \notin Loud /\ Idle.pc \notin Loud
  BY <1>1 DEF Pc, Loud, Idle
<1>3. CASE th[t].op = "mkdir"
  BY <1>1, <1>2, <1>3, QuietStep
<1>4. CASE th[t].op # "mkdir"
  <2>1. PICK new \in Handle :
           /\ IsFiniteSet(new.data) /\ handles' = Opened(new) /\ nextFh' = nextFh + 1
           /\ new.steady => /\ new.file \in Kept(new.path) /\ Using(new.file) = {}
                            /\ disk[new.file].data = new.data
    BY <1>4, EnterOpens
  <2>2. QED
    BY <1>1, <1>2, <2>1, OpenStep
<1>5. QED
  BY <1>3, <1>4

LEMMA InsertSteady == ASSUME TInv, Typed', Keep, NEW t \in Thread, Insert(t) PROVE Keep'
<1> DEFINE next == [th[t] EXCEPT !.pc = "stage", !.fh = nextFh, !.rows = {}]
<1>1. PICK new \in Handle :
         /\ IsFiniteSet(new.data) /\ handles' = Opened(new) /\ nextFh' = nextFh + 1
         /\ new.steady => /\ new.file \in Kept(new.path) /\ Using(new.file) = {}
                          /\ new.dirty \/ disk[new.file].data = new.data
  BY InsertOpens
<1>2. Pc(t) = "insert" /\ UNCHANGED disk /\ (Become(t, Idle) \/ Become(t, next))
  BY DEF Insert, Return
<1>3. th[t].pc \notin Loud /\ Idle.pc \notin Loud /\ next.pc \notin Loud
  <2>1. th[t] \in Request
    BY DEF TInv, Typed, Fits
  <2>2. QED
    BY <1>2, <2>1 DEF Pc, Loud, Idle, Request
<1> HIDE DEF next
<1>4. QED
  BY <1>1, <1>2, <1>3, OpenStep

LEMMA UnlinkRowSteady == ASSUME TInv, Typed', Keep, NEW t \in Thread, UnlinkRow(t) PROVE Keep'
<1>1. Pc(t) = "unlink" /\ UNCHANGED nextFh
  BY DEF UnlinkRow
<1>2. CASE Return(t) /\ UNCHANGED <<disk, handles>>
  BY <1>1, <1>2, QuietReturn DEF Pc, Loud
<1>3. CASE ~(Return(t) /\ UNCHANGED <<disk, handles>>)
  <2> DEFINE next == [th[t] EXCEPT !.pc = "remove"]
  <2>1. PICK f : /\ handles' = Unsteady(handles, Using(f)) /\ Go(t, "remove")
                 /\ disk' = IF disk[f].remote THEN [disk EXCEPT ![f].state = "deleting"]
                            ELSE Less(disk, {f})
    BY <1>3 DEF UnlinkRow
  <2>2. /\ DOMAIN disk' \subseteq DOMAIN disk
        /\ \A g \in DOMAIN disk \ {f} : g \in DOMAIN disk' /\ disk'[g] = disk[g]
        /\ \A g \in DOMAIN disk' : disk'[g].path = disk[g].path
    BY <2>1 DEF Less, TInv, Typed, Rows, Row
  <2>3. PathsOnce'
    BY <2>2, PathsKept DEF Keep
  <2>4. Become(t, next) /\ next.pc = "remove"
    BY <2>1 DEF Go, Become, TInv, Typed, Fits, Request
  <2> HIDE DEF next
  <2>5. Historic'
    <3>1. nextFh' >= nextFh
      BY <1>1 DEF TInv, Typed
    <3>2. QED
      BY <2>4, <3>1, HistoricKept DEF Keep
  <2>6. /\ DOMAIN handles' = DOMAIN handles
        /\ \A h \in DOMAIN handles :
              /\ handles'[h].path = handles[h].path /\ handles'[h].file = handles[h].file
              /\ handles'[h].data = handles[h].data /\ handles'[h].dirty = handles[h].dirty
              /\ handles'[h].steady = (handles[h].steady /\ h \notin Using(f))
    BY <2>1, UnsteadyType DEF TInv, Typed
  <2>7. ASSUME NEW h \in DOMAIN handles, handles'[h].steady
        PROVE  (Owns(h) /\ Current(h) /\ Placed(h))'
    <3>1. handles[h].steady /\ handles[h].file # f
      BY <2>6, <2>7 DEF Using
    <3>2. Owns(h) /\ Current(h) /\ Placed(h)
      BY <3>1 DEF Keep, Steady
    <3>3. handles[h].file \in DOMAIN disk' /\ disk'[handles[h].file] = disk[handles[h].file]
      BY <2>2, <3>1, <3>2 DEF Owns
    <3>4. QED
      BY <1>1, <2>4, <2>6, <3>2, <3>3, Unhurt DEF TInv, Pc
  <2>8. QED
    BY <2>3, <2>5, <2>6, <2>7 DEF Keep, Steady
<1>4. QED
  BY <1>2, <1>3
-----------------------------------------------------------------------------
(* The steps of a request on one handle: what is left to show of them is     *)
(* about that handle.                                                         *)
LEMMA OnOne ==
    ASSUME TInv, Typed', Keep, NEW t \in Thread, NEW r, Become(t, r),
           NEW one, th[t].pc \in Loud => th[t].fh = one, r.pc \in Loud => r.fh = one,
           th[t].pc # "rekey", r.pc # "rekey",
           UNCHANGED <<disk, nextFh>>, DOMAIN handles' \subseteq DOMAIN handles,
           \A h \in DOMAIN handles' :
              /\ handles'[h].file = handles[h].file
              /\ handles'[h].steady => handles[h].steady
              /\ h # one => /\ handles'[h].path = handles[h].path
                            /\ handles'[h].data = handles[h].data
                            /\ handles'[h].dirty = handles[h].dirty,
           one \in DOMAIN handles' /\ handles'[one].steady /\ Owns(one) /\ Current(one) /\ Placed(one)
              => (Current(one) /\ Placed(one))'
    PROVE  Keep'
<1>1. PathsOnce' /\ Historic'
  <2>1. nextFh' >= nextFh
    BY DEF TInv, Typed
  <2>2. QED
    BY <2>1, HistoricKept DEF Keep, PathsOnce
<1>2. ASSUME NEW h \in DOMAIN handles', handles'[h].steady
      PROVE  (Owns(h) /\ Current(h) /\ Placed(h))'
  <2>1. Owns(h) /\ Current(h) /\ Placed(h)
    BY <1>2 DEF Keep, Steady
  <2>2. handles[h].file \in DOMAIN disk
    BY <2>1 DEF Owns
  <2>3. CASE h # one
    BY <1>2, <2>1, <2>2, <2>3, Unhurt DEF TInv, Loud
  <2>4. CASE h = one
    <3>1. Owns(one)'
      BY <1>2, <2>1, <2>4 DEF Owns
    <3>2. QED
      BY <1>2, <2>1, <2>4, <3>1
  <2>5. QED
    BY <2>3, <2>4
<1>3. QED
  BY <1>1, <1>2 DEF Keep, Steady

LEMMA FinishSteady == ASSUME TInv, Typed', Keep, NEW t \in Thread, Finish(t) PROVE Keep'
<1> PICK one : one = th[t].fh
  OBVIOUS
<1>1. /\ Pc(t) \in Closing /\ handles' = Less(handles, {one}) /\ Become(t, Idle)
      /\ UNCHANGED <<disk, nextFh>> /\ Idle.pc = "idle"
  BY DEF Finish, Closing, Return, Idle
<1>2. /\ DOMAIN handles' = DOMAIN handles \ {one}
      /\ \A h \in DOMAIN handles' : handles'[h] = handles[h]
  BY <1>1 DEF Less
<1>3. QED
  BY <1>1, <1>2, OnOne DEF Pc, Loud, Closing

LEMMA PlacedKept ==
    ASSUME Inv, NEW t \in Thread, NEW r, Become(t, r), NEW h \in DOMAIN handles, Placed(h),
           th[t].pc # "rekey", r.pc # "rekey",
           handles'[h].file = handles[h].file, handles'[h].path = handles[h].path,
           disk'[handles[h].file].path = disk[handles[h].file].path,
           r.pc \in {"apply", "record"} /\ r.fh = h
              => r.path = disk[handles[h].file].path /\ ~Midway(h)
    PROVE  Placed(h)'
<1>1. th'[t] = r /\ \A u \in Thread \ {t} : th'[u] = th[u]
  BY DEF Inv, Become
<1>2. ASSUME NEW u \in Thread
      PROVE  (Moving(u, h)' <=> Moving(u, h)) /\ (Moving(u, h) => th'[u] = th[u])
  BY <1>1 DEF Moving, Pc
<1>3. Midway(h)' <=> Midway(h)
  BY <1>2 DEF Midway, Moving
<1>4. QED
  BY <1>1, <1>2, <1>3 DEF Placed, OnHandle, Pc

(* Those at work on a handle besides a write: a handle that is closing has   *)
(* one thread, and the kernel does not hand it out.                            *)
LEMMA WritePending ==
    ASSUME Inv, NEW t \in Thread, NEW r, Become(t, r), NEW h, r.fh = h, r.pc = "mark",
           \A u \in OnHandle(h) \ {t} : th[u].pc \notin Closing
    PROVE  Current(h)'
<1>1. th'[t] = r /\ \A u \in Thread \ {t} : th'[u] = th[u]
  BY DEF Inv, Become
<1>2. Pending(h)'
  BY <1>1 DEF Pending, OnHandle, Pc
<1>3. \A u \in Thread : th'[u].fh = h => th'[u].pc \notin Closing
  BY <1>1 DEF OnHandle, Closing
<1>4. QED
  BY <1>2, <1>3 DEF Current, OnHandle, Pc

LEMMA WriteCallSteady == ASSUME TInv, Typed', Keep, NEW t \in Thread, WriteCall(t) PROVE Keep'
<1> DEFINE r(h) == [Idle EXCEPT !.op = "write", !.pc = "mark", !.fh = h, !.ino = handles[h].ino]
<1>1. PICK h \in DOMAIN handles, cut \in BOOLEAN :
         /\ Held(h) /\ handles' = Staged(h, cut) /\ Pc(t) = "idle"
         /\ Become(t, r(h)) /\ UNCHANGED <<disk, nextFh>>
  BY DEF WriteCall
<1>2. r(h).pc = "mark" /\ r(h).fh = h
  BY DEF Idle
<1> HIDE DEF r
<1>3. /\ DOMAIN handles' = DOMAIN handles
      /\ \A g \in DOMAIN handles :
            /\ handles'[g].path = handles[g].path /\ handles'[g].file = handles[g].file
            /\ handles'[g].steady = handles[g].steady /\ (g # h => handles'[g] = handles[g])
  BY <1>1, StagedType DEF TInv
<1>4. ASSUME Owns(h), Current(h), Placed(h)
      PROVE  (Current(h) /\ Placed(h))'
  <2>1. \A u \in OnHandle(h) \ {t} : th[u].pc \notin Closing
    <3>1. \A u \in OnHandle(h) : th[u].op \notin {"release", "setattr"}
      BY <1>1 DEF Held, TInv, Typed, Alone, OnHandle
    <3>2. QED
      BY <3>1 DEF TInv, Typed, Fits, OnHandle
  <2>2. Current(h)'
    BY <1>1, <1>2, <2>1, WritePending DEF TInv
  <2>3. Placed(h)'
    BY <1>1, <1>2, <1>3, <1>4, PlacedKept DEF TInv, Pc
  <2>4. QED
    BY <2>2, <2>3
<1>5. QED
  BY <1>1, <1>2, <1>3, <1>4, OnOne DEF Pc, Loud

LEMMA TruncateTempSteady ==
    ASSUME TInv, Typed', Keep, NEW t \in Thread, TruncateTemp(t) PROVE Keep'
<1> DEFINE r == [th[t] EXCEPT !.pc = "mark"]
<1>1. PICK h : h = th[t].fh
  OBVIOUS
<1>2. /\ Pc(t) = "stage" /\ (\E cut : handles' = Staged(h, cut)) /\ UNCHANGED <<disk, nextFh>>
      /\ Go(t, "mark")
  BY <1>1 DEF TruncateTemp
<1>3. Fits(th[t]) /\ h \in DOMAIN handles
  BY <1>1, <1>2 DEF TInv, Typed, Fits, OfHandle, Pc, Alone
<1>4. Become(t, r) /\ r.pc = "mark" /\ r.fh = h
  BY <1>1, <1>2, <1>3 DEF Go, Become, Fits, Request
<1> HIDE DEF r
<1>5. /\ DOMAIN handles' = DOMAIN handles
      /\ \A g \in DOMAIN handles :
            /\ handles'[g].path = handles[g].path /\ handles'[g].file = handles[g].file
            /\ handles'[g].steady = handles[g].steady /\ (g # h => handles'[g] = handles[g])
  BY <1>2, StagedType DEF TInv
<1>6. ASSUME Owns(h), Current(h), Placed(h)
      PROVE  (Current(h) /\ Placed(h))'
  <2>1. \A u \in OnHandle(h) \ {t} : th[u].pc \notin Closing
    <3> SUFFICES ASSUME NEW u \in OnHandle(h) \ {t}, th[u].pc \in Closing PROVE FALSE
      OBVIOUS
    <3>1. u \in Thread /\ th[u].fh = h /\ h # 0 /\ th[u].op \in {"release", "setattr"}
      BY DEF OnHandle, TInv, Typed, Fits, OfHandle, Closing
    <3>2. OnHandle(h) = {u}
      BY <3>1 DEF TInv, Alone
    <3>3. t \in OnHandle(h)
      BY <1>1 DEF OnHandle
    <3>4. QED
      BY <3>2, <3>3
  <2>2. Current(h)'
    BY <1>4, <2>1, WritePending DEF TInv
  <2>3. Placed(h)'
    BY <1>2, <1>3, <1>4, <1>5, <1>6, PlacedKept DEF TInv, Pc
  <2>4. QED
    BY <2>2, <2>3
<1>7. th[t].pc \notin Loud /\ th[t].pc # "rekey" /\ r.pc # "rekey"
  BY <1>2, <1>4 DEF Pc, Loud
<1>8. QED
  BY <1>2, <1>4, <1>5, <1>6, <1>7, OnOne

LEMMA MarkDirtySteady == ASSUME TInv, Typed', Keep, NEW t \in Thread, MarkDirty(t) PROVE Keep'
<1>1. PICK h : h = th[t].fh
  OBVIOUS
<1> DEFINE hs == [handles EXCEPT ![h].dirty = TRUE]
           commits == th[t].op = "setattr" /\ handles[h].ino \in DOMAIN table.entries
           crossed == (\E u \in OnHandle(h) : Pc(u) = "record") \/ (commits /\ Midway(h))
           next == [th[t] EXCEPT !.pc = "apply", !.path = handles[h].path]
           S == IF crossed THEN {h} ELSE {}
<1>2. /\ Pc(t) = "mark" /\ handles' = Unsteady(hs, S) /\ UNCHANGED <<disk, nextFh>>
      /\ IF commits THEN Become(t, next) ELSE Become(t, Idle)
  BY <1>1 DEF MarkDirty, Return
<1>3. Fits(th[t]) /\ h # 0 /\ h \in DOMAIN handles /\ handles[h] \in Handle
  BY <1>1, <1>2 DEF TInv, Typed, Copies, Fits, OfHandle, Pc, Alone
<1>4. /\ Copies(hs) /\ DOMAIN hs = DOMAIN handles /\ hs[h].dirty
      /\ \A g \in DOMAIN handles :
            /\ hs[g].path = handles[g].path /\ hs[g].file = handles[g].file
            /\ hs[g].data = handles[g].data /\ hs[g].steady = handles[g].steady
            /\ g # h => hs[g] = handles[g]
  BY <1>3 DEF TInv, Typed, Copies, Handle
<1>5. crossed <=> h \in S
  OBVIOUS
<1> HIDE DEF hs, S
<1>6. /\ DOMAIN handles' = DOMAIN handles /\ handles'[h].dirty
      /\ \A g \in DOMAIN handles :
            /\ handles'[g].path = handles[g].path /\ handles'[g].file = handles[g].file
            /\ handles'[g].data = handles[g].data
            /\ handles'[g].steady => handles[g].steady /\ g \notin S
            /\ g # h => handles'[g].dirty = handles[g].dirty
  <2>1. /\ DOMAIN handles' = DOMAIN hs
        /\ \A g \in DOMAIN hs :
              /\ handles'[g].path = hs[g].path /\ handles'[g].file = hs[g].file
              /\ handles'[g].data = hs[g].data /\ handles'[g].dirty = hs[g].dirty
              /\ handles'[g].steady = (hs[g].steady /\ g \notin S)
    BY <1>2, <1>4, UnsteadyType
  <2>2. \A g \in DOMAIN handles : handles'[g].steady => handles[g].steady /\ g \notin S
    BY <1>4, <2>1
  <2>3. \A g \in DOMAIN handles : g # h => handles'[g].dirty = handles[g].dirty
    BY <1>4, <2>1
  <2>4. QED
    BY <1>3, <1>4, <2>1, <2>2, <2>3
<1>7. PICK r : /\ Become(t, r) /\ (r = Idle \/ (r = next /\ commits))
  BY <1>2
<1>8. r.pc \in {"idle", "apply"} /\ (r.pc = "apply" => r.fh = h /\ r.path = handles[h].path /\ commits)
  <2>1. next.pc = "apply" /\ next.fh = h /\ next.path = handles[h].path
    BY <1>1, <1>3 DEF Fits, Request
  <2>2. Idle.pc = "idle"
    BY DEF Idle
  <2> HIDE DEF next
  <2>3. QED
    BY <1>7, <2>1, <2>2
<1>9. ASSUME handles'[h].steady, Owns(h), Current(h), Placed(h)
      PROVE  (Current(h) /\ Placed(h))'
  <2>1. ~crossed
    BY <1>3, <1>5, <1>6, <1>9
  <2>2. th'[t] = r /\ \A u \in Thread \ {t} : th'[u] = th[u]
    BY <1>7 DEF TInv, Inv, Become
  <2>3. \A u \in Thread : th'[u].fh = h => th'[u].pc # "record" /\ th'[u].pc \notin Closing
    <3> SUFFICES ASSUME NEW u \in Thread, th'[u].fh = h, th'[u].pc = "record" \/ th'[u].pc \in Closing
                 PROVE  FALSE
      OBVIOUS
    <3>1. u # t /\ th'[u] = th[u]
      BY <1>8, <2>2 DEF Closing
    <3>2. th[u].pc # "record"
      BY <2>1, <3>1 DEF OnHandle, Pc
    <3>3. th[u].pc \in Closing /\ th[u].op \in {"release", "setattr"}
      BY <3>1, <3>2 DEF TInv, Typed, Fits
    <3>4. OnHandle(h) = {u}
      BY <1>3, <3>1, <3>3 DEF TInv, Alone
    <3>5. QED
      BY <1>1, <3>1, <3>4 DEF OnHandle
  <2>4. Current(h)'
    BY <1>6, <2>3 DEF Current, OnHandle, Pc
  <2>5. r.pc = "apply" => r.path = disk[handles[h].file].path /\ ~Midway(h)
    BY <1>8, <1>9, <2>1 DEF Placed
  <2>6. Placed(h)'
    BY <1>2, <1>3, <1>6, <1>7, <1>8, <1>9, <2>5, PlacedKept DEF TInv, Pc
  <2>7. QED
    BY <2>4, <2>6
<1> HIDE DEF commits, crossed, next
<1>10. QED
  BY <1>1, <1>2, <1>6, <1>7, <1>8, <1>9, OnOne DEF Pc, Loud

LEMMA CommitCallSteady == ASSUME TInv, Typed', Keep, NEW t \in Thread, CommitCall(t) PROVE Keep'
<1> DEFINE r(op, h) == [Idle EXCEPT !.op = op, !.pc = IF handles[h].dirty THEN "apply" ELSE "finish",
                                    !.fh = h, !.ino = handles[h].ino, !.path = handles[h].path]
           S(h) == IF handles[h].dirty /\ Midway(h) THEN {h} ELSE {}
<1>1. PICK h \in DOMAIN handles, op \in {"flush", "fsync", "release"} :
         /\ Pc(t) = "idle" /\ Held(h) /\ (handles[h].dirty \/ op = "release")
         /\ op = "release" => OnHandle(h) = {}
         /\ Become(t, r(op, h)) /\ handles' = Unsteady(handles, S(h))
         /\ UNCHANGED <<disk, nextFh>>
  BY DEF CommitCall
<1>2. /\ r(op, h).fh = h /\ r(op, h).path = handles[h].path
      /\ r(op, h).pc = IF handles[h].dirty THEN "apply" ELSE "finish"
  BY DEF Idle
<1>3. h \in S(h) <=> handles[h].dirty /\ Midway(h)
  OBVIOUS
<1> HIDE DEF r, S
<1>4. /\ DOMAIN handles' = DOMAIN handles
      /\ \A g \in DOMAIN handles :
            /\ handles'[g].path = handles[g].path /\ handles'[g].file = handles[g].file
            /\ handles'[g].data = handles[g].data /\ handles'[g].dirty = handles[g].dirty
            /\ handles'[g].steady = (handles[g].steady /\ g \notin S(h))
  BY <1>1, UnsteadyType DEF TInv, Typed
<1>5. th'[t] = r(op, h) /\ \A u \in Thread \ {t} : th'[u] = th[u]
  BY <1>1 DEF TInv, Inv, Become
<1>6. ASSUME handles'[h].steady, Owns(h), Current(h), Placed(h)
      PROVE  (Current(h) /\ Placed(h))'
  <2>1. ~(handles[h].dirty /\ Midway(h))
    BY <1>3, <1>4, <1>6
  <2>2. r(op, h).pc \in {"apply", "record"}
           => r(op, h).path = disk[handles[h].file].path /\ ~Midway(h)
    BY <1>2, <1>6, <2>1 DEF Placed
  <2>3. Placed(h)'
    BY <1>1, <1>2, <1>4, <1>6, <2>2, PlacedKept DEF TInv, Pc
  <2>4. Same(h)' <=> Same(h)
    BY <1>1, <1>4 DEF Same
  <2>5. CASE handles[h].dirty
    <3>1. Pending(h) => Pending(h)'
      BY <1>1, <1>5 DEF Pending, OnHandle, Pc
    <3>2. QED
      BY <1>2, <1>4, <1>5, <1>6, <2>3, <2>4, <2>5, <3>1 DEF Current, OnHandle, Pc, Closing
  <2>6. CASE ~handles[h].dirty
    <3>1. OnHandle(h) = {} /\ ~Pending(h)
      BY <1>1, <2>6 DEF Pending
    <3>2. Same(h)'
      BY <1>6, <2>4, <2>6, <3>1 DEF Current
    <3>3. QED
      BY <2>3, <3>2 DEF Current
  <2>7. QED
    BY <2>5, <2>6
<1>7. PICK w : w = r(op, h)
  OBVIOUS
<1>8. /\ Become(t, w) /\ w.fh = h /\ w.pc # "rekey"
      /\ th[t].pc \notin Loud /\ th[t].pc # "rekey"
  BY <1>1, <1>2, <1>7 DEF Pc, Loud
<1>9. /\ DOMAIN handles' \subseteq DOMAIN handles /\ UNCHANGED <<disk, nextFh>>
      /\ \A g \in DOMAIN handles' :
            /\ handles'[g].file = handles[g].file
            /\ handles'[g].steady => handles[g].steady
            /\ g # h => /\ handles'[g].path = handles[g].path
                         /\ handles'[g].data = handles[g].data
                         /\ handles'[g].dirty = handles[g].dirty
  BY <1>1, <1>4
<1>10. QED
  BY <1>6, <1>8, <1>9, OnOne

(* Where a failed commit goes.                                                *)
LEMMA FailedSteady ==
    ASSUME TInv, NEW t \in Thread, CommitFailed(t)
    PROVE  \E r : /\ Become(t, r) /\ r.pc \in {"idle", "drop"}
                  /\ r.pc = "drop" => r.fh = th[t].fh /\ th[t].op = "release"
<1>1. CASE th[t].op = "release"
  <2> DEFINE r == [th[t] EXCEPT !.pc = "drop"]
  <2>1. Become(t, r) /\ r.pc = "drop" /\ r.fh = th[t].fh
    BY <1>1 DEF CommitFailed, Go, Become, TInv, Typed, Fits, Request
  <2> HIDE DEF r
  <2>2. QED
    BY <1>1, <2>1
<1>2. CASE th[t].op # "release"
  BY <1>2 DEF CommitFailed, Return, Idle
<1>3. QED
  BY <1>1, <1>2

LEMMA FailSteady == ASSUME TInv, Typed', Keep, NEW t \in Thread, Fail(t) PROVE Keep'
<1>1. /\ Pc(t) \in {"load", "create", "unlink", "rename", "stage", "mark", "apply", "enter"}
      /\ UNCHANGED <<disk, nextFh>>
      /\ IF Pc(t) = "apply" THEN CommitFailed(t) ELSE Return(t)
      /\ handles' = IF Pc(t) \in {"mark", "apply"} THEN Unsteady(handles, {th[t].fh}) ELSE handles
  BY DEF Fail
<1>2. CASE Pc(t) \notin {"mark", "apply"}
  BY <1>1, <1>2, QuietReturn DEF Pc, Loud
<1>3. CASE Pc(t) \in {"mark", "apply"}
  <2>1. PICK h : h = th[t].fh
    OBVIOUS
  <2>2. PICK r : /\ Become(t, r) /\ r.pc \in {"idle", "drop"}
                 /\ r.pc = "drop" => r.fh = h
    BY <1>1, <1>3, <2>1, FailedSteady DEF Return, Idle
  <2>3. /\ DOMAIN handles' = DOMAIN handles
        /\ \A g \in DOMAIN handles :
              /\ handles'[g].path = handles[g].path /\ handles'[g].file = handles[g].file
              /\ handles'[g].data = handles[g].data /\ handles'[g].dirty = handles[g].dirty
              /\ handles'[g].steady = (handles[g].steady /\ g \notin {h})
    BY <1>1, <1>3, <2>1, UnsteadyType DEF TInv, Typed
  <2>4. /\ th[t].pc # "rekey" /\ r.pc # "rekey" /\ th[t].fh = h
        /\ r.pc \in Loud => r.fh = h
    BY <1>3, <2>1, <2>2 DEF Pc, Loud
  <2>5. UNCHANGED <<disk, nextFh>> /\ ~(h \in DOMAIN handles' /\ handles'[h].steady)
    BY <1>1, <2>3
  <2>6. QED
    BY <2>2, <2>3, <2>4, <2>5, OnOne
<1>4. QED
  BY <1>2, <1>3

LEMMA ApplySteady == ASSUME TInv, Typed', Keep, NEW t \in Thread, Apply(t) PROVE Keep'
<1>1. PICK h, p, f : h = th[t].fh /\ p = th[t].path /\ f = FileAt(p)
  OBVIOUS
<1>2. Pc(t) = "apply" /\ UNCHANGED nextFh
  BY DEF Apply
<1>3. Fits(th[t]) /\ h # 0 /\ h \in DOMAIN handles /\ handles[h] \in Handle
  BY <1>1, <1>2 DEF TInv, Typed, Copies, Fits, OfHandle, Pc, Alone
<1>4. CASE ~IsFile(p)
  <2>1. CommitFailed(t) /\ UNCHANGED <<disk, handles>>
    BY <1>1, <1>4 DEF Apply
  <2>2. PICK r : /\ Become(t, r) /\ r.pc \in {"idle", "drop"}
                 /\ r.pc = "drop" => r.fh = h
    BY <1>1, <2>1, FailedSteady
  <2>3. ~(Owns(h) /\ Placed(h))
    BY <1>1, <1>2, <1>4 DEF Owns, Placed, OnHandle, Pc, IsFile, At
  <2>4. /\ th[t].pc # "rekey" /\ r.pc # "rekey" /\ th[t].fh = h
        /\ r.pc \in Loud => r.fh = h
    BY <1>1, <1>2, <2>2 DEF Pc, Loud
  <2>5. QED
    BY <1>2, <2>1, <2>2, <2>3, <2>4, OnOne
<1>5. CASE IsFile(p)
  <2> DEFINE w == [path |-> p, kind |-> "File", size |-> Size(handles[h].data)]
             r == [th[t] EXCEPT !.pc = "record", !.rows = {w}]
             row == [disk[f] EXCEPT !.data = handles[h].data,
                                    !.state = IF @ = "kept" THEN @ ELSE "revived"]
  <2>1. /\ disk' = [disk EXCEPT ![f] = row]
        /\ handles' = Unsteady(handles, Using(f) \ {h})
        /\ Become(t, r)
    BY <1>1, <1>5 DEF Apply
  <2>2. f \in DOMAIN disk /\ disk[f].path = p
    BY <1>1, <1>5 DEF IsFile, At, FileAt
  <2>3. /\ row.path = disk[f].path /\ row.kind = disk[f].kind /\ row.data = handles[h].data
        /\ disk[f].state = "kept" => row.state = "kept"
    BY <2>2 DEF TInv, Typed, Rows, Row
  <2>4. r.pc = "record" /\ r.fh = h /\ r.path = p
    BY <1>1, <1>3 DEF Fits, Request
  <2> HIDE DEF row, r
  <2>5. /\ DOMAIN disk' = DOMAIN disk /\ disk'[f] = row
        /\ \A g \in DOMAIN disk \ {f} : disk'[g] = disk[g]
    BY <2>1, <2>2
  <2>6. /\ DOMAIN handles' = DOMAIN handles
        /\ \A g \in DOMAIN handles :
              /\ handles'[g].path = handles[g].path /\ handles'[g].file = handles[g].file
              /\ handles'[g].data = handles[g].data /\ handles'[g].dirty = handles[g].dirty
              /\ handles'[g].steady = (handles[g].steady /\ g \notin Using(f) \ {h})
    BY <2>1, UnsteadyType DEF TInv, Typed
  <2>7. PathsOnce'
    BY <2>3, <2>5, PathsKept DEF Keep
  <2>8. Historic'
    <3>1. nextFh' >= nextFh
      BY <1>2 DEF TInv, Typed
    <3>2. QED
      BY <2>1, <2>4, <3>1, HistoricKept DEF Keep
  <2>9. ASSUME NEW g \in DOMAIN handles, handles'[g].steady
        PROVE  (Owns(g) /\ Current(g) /\ Placed(g))'
    <3>1. handles[g].steady /\ (g # h => handles[g].file # f)
      BY <2>6, <2>9 DEF Using
    <3>2. Owns(g) /\ Current(g) /\ Placed(g)
      BY <3>1 DEF Keep, Steady
    <3>3. handles[g].file \in DOMAIN disk
      BY <3>2 DEF Owns
    <3>4. CASE g # h
      <4>1. disk'[handles[g].file] = disk[handles[g].file]
        BY <2>5, <3>1, <3>3, <3>4
      <4>2. QED
        BY <1>1, <1>2, <2>1, <2>4, <2>5, <2>6, <3>2, <3>3, <3>4, <4>1, Unhurt DEF TInv, Pc
    <3>5. CASE g = h
      <4>1. disk[handles[h].file].path = p /\ ~Midway(h)
        BY <1>1, <1>2, <3>2, <3>5 DEF Placed, OnHandle, Pc
      <4>2. handles[h].file = f
        BY <2>2, <3>3, <3>5, <4>1 DEF Keep, PathsOnce
      <4>3. Same(h)'
        BY <1>3, <2>3, <2>5, <2>6, <4>2 DEF Same
      <4>4. Current(h)'
        BY <4>3 DEF Current
      <4>5. Owns(h)'
        BY <1>3, <2>3, <2>5, <2>6, <3>2, <3>5, <4>2 DEF Owns
      <4>6. Placed(h)'
        <5>1. disk'[handles[h].file].path = disk[handles[h].file].path
          BY <2>3, <2>5, <4>2
        <5>2. /\ handles'[h].file = handles[h].file /\ handles'[h].path = handles[h].path
              /\ Placed(h) /\ Inv
          BY <1>3, <2>6, <3>2, <3>5 DEF TInv
        <5>3. /\ th[t].pc # "rekey" /\ r.pc # "rekey"
              /\ r.path = disk[handles[h].file].path /\ ~Midway(h)
          BY <1>2, <2>4, <4>1 DEF Pc
        <5>4. QED
          BY <1>3, <2>1, <5>1, <5>2, <5>3, PlacedKept
      <4>7. QED
        BY <3>5, <4>4, <4>5, <4>6
    <3>6. QED
      BY <3>4, <3>5
  <2>10. QED
    BY <2>6, <2>7, <2>8, <2>9 DEF Keep, Steady
<1>6. QED
  BY <1>4, <1>5

LEMMA RecordSteady == ASSUME TInv, Typed', Keep, NEW t \in Thread, Record(t) PROVE Keep'
<1>1. PICK h, w : h = th[t].fh /\ w = CHOOSE q \in th[t].rows : TRUE
  OBVIOUS
<1>2. Pc(t) = "record" /\ UNCHANGED <<disk, nextFh>>
  BY DEF Record
<1>3. Fits(th[t]) /\ h # 0 /\ h \in DOMAIN handles /\ handles[h] \in Handle
  BY <1>1, <1>2 DEF TInv, Typed, Copies, Fits, OfHandle, Pc, Alone
<1>4. w.path = th[t].path
  <2>1. th[t].rows # {} /\ \A x \in th[t].rows : x.path = th[t].path
    BY <1>2, <1>3 DEF Fits, Pc
  <2>2. QED
    BY <1>1, <2>1
<1>5. ASSUME NEW r, Become(t, r), r.pc \in {"idle", "finish", "drop"},
             r.pc # "idle" => r.fh = h /\ th[t].op \in {"release", "setattr"},
             handles' = handles \/ handles' = [handles EXCEPT ![h].path = w.path, ![h].dirty = FALSE]
      PROVE  Keep'
  <2>1. /\ DOMAIN handles' = DOMAIN handles
        /\ \A g \in DOMAIN handles : /\ handles'[g].file = handles[g].file
                                     /\ handles'[g].data = handles[g].data
                                     /\ handles'[g].steady = handles[g].steady
                                     /\ g # h => handles'[g] = handles[g]
        /\ handles'[h].path \in {handles[h].path, w.path}
    BY <1>3, <1>5 DEF Handle
  <2>2. ASSUME Owns(h), Current(h), Placed(h)
        PROVE  (Current(h) /\ Placed(h))'
    <3>1. th[t].path = disk[handles[h].file].path /\ ~Midway(h)
      BY <1>1, <1>2, <2>2 DEF Placed, OnHandle, Pc
    <3>2. handles'[h].path = handles[h].path
      BY <1>4, <2>1, <2>2, <3>1 DEF Placed
    <3>3. Placed(h)'
      BY <1>2, <1>3, <1>5, <2>1, <2>2, <3>2, PlacedKept DEF TInv, Pc
    <3>4. Same(h) \/ Pending(h)
      BY <1>1, <1>2, <2>2 DEF Current, OnHandle, Pc
    <3>5. th'[t] = r /\ \A u \in Thread \ {t} : th'[u] = th[u]
      BY <1>5 DEF TInv, Inv, Become
    <3>6. (Same(h)' <=> Same(h)) /\ (Pending(h) => Pending(h)')
      BY <1>2, <1>3, <2>1, <3>5 DEF Same, Pending, OnHandle, Pc
    <3>7. ASSUME NEW u \in Thread, th'[u].fh = h, th'[u].pc \in Closing PROVE Same(h)
      <4>1. CASE u # t
        BY <2>2, <3>5, <3>7, <4>1 DEF Current, OnHandle, Pc
      <4>2. CASE u = t
        <5>1. th[t].op \in {"release", "setattr"}
          BY <1>5, <3>5, <3>7, <4>2 DEF Closing
        <5>2. OnHandle(h) = {t}
          BY <1>1, <1>3, <5>1 DEF TInv, Alone
        <5>3. ~Pending(h)
          BY <1>2, <5>2 DEF Pending
        <5>4. QED
          BY <3>4, <5>3
      <4>3. QED
        BY <4>1, <4>2
    <3>8. Current(h)'
      BY <3>4, <3>6, <3>7 DEF Current, OnHandle, Pc
    <3>9. QED
      BY <3>3, <3>8
  <2>3. /\ th[t].pc # "rekey" /\ r.pc # "rekey" /\ th[t].fh = h
        /\ r.pc \in Loud => r.fh = h
    BY <1>1, <1>2, <1>5 DEF Pc, Loud
  <2>4. QED
    BY <1>2, <1>5, <2>1, <2>2, <2>3, OnOne
<1>6. CASE handles[h].ino \in DOMAIN table.entries
  <2> DEFINE next == [th[t] EXCEPT !.pc = "finish"]
  <2>1. /\ handles' = [handles EXCEPT ![h].path = w.path, ![h].dirty = FALSE]
        /\ IF th[t].op \in {"flush", "fsync"} THEN Become(t, Idle) ELSE Become(t, next)
    BY <1>1, <1>6 DEF Record, Return, Go, Become
  <2>2. next.pc = "finish" /\ next.fh = h /\ Idle.pc = "idle"
    BY <1>1, <1>3 DEF Fits, Request, Idle
  <2>3. th[t].op \in {"flush", "fsync", "release", "setattr"}
    BY <1>2, <1>3 DEF Fits, Pc
  <2> HIDE DEF next
  <2>4. QED
    BY <1>5, <2>1, <2>2, <2>3
<1>7. CASE handles[h].ino \notin DOMAIN table.entries
  <2>1. CommitFailed(t) /\ UNCHANGED handles
    BY <1>1, <1>7 DEF Record
  <2>2. QED
    BY <1>1, <1>5, <2>1, FailedSteady
<1>8. QED
  BY <1>6, <1>7
-----------------------------------------------------------------------------
(* A rename moves the rows below the path up to the first that would land on *)
(* one that stays: none does.                                                 *)
LEMMA RenameRowSteady == ASSUME TInv, Typed', Keep, NEW t \in Thread, RenameRow(t) PROVE Keep'
<1>1. PICK old, new : old = th[t].path /\ new = th[t].to
  OBVIOUS
<1> DEFINE path(f) == disk[f].path
           below == {f \in DOMAIN disk : Under(old, path(f))}
           clash == {f \in below : \E g \in At(InPlace(old, new, path(f))) :
                                     g \in below => Len(path(f)) <= Len(path(g))}
                    \cup {f \in DOMAIN disk : LikeUnder(old, path(f))}
           moved == {f \in below : \A g \in clash : Len(path(f)) < Len(path(g))}
           taken == UNION {Using(f) : f \in moved}
           lost == {h \in taken : clash # {} \/ Committing(h) \/ Midway(h)}
           next == [th[t] EXCEPT !.pc = "rekey", !.moved = taken]
           there(f) == [disk[f] EXCEPT !.path = InPlace(old, new, @)]
<1>2. Pc(t) = "rename" /\ UNCHANGED nextFh
  BY DEF RenameRow
<1>3. CASE Return(t) /\ UNCHANGED <<disk, handles>>
  BY <1>2, <1>3, QuietReturn DEF Pc, Loud
<1>4. CASE ~(Return(t) /\ UNCHANGED <<disk, handles>>)
  <2>1. /\ disk' = [f \in DOMAIN disk |-> IF f \in moved THEN there(f) ELSE disk[f]]
        /\ handles' = Unsteady(handles, lost)
        /\ IF clash = {} THEN Become(t, next) ELSE Become(t, Idle)
    BY <1>1, <1>4 DEF RenameRow, Return
  <2>2. Fits(th[t]) /\ th[t] \in Request /\ old \in Path /\ new \in Path
    BY <1>1 DEF TInv, Typed, Fits, Request
  <2>3. \A f \in DOMAIN disk : path(f) \in Path /\ Len(path(f)) \in Nat
    BY PathType DEF TInv, Typed, Rows, Path
  <2>4. \A f \in below : f \in DOMAIN disk /\ Under(old, path(f)) /\ IsPrefix(old, path(f))
    BY <2>2, <2>3, UnderPrefix
  <2>5. \A f \in moved : f \in below /\ f \notin clash
    BY <2>3
  <2>6. ASSUME NEW f \in moved, NEW g \in DOMAIN disk \ moved
        PROVE  InPlace(old, new, path(f)) # path(g)
    <3> SUFFICES ASSUME InPlace(old, new, path(f)) = path(g) PROVE FALSE
      OBVIOUS
    <3>1. g \in At(InPlace(old, new, path(f)))
      BY DEF At
    <3>2. g \in below /\ ~(Len(path(f)) <= Len(path(g)))
      BY <2>5, <3>1
    <3>3. PICK c \in clash : ~(Len(path(g)) < Len(path(c)))
      BY <3>2
    <3>4. Len(path(f)) < Len(path(c))
      OBVIOUS
    <3>5. f \in DOMAIN disk /\ c \in DOMAIN disk
      OBVIOUS
    <3> HIDE DEF path, below, clash, moved
    <3>6. QED
      BY <2>3, <3>2, <3>3, <3>4, <3>5
  <2>7. \A f \in DOMAIN disk : /\ there(f).path = InPlace(old, new, path(f))
                               /\ there(f).data = disk[f].data /\ there(f).kind = disk[f].kind
                               /\ there(f).state = disk[f].state
    BY DEF TInv, Typed, Rows, Row
  <2>8. \A h \in DOMAIN handles : h \in taken <=> handles[h].file \in moved
    <3> HIDE DEF moved
    <3>1. QED
      BY DEF Using
  <2>9. taken \subseteq DOMAIN handles
    BY DEF Using
  <2>10. \A h \in taken \ lost : clash = {} /\ ~Committing(h) /\ ~Midway(h)
    OBVIOUS
  <2>11. lost \subseteq taken
    OBVIOUS
  <2>12. next.pc = "rekey" /\ next.moved = taken /\ next.path = old /\ next.to = new
    BY <1>1, <2>2 DEF Request
  <2> HIDE DEF below, clash, moved, taken, lost, next, there, path
  <2>13. PICK r : /\ Become(t, r)
                  /\ IF clash = {} THEN r = next ELSE r.pc = "idle"
    BY <2>1 DEF Idle
  <2>14. /\ DOMAIN disk' = DOMAIN disk
         /\ \A f \in DOMAIN disk : disk'[f] = IF f \in moved THEN there(f) ELSE disk[f]
    BY <2>1
  <2>15. PathsOnce'
    <3> SUFFICES ASSUME NEW f \in DOMAIN disk, NEW g \in DOMAIN disk, disk'[f].path = disk'[g].path
                 PROVE  f = g
      BY <2>14 DEF PathsOnce
    <3>1. CASE f \notin moved /\ g \notin moved
      BY <2>14, <3>1 DEF Keep, PathsOnce
    <3>2. CASE f \in moved /\ g \in moved
      <4>1. InPlace(old, new, path(f)) = InPlace(old, new, path(g))
        BY <2>7, <2>14, <3>2
      <4>2. path(f) = path(g)
        BY <2>2, <2>3, <2>4, <2>5, <3>2, <4>1, InPlaceOnce
      <4>3. QED
        BY <4>2 DEF Keep, PathsOnce, path
    <3>3. CASE f \in moved /\ g \notin moved
      BY <2>6, <2>7, <2>14, <3>3 DEF path
    <3>4. CASE f \notin moved /\ g \in moved
      BY <2>6, <2>7, <2>14, <3>4 DEF path
    <3>5. QED
      BY <3>1, <3>2, <3>3, <3>4
  <2>16. Historic'
    <3>1. nextFh' >= nextFh
      BY <1>2 DEF TInv, Typed
    <3>2. r.pc = "rekey" => r.moved \subseteq 1 .. nextFh - 1
      BY <2>9, <2>12, <2>13 DEF TInv, Typed
    <3>3. QED
      BY <2>13, <3>1, <3>2, HistoricKept DEF Keep
  <2>17. /\ DOMAIN handles' = DOMAIN handles
         /\ \A g \in DOMAIN handles :
               /\ handles'[g].path = handles[g].path /\ handles'[g].file = handles[g].file
               /\ handles'[g].data = handles[g].data /\ handles'[g].dirty = handles[g].dirty
               /\ handles'[g].steady = (handles[g].steady /\ g \notin lost)
    BY <2>1, UnsteadyType DEF TInv, Typed
  <2>18. th'[t] = r /\ \A u \in Thread \ {t} : th'[u] = th[u]
    BY <2>13 DEF TInv, Inv, Become
  <2>19. ASSUME NEW h \in DOMAIN handles, handles'[h].steady
         PROVE  (Owns(h) /\ Current(h) /\ Placed(h))'
    <3>1. handles[h].steady /\ h \notin lost
      BY <2>17, <2>19
    <3>2. Owns(h) /\ Current(h) /\ Placed(h)
      BY <3>1 DEF Keep, Steady
    <3>3. handles[h].file \in DOMAIN disk
      BY <3>2 DEF Owns
    <3>4. CASE h \notin taken
      <4>1. disk'[handles[h].file] = disk[handles[h].file]
        BY <2>8, <2>14, <3>3, <3>4
      <4>2. r.pc \in {"rekey", "idle"} /\ (r.pc = "rekey" => h \notin r.moved)
        BY <2>12, <2>13, <3>4
      <4>3. QED
        BY <1>2, <2>13, <2>14, <2>17, <3>2, <3>3, <4>1, <4>2, Unhurt DEF TInv, Pc
    <3>5. CASE h \in taken
      <4>1. clash = {} /\ ~Committing(h) /\ ~Midway(h) /\ handles[h].file \in moved
        BY <2>8, <2>10, <3>1, <3>5
      <4>2. /\ disk'[handles[h].file].path = InPlace(old, new, disk[handles[h].file].path)
            /\ disk'[handles[h].file].data = disk[handles[h].file].data
            /\ disk'[handles[h].file].kind = disk[handles[h].file].kind
            /\ disk'[handles[h].file].state = disk[handles[h].file].state
        BY <2>7, <2>14, <3>3, <4>1 DEF path
      <4>3. r.pc \in {"rekey", "idle"} /\ (r.pc = "rekey" => r.path = old /\ r.to = new)
        BY <2>12, <2>13
      <4>4. Owns(h)'
        BY <2>14, <2>17, <3>2, <4>2 DEF Owns
      <4>5. Current(h)'
        <5>1. Same(h)' <=> Same(h)
          BY <2>17, <4>2 DEF Same
        <5>2. Pending(h) => Pending(h)'
          BY <1>2, <2>18 DEF Pending, OnHandle, Pc
        <5>3. QED
          BY <2>17, <2>18, <3>2, <4>3, <5>1, <5>2 DEF Current, OnHandle, Pc, Closing
      <4>6. \A u \in Thread : Moving(u, h)' => u = t
        BY <2>18, <4>1 DEF Moving, Midway, Pc
      <4>7. \A u \in Thread : th'[u].fh = h => th'[u].pc \notin {"apply", "record"}
        BY <2>18, <4>1, <4>3 DEF Committing, OnHandle, Pc
      <4>8. disk[handles[h].file].path = handles[h].path
        BY <3>2, <4>1 DEF Placed
      <4>9. Under(old, handles[h].path)
        BY <2>4, <2>5, <4>1, <4>8 DEF path
      <4>10. Moving(t, h)' => th'[t].path = old /\ th'[t].to = new
        BY <2>18, <4>3 DEF Moving, Pc
      <4>11. ~Midway(h)' => disk'[handles[h].file].path = handles[h].path
        <5>1. CASE r.pc = "rekey"
          BY <2>12, <2>13, <2>18, <3>5, <5>1 DEF Midway, Pc
        <5>2. CASE r.pc # "rekey"
          BY <2>12, <2>13, <4>1, <5>2
        <5>3. QED
          BY <5>1, <5>2
      <4>12. Placed(h)'
        BY <2>17, <4>2, <4>6, <4>7, <4>8, <4>9, <4>10, <4>11 DEF Placed, OnHandle, Pc
      <4>13. QED
        BY <4>4, <4>5, <4>12
    <3>6. QED
      BY <3>4, <3>5
  <2>20. QED
    BY <2>15, <2>16, <2>17, <2>19 DEF Keep, Steady
<1>5. QED
  BY <1>3, <1>4

(* Then the handles follow, those whose files it moved and no others.         *)
LEMMA RenameEntrySteady == ASSUME TInv, Typed', Keep, NEW t \in Thread, RenameEntry(t) PROVE Keep'
<1>1. PICK r : r = th[t]
  OBVIOUS
<1> DEFINE taken == {table.byPath[p] : p \in {r.to} \cap DOMAIN table.byPath} \ {r.ino}
           tab == IF taken = {} THEN table ELSE Removed(table, CHOOSE j \in taken : TRUE)
           known == r.ino \in DOMAIN tab.entries
           old == tab.entries[r.ino].path
           sure == known /\ old = r.path
           found == {h \in DOMAIN handles : known /\ IsPrefix(old, handles[h].path)}
           lost == (found \ r.moved) \cup (IF sure THEN {} ELSE r.moved)
           hs == IF known THEN Rekeyed(r.ino, old, r.to, r.newDir) ELSE handles
<1>2. /\ Pc(t) = "rekey" /\ UNCHANGED <<disk, nextFh>>
      /\ Become(t, Idle) /\ Idle.pc = "idle" /\ handles' = Unsteady(hs, lost)
  BY <1>1 DEF RenameEntry, Return, Idle
<1>3. Sound(tab) /\ Entries(tab)
  BY RemovedSound, RemovedType DEF TInv, Inv, Typed
<1>4. \A h \in DOMAIN handles \ lost :
         /\ h \in r.moved => sure
         /\ h \notin r.moved => ~(known /\ IsPrefix(old, handles[h].path))
  OBVIOUS
<1> HIDE DEF tab, lost
<1>5. r.path \in Path /\ r.to \in Path /\ r.newDir \in Nat
  BY <1>1 DEF TInv, Typed, Fits, Request
<1>6. known => old \in Path
  BY <1>3, PathType DEF Entries
<1> HIDE DEF old, known
<1>7. /\ Copies(hs) /\ DOMAIN hs = DOMAIN handles
      /\ \A h \in DOMAIN handles :
            /\ hs[h].path = IF known /\ IsPrefix(old, handles[h].path)
                            THEN InPlace(old, r.to, handles[h].path) ELSE handles[h].path
            /\ hs[h].file = handles[h].file /\ hs[h].data = handles[h].data
            /\ hs[h].dirty = handles[h].dirty /\ hs[h].steady = handles[h].steady
  <2>1. CASE known
    BY <1>5, <1>6, <2>1, RekeyedType DEF TInv
  <2>2. CASE ~known
    BY <2>2 DEF TInv, Typed
  <2>3. QED
    BY <2>1, <2>2
<1> HIDE DEF hs
<1>8. /\ DOMAIN handles' = DOMAIN handles
      /\ \A h \in DOMAIN handles :
            /\ handles'[h].path = hs[h].path /\ handles'[h].file = hs[h].file
            /\ handles'[h].data = hs[h].data /\ handles'[h].dirty = hs[h].dirty
            /\ handles'[h].steady = (hs[h].steady /\ h \notin lost)
  BY <1>2, <1>7, UnsteadyType
<1>9. PathsOnce' /\ Historic'
  <2>1. nextFh' >= nextFh
    BY <1>2 DEF TInv, Typed
  <2>2. QED
    BY <1>2, <2>1, HistoricKept DEF Keep, PathsOnce
<1>10. th'[t].pc = "idle" /\ \A u \in Thread \ {t} : th'[u] = th[u]
  BY <1>2 DEF TInv, Inv, Become
<1>11. ASSUME NEW h \in DOMAIN handles, handles'[h].steady
       PROVE  (Owns(h) /\ Current(h) /\ Placed(h))'
  <2>1. handles[h].steady /\ h \notin lost
    BY <1>7, <1>8, <1>11
  <2>2. Owns(h) /\ Current(h) /\ Placed(h)
    BY <2>1 DEF Keep, Steady
  <2>3. handles[h].file \in DOMAIN disk
    BY <2>2 DEF Owns
  <2>4. /\ handles'[h].file = handles[h].file /\ handles'[h].data = handles[h].data
        /\ handles'[h].dirty = handles[h].dirty
    BY <1>7, <1>8
  <2>5. \A g \in DOMAIN handles' :
           handles'[g].file = handles[h].file => g \in DOMAIN handles /\ handles[g].file = handles[h].file
    BY <1>7, <1>8
  <2>6. CASE h \notin r.moved
    <3>1. handles'[h].path = handles[h].path
      BY <1>4, <1>7, <1>8, <2>1, <2>6
    <3>2. QED
      BY <1>1, <1>2, <2>2, <2>3, <2>4, <2>5, <2>6, <3>1, Unhurt DEF TInv, Pc
  <2>7. CASE h \in r.moved
    <3>1. known /\ old = r.path
      BY <1>4, <2>1, <2>7
    <3>2. Moving(t, h) /\ Midway(h)
      BY <1>1, <1>2, <2>7 DEF Moving, Midway, Pc
    <3>3. /\ Under(r.path, handles[h].path)
          /\ disk[handles[h].file].path = InPlace(r.path, r.to, handles[h].path)
          /\ \A u \in Thread : Moving(u, h) => u = t
          /\ \A u \in OnHandle(h) : Pc(u) \notin {"apply", "record"}
      BY <1>1, <2>2, <3>2 DEF Placed
    <3>4. IsPrefix(old, handles[h].path)
      <4>1. handles[h].path \in Path
        BY PathType DEF TInv, Typed, Copies
      <4>2. QED
        BY <1>5, <3>1, <3>3, <4>1, UnderPrefix
    <3>5. handles'[h].path = disk'[handles[h].file].path
      BY <1>2, <1>7, <1>8, <3>1, <3>3, <3>4
    <3>6. \A u \in Thread : ~Moving(u, h)'
      BY <1>10, <3>3 DEF Moving, Pc
    <3>7. ~Midway(h)'
      BY <3>6 DEF Midway, Moving
    <3>8. \A u \in Thread : th'[u].fh = h => th'[u].pc \notin {"apply", "record"}
      BY <1>10, <3>3 DEF OnHandle, Pc
    <3>9. Placed(h)'
      BY <2>4, <3>5, <3>6, <3>7, <3>8 DEF Placed, OnHandle, Pc
    <3>10. Owns(h)'
      BY <1>2, <2>2, <2>4, <2>5 DEF Owns
    <3>11. Current(h)'
      <4>1. Same(h)' <=> Same(h)
        BY <1>2, <2>4 DEF Same
      <4>2. Pending(h) => Pending(h)'
        BY <1>2, <1>10 DEF Pending, OnHandle, Pc
      <4>3. QED
        BY <1>10, <2>2, <2>4, <4>1, <4>2 DEF Current, OnHandle, Pc, Closing
    <3>12. QED
      BY <3>9, <3>10, <3>11
  <2>8. QED
    BY <2>6, <2>7
<1>12. QED
  BY <1>8, <1>9, <1>11 DEF Keep, Steady
-----------------------------------------------------------------------------
LEMMA InitSteady == ASSUME Init PROVE Keep
<1> DEFINE row == SetToSeq(Tree)
<1>1. /\ row \in Seq(Tree) /\ Len(row) \in Nat
      /\ \A j, k \in 1 .. Len(row) : row[j] = row[k] => j = k
  BY TreeInRows
<1>2. /\ DOMAIN disk = 1 .. Len(row)
      /\ \A k \in 1 .. Len(row) : disk[k].path = row[k].path
  BY DEF Init
<1>3. handles = <<>> /\ \A t \in Thread : th[t].pc = "idle"
  BY DEF Init, Idle
<1> HIDE DEF row
<1>4. PathsOnce
  BY <1>1, <1>2, HandlesAssumption DEF PathsOnce
<1>5. Historic /\ Steady
  BY <1>3 DEF Historic, Steady, Pc
<1>6. QED
  BY <1>4, <1>5 DEF Keep

LEMMA KeepKept == ASSUME TInv, Keep, [Next]_vars PROVE Keep'
<1>1. Typed'
  BY TInvKept DEF TInv
<1>2. CASE UNCHANGED vars
  <2>1. UNCHANGED <<disk, table, handles, nextFh, th, clock, allow>>
    BY <1>2 DEF vars
  <2>2. PathsOnce' /\ Historic'
    BY <2>1 DEF Keep, PathsOnce, Historic, Pc
  <2>3. ASSUME NEW h \in DOMAIN handles, handles[h].steady PROVE (Owns(h) /\ Current(h) /\ Placed(h))'
    <3>1. Owns(h) /\ Current(h) /\ Placed(h)
      BY <2>3 DEF Keep, Steady
    <3>2. Owns(h)'
      BY <2>1, <3>1 DEF Owns
    <3>3. Current(h)'
      BY <2>1, <3>1 DEF Current, Same, Pending, OnHandle, Pc
    <3>4. Placed(h)'
      BY <2>1, <3>1 DEF Placed, Midway, Moving, OnHandle, Pc
    <3>5. QED
      BY <3>2, <3>3, <3>4
  <2>4. QED
    BY <2>1, <2>2, <2>3 DEF Keep, Steady
<1>3. CASE DeleteDone
  BY <1>3, DeleteDoneSteady
<1>4. ASSUME NEW t \in Thread,
             \/ NameCall(t) \/ InodeCall(t) \/ WriteCall(t) \/ CommitCall(t)
             \/ ReplaceChildren(t) \/ FindChild(t) \/ FindParent(t) \/ Refresh(t)
             \/ MakeRow(t) \/ Enter(t) \/ Load(t) \/ Insert(t)
             \/ UnlinkRow(t) \/ RemoveEntry(t) \/ RenameRow(t) \/ RenameEntry(t)
             \/ TruncateTemp(t) \/ MarkDirty(t) \/ Apply(t) \/ Record(t) \/ Finish(t)
             \/ Fail(t)
      PROVE  Keep'
  BY <1>1, <1>4, NameCallSteady, InodeCallSteady, WriteCallSteady, CommitCallSteady, ReplaceChildrenSteady,
     FindSteady, RefreshSteady, MakeRowSteady, EnterSteady, LoadSteady, InsertSteady, UnlinkRowSteady,
     RemoveEntrySteady, RenameRowSteady, RenameEntrySteady, TruncateTempSteady, MarkDirtySteady,
     ApplySteady, RecordSteady, FinishSteady, FailSteady
<1>5. QED
  BY <1>2, <1>3, <1>4 DEF Next

(* The inductive invariant of the handles: types, who is alone on what, and   *)
(* where the file of a steady handle is and what it holds.                     *)
THEOREM HandlesSteady == Spec => [](TInv /\ Keep)
<1>1. Init => TInv /\ Keep
  BY InitTyped, InitSteady
<1>2. TInv /\ Keep /\ [Next]_vars => (TInv /\ Keep)'
  BY TInvKept, KeepKept
<1>3. QED
  BY <1>1, <1>2, PTL DEF Spec

(* fs.rs, release and setattr with a size: when a handle goes, its file has   *)
(* its bytes, unless something came between them (see Steady).                 *)
THEOREM ClosesKeep == Spec => CloseKeeps
<1>1. ASSUME TInv, Keep, NEW t \in Thread, Pc(t) \in {"finish", "drop"} 
      PROVE  LET h == handles[th[t].fh]
             IN  h.steady => h.file \in DOMAIN disk /\ disk[h.file].data = h.data
  <2>1. PICK h : h = th[t].fh
    OBVIOUS
  <2>2. h \in DOMAIN handles /\ t \in OnHandle(h)
    BY <1>1, <2>1 DEF TInv, Typed, Fits, OfHandle, Alone, OnHandle, Pc
  <2>3. ASSUME handles[h].steady PROVE handles[h].file \in DOMAIN disk /\ Same(h)
    BY <1>1, <2>2, <2>3 DEF Keep, Steady, Owns, Current, Closing
  <2>4. QED
    BY <2>1, <2>3 DEF Same
<1>2. TInv /\ Keep /\ [Next]_vars
         => [\A t \in Thread :
                Pc(t) \in {"finish", "drop"} /\ th'[t].pc = "idle" =>
                    LET h == handles[th[t].fh]
                    IN  h.steady => h.file \in DOMAIN disk /\ disk[h.file].data = h.data]_vars
  BY <1>1
<1>3. QED
  BY <1>2, HandlesSteady, PTL DEF Spec, CloseKeeps
=============================================================================
