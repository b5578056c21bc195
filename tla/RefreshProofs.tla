---------------------------- MODULE RefreshProofs ----------------------------
(****************************************************************************)
(* A theorem about process_refresh_tree, for every value of the constants:  *)
(* a refresh that nothing disturbed leaves the rows of the remote tree.     *)
(* The walk sees the whole tree, page by page; the merge treats every        *)
(* resource and every row once, and the two rest on paths and ids that are  *)
(* not used twice, killed daemons included.                                  *)
(****************************************************************************)
EXTENDS SyncDeleteProofs, FiniteSetTheorems, WellFoundedInduction

(* What the remote disk keeps true of its tree.                               *)
Tree(T) == IsFiniteSet(T) /\ \A x, y \in T : x.path = y.path => x = y

LEMMA FewerInTree == ASSUME NEW T, Tree(T), NEW S \in SUBSET T PROVE Tree(S)
BY FS_Subset DEF Tree

LEMMA OneMoreInTree ==
    ASSUME NEW T, Tree(T), NEW x, \A y \in T : y.path # x.path PROVE Tree(T \cup {x})
BY FS_AddElement DEF Tree

LEMMA PutFileTree ==
    ASSUME NEW T, Tree(T), NEW p, NEW data, NEW v PROVE Tree(PutFile(T, p, data, v))
<1> DEFINE S == T \ Meta(T, p)
           x == [path |-> p, kind |-> "File", ver |-> v, data |-> data]
<1>1. Tree(S) /\ \A y \in S : y.path # x.path
  BY FewerInTree DEF Meta
<1> HIDE DEF S, x
<1>2. Tree(S \cup {x})
  BY <1>1, OneMoreInTree
<1>3. QED
  BY <1>2 DEF PutFile, S, x

LEMMA CreateDirTree ==
    ASSUME NEW T, Tree(T), NEW p, NEW v PROVE Tree(CreateDir(T, p, v))
<1> DEFINE x == [path |-> p, kind |-> "Dir", ver |-> v, data |-> NoData]
<1>1. x.path = p
  OBVIOUS
<1> HIDE DEF x
<1>2. Meta(T, p) = {} => Tree(T \cup {x})
  BY <1>1, OneMoreInTree DEF Meta
<1>3. QED
  BY <1>2 DEF CreateDir, Exists, x

LEMMA DeleteTreeTree == ASSUME NEW T, Tree(T), NEW p PROVE Tree(DeleteTree(T, p))
BY FewerInTree DEF DeleteTree

(* What follows a prefix tells two paths apart.                               *)
LEMMA MovedApart ==
    ASSUME NEW p \in Path, NEW q \in Path, NEW from \in Path, NEW to \in Path,
           IsPrefix(from, p), IsPrefix(from, q), Moved(p, from, to) = Moved(q, from, to)
    PROVE  p = q
<1> DEFINE n == Len(from)
           m == Len(to)
<1>1. /\ n \in Nat /\ m \in Nat /\ Len(p) \in Nat /\ Len(q) \in Nat
      /\ n <= Len(p) /\ n <= Len(q)
  BY DEF IsPrefix, Path
<1>2. \A s \in Path : n <= Len(s) =>
         /\ Len(Moved(s, from, to)) = m + (Len(s) - n)
         /\ \A k \in 1 .. Len(s) - n : Moved(s, from, to)[m + k] = s[n + k]
  <2>1. ASSUME NEW s \in Path, n <= Len(s)
        PROVE  /\ Len(Moved(s, from, to)) = m + (Len(s) - n)
               /\ \A k \in 1 .. Len(s) - n : Moved(s, from, to)[m + k] = s[n + k]
    <3> DEFINE rest == SubSeq(s, n + 1, Len(s))
    <3>1. /\ rest \in Path /\ Len(rest) = Len(s) - n
          /\ \A k \in 1 .. Len(s) - n : rest[k] = s[n + k]
      <4>1. Len(s) \in Nat
        BY DEF Path
      <4>2. \A i \in n + 1 .. Len(s) : s[i] \in Name
        BY <1>1, <4>1, LenProperties DEF Path
      <4>3. rest \in Path
        BY <1>1, <4>1, <4>2, SubSeqProperties DEF Path
      <4>4. QED
        BY <1>1, <2>1, <4>1, <4>3, SubSeqProperties DEF Path
    <3> HIDE DEF rest
    <3>2. Len(to \o rest) = m + Len(rest)
      BY <3>1, ConcatProperties DEF Path
    <3>3. \A k \in 1 .. Len(rest) : (to \o rest)[m + k] = rest[k]
      BY <1>1, <3>1 DEF Path
    <3>4. QED
      BY <3>1, <3>2, <3>3 DEF Moved, rest
  <2>2. QED
    BY <2>1
<1>3. Len(p) = Len(q)
  BY <1>1, <1>2
<1>4. ASSUME NEW k \in 1 .. Len(p) PROVE p[k] = q[k]
  <2>1. CASE k <= n
    <3>1. SubSeq(p, 1, n)[k] = p[k] /\ SubSeq(q, 1, n)[k] = q[k]
      BY <1>1, <1>4, <2>1 DEF Path
    <3>2. SubSeq(p, 1, n) = SubSeq(q, 1, n)
      BY DEF IsPrefix
    <3>3. QED
      BY <3>1, <3>2
  <2>2. CASE k > n
    <3>1. k - n \in 1 .. Len(p) - n /\ n + (k - n) = k
      BY <1>1, <1>4, <2>2
    <3>2. QED
      BY <1>1, <1>2, <1>3, <3>1
  <2>3. QED
    BY <1>1, <1>4, <2>1, <2>2
<1>5. QED
  BY <1>3, <1>4, SeqEqual DEF Path

LEMMA MoveTreeTree ==
    ASSUME NEW T \in SUBSET Resource, Tree(T), NEW from \in Path, NEW to \in Path, NEW v
    PROVE  Tree(MoveTree(T, from, to, v))
<1> DEFINE moved == {x \in T : IsPrefix(from, x.path)}
           new == [x \in moved |-> [x EXCEPT !.path = Moved(x.path, from, to), !.ver = v]]
           put == {[x EXCEPT !.path = Moved(x.path, from, to), !.ver = v] : x \in moved}
           rest == {x \in T \ moved : \A y \in put : y.path # x.path}
<1>1. put = {new[x] : x \in moved}
  OBVIOUS
<1>2. \A x \in moved : new[x].path = Moved(x.path, from, to)
  BY DEF Resource
<1>3. IsFiniteSet(put)
  <2>1. IsFiniteSet(moved)
    BY FS_Subset DEF Tree
  <2>2. new \in Surjection(moved, put)
    BY <1>1 DEF Surjection
  <2>3. QED
    BY <2>1, <2>2, FS_Surjection
<1>4. \A x, y \in put : x.path = y.path => x = y
  <2> HIDE DEF new
  <2>1. ASSUME NEW x \in moved, NEW y \in moved, new[x].path = new[y].path PROVE x = y
    <3>1. x.path \in Path /\ y.path \in Path /\ IsPrefix(from, x.path) /\ IsPrefix(from, y.path)
      BY DEF Resource
    <3>2. x.path = y.path
      BY <1>2, <2>1, <3>1, MovedApart
    <3>3. QED
      BY <3>2 DEF Tree
  <2> HIDE DEF put
  <2>2. QED
    BY <1>1, <2>1
<1>5. Tree(rest)
  BY FewerInTree
<1>6. \A x \in rest : \A y \in put : y.path # x.path
  OBVIOUS
<1>7. MoveTree(T, from, to, v) = rest \cup put
  BY DEF MoveTree
<1> HIDE DEF moved, put, rest
<1>8. Tree(rest \cup put)
  <2>1. IsFiniteSet(rest \cup put)
    BY <1>3, <1>5, FS_Union DEF Tree
  <2>2. QED
    BY <1>4, <1>5, <1>6, <2>1 DEF Tree
<1>9. QED
  BY <1>7, <1>8
-----------------------------------------------------------------------------
(* Paths and their prefixes.                                                  *)
LEMMA FrontPrefixes ==
    ASSUME NEW p \in Path, p # RootPath
    PROVE  /\ Len(p) \in Nat \ {0} /\ Front(p) \in Path /\ Len(Front(p)) = Len(p) - 1
           /\ Front(p) = SubSeq(p, 1, Len(p) - 1)
           /\ \A k \in 0 .. Len(p) - 1 : SubSeq(Front(p), 1, k) = SubSeq(p, 1, k)
<1>1. Len(p) \in Nat \ {0}
  BY EmptySeq, LenProperties DEF Path, RootPath
<1>2. \A i \in 1 .. Len(p) : p[i] \in Name
  BY LenProperties DEF Path
<1>3. /\ Front(p) \in Path /\ Len(Front(p)) = Len(p) - 1
      /\ \A i \in 1 .. Len(p) - 1 : Front(p)[i] = p[i]
  <2>1. \A i \in 1 .. Len(p) - 1 : p[i] \in Name
    BY <1>1, <1>2
  <2>2. 1 \in Int /\ Len(p) - 1 \in Int
    BY <1>1
  <2> DEFINE n == Len(p) - 1
  <2>3. /\ SubSeq(p, 1, n) \in Seq(Name)
        /\ Len(SubSeq(p, 1, n)) = IF 1 <= n THEN n - 1 + 1 ELSE 0
        /\ \A i \in 1 .. n - 1 + 1 : SubSeq(p, 1, n)[i] = p[1 + i - 1]
    <3> HIDE DEF n
    <3>1. QED
      BY <2>1, <2>2, SubSeqProperties DEF n
  <2>4. n \in Nat /\ n - 1 + 1 = n /\ (~(1 <= n) => n = 0)
    <3>1. \A l \in Nat \ {0} : l - 1 \in Nat /\ (l - 1) - 1 + 1 = l - 1 /\ (~(1 <= l - 1) => l - 1 = 0)
      OBVIOUS
    <3>2. QED
      BY <1>1, <3>1
  <2>5. Front(p) = SubSeq(p, 1, n)
    BY DEF Front
  <2> HIDE DEF n
  <2>6. Len(Front(p)) = n /\ \A i \in 1 .. n : Front(p)[i] = p[i]
    BY <2>3, <2>4, <2>5
  <2>7. QED
    BY <2>3, <2>5, <2>6 DEF Path, n
<1>4. ASSUME NEW k \in 0 .. Len(p) - 1 PROVE SubSeq(Front(p), 1, k) = SubSeq(p, 1, k)
  <2>1. \A i \in 1 .. k : Front(p)[i] \in Name /\ p[i] \in Name /\ Front(p)[i] = p[i]
    BY <1>1, <1>2, <1>3
  <2>2. /\ SubSeq(Front(p), 1, k) \in Seq(Name) /\ Len(SubSeq(Front(p), 1, k)) = k
        /\ \A i \in 1 .. k : SubSeq(Front(p), 1, k)[i] = Front(p)[i]
    BY <1>1, <2>1, SubSeqProperties
  <2>3. /\ SubSeq(p, 1, k) \in Seq(Name) /\ Len(SubSeq(p, 1, k)) = k
        /\ \A i \in 1 .. k : SubSeq(p, 1, k)[i] = p[i]
    BY <1>1, <2>1, SubSeqProperties
  <2>4. QED
    BY <2>1, <2>2, <2>3, SeqEqual
<1>5. QED
  BY <1>1, <1>3, <1>4 DEF Front

LEMMA Least ==
    ASSUME NEW S \in SUBSET Nat, S # {} PROVE \E x \in S : \A y \in S : x <= y
<1> DEFINE LT == {s \in Nat \X Nat : s[1] < s[2]}
<1>1. IsWellFoundedOn(LT, Nat)
  BY NatLessThanWellFounded DEF OpToRel
<1>2. PICK x \in S : \A y \in S : ~(<<y, x>> \in LT)
  <2> HIDE DEF LT
  <2>1. QED
    BY <1>1, WFMin
<1>3. ASSUME NEW y \in S, ~(x <= y) PROVE FALSE
  <2>1. x \in Nat /\ y \in Nat /\ y < x
    BY <1>3
  <2>2. <<y, x>> \in LT
    BY <2>1
  <2>3. QED
    BY <1>2, <2>2
<1>4. QED
  BY <1>3
-----------------------------------------------------------------------------
(* The walk.  A resource of the tree that is listed under a directory that    *)
(* hangs from the root hangs from the root.                                   *)
LEMMA ChildRooted ==
    ASSUME remote \subseteq Resource, NEW p, p = RootPath \/ Exists(Rooted, p),
           \E y \in Meta(remote, p) : y.kind = "Dir", NEW x \in Listing(remote, p)
    PROVE  x \in Rooted
<1>1. x \in remote /\ x.path \in Path /\ x.path # RootPath /\ Front(x.path) = p
  BY DEF Listing, Resource
<1>2. /\ Len(x.path) \in Nat \ {0} /\ Len(p) = Len(x.path) - 1
      /\ p = SubSeq(x.path, 1, Len(x.path) - 1)
      /\ \A k \in 0 .. Len(x.path) - 1 : SubSeq(p, 1, k) = SubSeq(x.path, 1, k)
  BY <1>1, FrontPrefixes
<1>3. ASSUME NEW k \in 0 .. Len(x.path) - 1
      PROVE  \E y \in Meta(remote, SubSeq(x.path, 1, k)) : y.kind = "Dir"
  <2>1. CASE k = Len(p)
    BY <1>2, <2>1
  <2>2. CASE k # Len(p)
    <3>1. p # RootPath
      <4>1. Len(RootPath) = 0
        BY DEF RootPath
      <4>2. k < Len(p)
        BY <1>2, <1>3, <2>2
      <4>3. QED
        BY <1>3, <4>1, <4>2
    <3>2. PICK z \in Rooted : z.path = p
      BY <3>1 DEF Exists, Meta
    <3>3. k \in 0 .. Len(p) - 1
      BY <1>2, <1>3, <2>2
    <3>4. QED
      BY <1>2, <3>2, <3>3 DEF Rooted
  <2>3. QED
    BY <2>1, <2>2
<1>4. QED
  BY <1>1, <1>3 DEF Rooted

(* A set that has the root, and with a directory what is listed in it, has    *)
(* everything that hangs from the root.                                       *)
LEMMA WholeTree ==
    ASSUME remote \subseteq Resource, Tree(remote), NEW S \in SUBSET Rooted,
           Exists(S, RootPath),
           \A x \in S : x.kind = "Dir" => Listing(remote, x.path) \subseteq S
    PROVE  S = Rooted
<1> DEFINE left == Rooted \ S
           lengths == {Len(x.path) : x \in left}
<1>1. Rooted \subseteq remote
  BY DEF Rooted
<1>2. \A x \in left : x \in remote /\ x.path \in Path /\ Len(x.path) \in Nat
  BY <1>1, LenProperties DEF Resource, Path
<1>3. ASSUME left # {} PROVE FALSE
  <2>1. lengths \in SUBSET Nat /\ lengths # {}
    BY <1>2, <1>3
  <2>2. PICK n \in lengths : \A m \in lengths : n <= m
    BY <2>1, Least
  <2>3. PICK x \in left : Len(x.path) = n
    BY <2>2
  <2>4. \A y \in left : Len(x.path) <= Len(y.path)
    BY <2>2, <2>3
  <2>5. x.path # RootPath
    <3>1. PICK y \in S : y.path = RootPath
      BY DEF Exists, Meta
    <3>2. x # y /\ x \in remote /\ y \in remote
      BY <1>1
    <3>3. QED
      BY <3>1, <3>2 DEF Tree
  <2> DEFINE p == Front(x.path)
  <2>6. /\ Len(x.path) \in Nat \ {0} /\ Len(p) = Len(x.path) - 1
        /\ p = SubSeq(x.path, 1, Len(x.path) - 1)
        /\ \A k \in 0 .. Len(x.path) - 1 : SubSeq(p, 1, k) = SubSeq(x.path, 1, k)
    BY <1>2, <2>5, FrontPrefixes
  <2>7. \A k \in 0 .. Len(x.path) - 1 : \E y \in Meta(remote, SubSeq(x.path, 1, k)) : y.kind = "Dir"
    BY DEF Rooted
  <2> HIDE DEF p
  <2>8. PICK y \in Meta(remote, p) : y.kind = "Dir"
    <3>1. Len(x.path) - 1 \in 0 .. Len(x.path) - 1
      BY <2>6
    <3>2. QED
      BY <2>6, <2>7, <3>1
  <2>9. y \in remote /\ y.path = p
    BY DEF Meta
  <2>10. y \in Rooted
    <3>1. \A k \in 0 .. Len(p) - 1 : \E z \in Meta(remote, SubSeq(p, 1, k)) : z.kind = "Dir"
      <4>1. \A k \in 0 .. Len(p) - 1 : k \in 0 .. Len(x.path) - 1
        BY <2>6
      <4>2. QED
        BY <2>6, <2>7, <4>1
    <3>2. QED
      BY <2>9, <3>1 DEF Rooted
  <2>11. y \in S
    <3>1. ~(Len(x.path) <= Len(y.path))
      BY <2>6, <2>9
    <3>2. QED
      BY <2>4, <2>10, <3>1
  <2>12. x \in Listing(remote, y.path)
    BY <1>2, <2>5, <2>9 DEF Listing, p
  <2>13. QED
    BY <2>8, <2>11, <2>12
<1>4. QED
  BY <1>3

LEMMA PositionType ==
    ASSUME NEW T, Tree(T), NEW x PROVE Position(T, x) \in Nat
<1> DEFINE ahead == {y \in Listing(T, Front(x.path)) : Precedes(Last(y.path), Last(x.path))}
<1>1. ahead \in SUBSET T
  BY DEF Listing
<1>2. IsFiniteSet(ahead)
  BY <1>1, FS_Subset DEF Tree
<1>3. QED
  BY <1>2, FS_CardinalityType DEF Position

(* In a tree that stands still nothing is listed in two ways.                 *)
LEMMA ListedBoth ==
    ASSUME NEW T, Tree(T), NEW S \in SUBSET T, NEW page \in SUBSET T
    PROVE  Listed(S, page) = S \cup page
BY DEF Listed, Exists, Meta, Tree

(* How far the walk is: what it has seen hangs from the root; the directories *)
(* it has still to list do; those it has seen and need not list any more were *)
(* listed to the end, and the one it is in was as far as it is.                *)
WalkedTo(seen, walk, dir, offset) ==
    /\ seen \subseteq Rooted
    /\ \A p \in walk : p = RootPath \/ Exists(Rooted, p)
    /\ RootPath \in walk \/ Exists(seen, RootPath)
    /\ \A x \in seen : x.kind = "Dir" /\ x.path \notin walk => Listing(remote, x.path) \subseteq seen
    /\ offset # 0 => /\ dir \in walk
                     /\ \A x \in Listing(remote, dir) : Position(remote, x) < offset => x \in seen

LEMMA WalkStep ==
    ASSUME remote \subseteq Resource, Tree(remote), NEW seen, NEW walk, NEW dir, NEW offset \in Nat,
           WalkedTo(seen, walk, dir, offset),
           NEW p \in IF offset = 0 THEN walk ELSE {dir},
           \E x \in Meta(remote, p) : x.kind = "Dir"
    PROVE  LET page  == Page(remote, p, offset)
               last  == LastPage(remote, p, offset)
               walk2 == (IF last THEN walk \ {p} ELSE walk)
                           \cup {x.path : x \in {y \in page : y.kind = "Dir"}}
               seen2 == Listed(seen, page \cup IF p = RootPath THEN Meta(remote, p) ELSE {})
           IN  WalkedTo(seen2, walk2, IF last THEN RootPath ELSE p,
                        IF last THEN 0 ELSE offset + PageSize)
<1> DEFINE page  == Page(remote, p, offset)
           root  == IF p = RootPath THEN Meta(remote, p) ELSE {}
           last  == LastPage(remote, p, offset)
           walk2 == (IF last THEN walk \ {p} ELSE walk)
                       \cup {x.path : x \in {y \in page : y.kind = "Dir"}}
           seen2 == Listed(seen, page \cup root)
           dir2 == IF last THEN RootPath ELSE p
           offset2 == IF last THEN 0 ELSE offset + PageSize
<1>1. PageSize \in Nat \ {0} /\ p \in walk /\ (p = RootPath \/ Exists(Rooted, p))
  BY DiskAssumption DEF WalkedTo
<1>2. Rooted \subseteq remote /\ seen \subseteq Rooted
  BY DEF Rooted, WalkedTo
<1>3. page \subseteq Listing(remote, p) /\ page \subseteq Rooted /\ root \subseteq Rooted
  <2>1. page \subseteq Listing(remote, p)
    BY DEF Page
  <2>2. Listing(remote, p) \subseteq Rooted
    BY <1>1, ChildRooted
  <2>3. root \subseteq Rooted
    BY DEF root, Meta, Rooted, RootPath
  <2>4. QED
    BY <2>1, <2>2, <2>3
<1>4. seen2 = seen \cup page \cup root
  <2> HIDE DEF page, root
  <2>1. seen \in SUBSET remote /\ page \cup root \in SUBSET remote
    BY <1>2, <1>3
  <2>2. QED
    BY <2>1, ListedBoth
<1>5. \A x \in Listing(remote, p) : Position(remote, x) < offset + PageSize => x \in seen2
  <2>1. ASSUME NEW x \in Listing(remote, p), Position(remote, x) < offset + PageSize
        PROVE  x \in seen2
    <3>1. Position(remote, x) \in Nat
      BY PositionType
    <3>2. CASE offset <= Position(remote, x)
      BY <1>4, <2>1, <3>2 DEF Page
    <3>3. CASE Position(remote, x) < offset
      <4>1. offset # 0 /\ p = dir
        BY <3>1, <3>3
      <4>2. QED
        BY <1>4, <3>3, <4>1 DEF WalkedTo
    <3>4. QED
      BY <3>1, <3>2, <3>3
  <2>2. QED
    BY <2>1
<1>6. last => Listing(remote, p) \subseteq seen2
  BY <1>5 DEF LastPage
<1>7. \A q \in walk : q # p => q \in walk2
  OBVIOUS
<1>8. \A x \in page : x.kind = "Dir" => x.path \in walk2
  <2> HIDE DEF page
  <2>1. QED
    OBVIOUS
<1>9. \A q \in walk2 : q = RootPath \/ Exists(Rooted, q)
  <2>1. \A q \in walk : q = RootPath \/ Exists(Rooted, q)
    BY DEF WalkedTo
  <2> HIDE DEF page, last
  <2>2. QED
    BY <1>3, <2>1 DEF Exists, Meta
<1>10. ~last => p \in walk2
  BY <1>1
<1> HIDE DEF page, last, walk2, seen2
<1>11. RootPath \in walk2 \/ Exists(seen2, RootPath)
  <2>1. CASE p = RootPath
    BY <1>4, <2>1 DEF Exists, Meta, root
  <2>2. CASE p # RootPath
    BY <1>4, <1>7, <2>2 DEF Exists, Meta, WalkedTo
  <2>3. QED
    BY <2>1, <2>2
<1>12. ASSUME NEW x \in seen2, x.kind = "Dir", x.path \notin walk2
       PROVE  Listing(remote, x.path) \subseteq seen2
  <2>1. CASE x.path = p
    BY <1>6, <1>10, <1>12, <2>1
  <2>2. CASE x.path # p
    <3>1. x \notin page /\ x \notin root
      BY <1>8, <1>12, <2>2 DEF root, Meta
    <3>2. x \in seen /\ x.path \notin walk
      BY <1>4, <1>7, <1>12, <2>2, <3>1
    <3>3. QED
      BY <1>4, <1>12, <3>2 DEF WalkedTo
  <2>3. QED
    BY <2>1, <2>2
<1>13. offset2 # 0 => /\ dir2 \in walk2
                      /\ \A x \in Listing(remote, dir2) : Position(remote, x) < offset2 => x \in seen2
  BY <1>5, <1>10
<1>14. seen2 \subseteq Rooted
  BY <1>2, <1>3, <1>4
<1>15. WalkedTo(seen2, walk2, dir2, offset2)
  BY <1>9, <1>11, <1>12, <1>13, <1>14 DEF WalkedTo
<1>16. QED
  BY <1>15 DEF page, root, last, walk2, seen2
-----------------------------------------------------------------------------
(* A conflict copy has the path of its file but for the number of its name,  *)
(* so it is below what the file is below.                                      *)
LEMMA CopyBeside ==
    ASSUME NEW d, NEW p \in Path, p # RootPath, NEW cp \in NextConflictPaths(d, p)
    PROVE  /\ cp \in Path /\ cp # p /\ \A q \in Path : Below(q, cp) <=> Below(q, p)
           /\ Len(cp) = Len(p) /\ \A i \in 1 .. Len(p) - 1 : cp[i] = p[i]
<1>1. PICK k \in Last(p).n + 1 .. Last(p).n + 1 + Cardinality(UsedNames(d, p)) :
         cp = WithSuffix(p, k)
  BY DEF NextConflictPaths
<1>2. /\ Len(p) \in Nat \ {0} /\ p[Len(p)] \in Name /\ Last(p) = p[Len(p)]
      /\ p \in [1 .. Len(p) -> Name]
  BY EmptySeq, LenProperties, ElementOfSeq DEF Path, RootPath, Last
<1>3. p[Len(p)].n \in Nat /\ k \in Nat \ {0} /\ k # p[Len(p)].n
  BY <1>1, <1>2 DEF Name
<1>4. cp \in Path
  BY NextConflictPathsType
<1>5. cp[Len(p)].n = k
  BY <1>1, <1>2 DEF WithSuffix, Name
<1>6. Len(cp) = Len(p) /\ \A i \in 1 .. Len(p) : i # Len(p) => cp[i] = p[i]
  <2>1. [p[Len(p)] EXCEPT !.n = k] \in Name /\ Len(p) \in 1 .. Len(p)
    BY <1>2, <1>3 DEF Name
  <2>2. cp = [p EXCEPT ![Len(p)] = [p[Len(p)] EXCEPT !.n = k]]
    BY <1>1, <1>2 DEF WithSuffix
  <2>3. Len(cp) = Len(p)
    BY <2>1, <2>2, ExceptSeq DEF Path
  <2>4. QED
    BY <1>2, <2>2, <2>3
<1>7. ASSUME NEW q \in Path PROVE Below(q, cp) <=> Below(q, p)
  <2>1. Len(q) \in Nat
    BY DEF Path
  <2>2. Len(q) < Len(p) => \A i \in 1 .. Len(q) : cp[i] = p[i]
    BY <1>2, <1>6, <2>1
  <2>3. QED
    BY <1>6, <2>2 DEF Below
<1>8. QED
  BY <1>2, <1>3, <1>4, <1>5, <1>6, <1>7

LEMMA WholePath == ASSUME NEW p \in Path PROVE Len(p) \in Nat /\ SubSeq(p, 1, Len(p)) = p
<1>1. Len(p) \in Nat /\ \A i \in 1 .. Len(p) : p[i] \in Name
  BY LenProperties, ElementOfSeq DEF Path
<1>2. /\ SubSeq(p, 1, Len(p)) \in Seq(Name) /\ Len(SubSeq(p, 1, Len(p))) = Len(p)
      /\ \A i \in 1 .. Len(p) : SubSeq(p, 1, Len(p))[i] = p[i]
  BY <1>1, SubSeqProperties
<1>3. QED
  BY <1>1, <1>2, SeqEqual DEF Path

LEMMA SelfMoved == ASSUME NEW p \in Path, NEW to \in Path PROVE Target(p, p, to) = to
<1>1. Len(p) \in Nat /\ SubSeq(p, 1, Len(p)) = p
  BY WholePath
<1>2. IsPrefix(p, p)
  BY <1>1 DEF IsPrefix
<1>3. SubSeq(p, Len(p) + 1, Len(p)) = <<>>
  <2> DEFINE rest == SubSeq(p, Len(p) + 1, Len(p))
  <2>1. rest \in Seq(Name) /\ Len(rest) = 0
    BY <1>1, SubSeqProperties DEF Path
  <2> HIDE DEF rest
  <2>2. rest = <<>>
    BY <2>1, EmptySeq
  <2>3. QED
    BY <2>2 DEF rest
<1>4. to \o <<>> = to
  BY ConcatEmptySeq DEF Path
<1>5. QED
  BY <1>2, <1>3, <1>4 DEF Target, Moved

(* What apply_conflict_locked does to a row that has nothing below it.        *)
Copied(q, cp) == [q EXCEPT !.path = cp, !.sync = "QueuedUpload", !.ver = NoVersion]

LEMMA AsideRows ==
    ASSUME NEW d, Sound(d), Tidy(d), NEW q \in d.files, NEW f, q.id = f, NEW p, q.path = p,
           NEW cp \in NextConflictPaths(d, p), Clash(d, p, cp) = {},
           \A r \in d.files : ~Below(p, r.path)
    PROVE  LET e == ApplyConflict(d, f, p, cp)
           IN  /\ e.files = (d.files \ {q}) \cup {Copied(q, cp)}
               /\ e.copies = d.copies \cup {<<f, cp>>}
<1> DEFINE aside == ForgetVersion(RenameSubtree(d, p, cp), f)
           h == UpsertAlone(aside, f, "Upload", cp, RootPath)
           e == ApplyConflict(d, f, p, cp)
           moved == [q EXCEPT !.path = cp, !.sync = "QueuedUpload", !.ver = NoVersion]
<1>1. /\ q \in Row /\ p \in Path /\ f \in FileId /\ cp \in Path
      /\ d \in Database /\ \A r \in d.files : r \in Row /\ r.path \in Path
  BY NextConflictPathsType DEF Sound, Database, Row
<1>2. Subtree(d, p) = {q}
  BY <1>1 DEF Subtree, Tidy, PathsOnce
<1>3. Target(p, p, cp) = cp
  BY <1>1, SelfMoved
<1>4. aside.files = (d.files \ {q}) \cup {moved} /\ aside.copies = d.copies /\ Sound(aside)
  <2> DEFINE to(r) == IF r = q THEN [r EXCEPT !.path = cp] ELSE r
             F == {to(r) : r \in d.files}
             m == RenameSubtree(d, p, cp)
             new(r) == IF r.id = f THEN [r EXCEPT !.sync = "QueuedUpload", !.ver = NoVersion]
                       ELSE r
  <2>1. \A r \in d.files : (IF /\ r \in Subtree(d, p)
                               /\ \A c \in Clash(d, p, cp) : Len(r.path) < Len(c.path)
                            THEN [r EXCEPT !.path = Target(r.path, p, cp)] ELSE r) = to(r)
    BY <1>2, <1>3
  <2> HIDE DEF to
  <2>2. m = [d EXCEPT !.files = F]
    BY <2>1 DEF RenameSubtree, MoveRows, Reached
  <2> HIDE DEF m
  <2>3. m.files = F /\ m.copies = d.copies
    BY <1>1, <2>2 DEF Database
  <2>4. aside.files = {new(r) : r \in F} /\ aside.copies = d.copies /\ Sound(aside)
    <3>1. Sound(aside)
      BY <1>1, AsideFollows DEF Follows
    <3>2. m \in Database
      BY <1>1, RenameSubtreeFollows DEF Follows, Sound, m
    <3>3. QED
      BY <2>3, <3>1, <3>2 DEF ForgetVersion, Database, m
  <2>5. to(q) = [q EXCEPT !.path = cp] /\ new(to(q)) = moved
    BY <1>1 DEF Row, to
  <2>6. \A r \in d.files \ {q} : to(r) = r /\ new(r) = r
    BY DEF to, Tidy, IdsOnce
  <2> HIDE DEF new, moved
  <2>7. \A x : x \in {new(r) : r \in F} <=> x \in (d.files \ {q}) \cup {moved}
    BY <2>5, <2>6
  <2>8. {new(r) : r \in F} = (d.files \ {q}) \cup {moved}
    BY <2>7
  <2>9. QED
    BY <2>4, <2>8
<1> HIDE DEF aside, moved
<1>5. h.files = aside.files /\ h.copies = aside.copies /\ h \in Database
  <2>1. DropOpsOf(aside, f) \in Database
    BY <1>4 DEF DropOpsOf, Database, Sound
  <2>2. /\ DropOpsOf(aside, f).files = aside.files
        /\ DropOpsOf(aside, f).copies = aside.copies
    BY <1>4 DEF DropOpsOf, Database, Sound
  <2>3. \A g \in Database : /\ Upsert(g, f, "Upload", cp, RootPath).files = g.files
                            /\ Upsert(g, f, "Upload", cp, RootPath).copies = g.copies
    BY DEF Upsert, Database
  <2>4. h \in Database
    BY <1>1, <1>4, UpsertAloneFollows, RootTypes DEF Follows, Sound, OpType
  <2>5. QED
    BY <2>1, <2>2, <2>3, <2>4 DEF UpsertAlone
<1> HIDE DEF h
<1>6. e.files = h.files /\ e.copies = h.copies \cup {<<f, cp>>}
  BY <1>5 DEF ApplyConflict, Database, h, aside
<1> HIDE DEF e
<1>7. QED
  BY <1>4, <1>5, <1>6 DEF e, moved, Copied

(* What ensure_remote_row does to the rows.                                   *)
LEMMA RemoteRows ==
    ASSUME NEW d \in Database, NEW res \in Resource, NEW s, NEW id
    PROVE  LET e == EnsureRemoteRow(d, res, s, id)
           IN  /\ e.copies = d.copies
               /\ \E r \in RowAt(e, res.path) : r.kind = res.kind /\ r.ver = res.ver
               /\ \A r \in d.files : r.path # res.path => r \in e.files
               /\ \A r \in e.files :
                     \/ r \in d.files
                     \/ r.path = res.path /\ r.id = id
                     \/ r.path = res.path /\ \E q \in d.files : r.id = q.id /\ r.path = q.path
<1> DEFINE e == EnsureRemoteRow(d, res, s, id)
<1>1. CASE RowAt(d, res.path) = {}
  <2> DEFINE row == [id |-> id, path |-> res.path, kind |-> res.kind,
                     sync |-> s, ver |-> res.ver, cached |-> FALSE]
  <2>1. e.files = d.files \cup {row} /\ e.copies = d.copies
    BY <1>1 DEF EnsureRemoteRow, InsertRow, Database
  <2>2. row.id = id /\ row.path = res.path /\ row.kind = res.kind /\ row.ver = res.ver
    OBVIOUS
  <2> HIDE DEF e, row
  <2>3. QED
    BY <2>1, <2>2 DEF RowAt, e
<1>2. CASE RowAt(d, res.path) # {}
  <2> DEFINE new(r) == IF r.path = res.path
                       THEN [r EXCEPT !.kind = res.kind, !.ver = res.ver,
                                      !.sync = IF r.sync \in Protected THEN r.sync ELSE s]
                       ELSE r
  <2>1. e.files = {new(r) : r \in d.files} /\ e.copies = d.copies
    BY <1>2 DEF EnsureRemoteRow, Database
  <2>2. \A r \in d.files : /\ new(r).id = r.id /\ new(r).path = r.path
                           /\ r.path # res.path => new(r) = r
                           /\ r.path = res.path => new(r).kind = res.kind /\ new(r).ver = res.ver
    BY DEF Database, Row
  <2>3. PICK r \in d.files : r.path = res.path
    BY <1>2 DEF RowAt
  <2> HIDE DEF e, new
  <2>4. \E x \in RowAt(e, res.path) : x.kind = res.kind /\ x.ver = res.ver
    BY <2>1, <2>2, <2>3 DEF RowAt
  <2>5. QED
    BY <2>1, <2>2, <2>4 DEF e
<1>3. QED
  BY <1>1, <1>2
-----------------------------------------------------------------------------
(* The transaction, for the snapshot L of the rows and the set S of what was  *)
(* seen, as far as it is: the resources merged have a row of their version;   *)
(* every row has a resource, is still to be dropped, or is a conflict copy;    *)
(* a row that is still to be treated has the path it had; and nothing lies     *)
(* below what waits to be uploaded.                                            *)
Merged(L, S, d, todo, gone) ==
    /\ todo \subseteq S
    /\ gone \subseteq {l \in L : l.path # RootPath /\ \A x \in S : x.path # l.path}
    /\ \A x \in S \ todo : \E r \in RowAt(d, x.path) : r.kind = x.kind /\ r.ver = x.ver
    /\ \A r \in d.files : \/ Exists(S, r.path) \/ <<r.id, r.path>> \in d.copies
                          \/ \E l \in gone : l.id = r.id /\ l.path = r.path
    /\ \A l \in L : l \in gone \/ Exists(todo, l.path) =>
          \A r \in d.files : r.id = l.id => r.path = l.path
    /\ \A l \in L : l.sync \in Unsynced => \A r \in d.files : ~Below(l.path, r.path)

(* What a refresh finds when it is undisturbed.                               *)
Basis(L, S) ==
    /\ L \subseteq Row /\ S \subseteq Resource
    /\ \A r, q \in L : r.id = q.id => r = q
    /\ \A x, y \in S : x.path = y.path => x = y
    /\ \A l \in L : l.sync \in Unsynced => \A x \in S : ~Below(l.path, x.path)

LEMMA MergeRow ==
    ASSUME NEW L, NEW S, Basis(L, S), NEW d \in Database, NEW todo, NEW gone,
           Merged(L, S, d, todo, gone), NEW res \in todo, NEW s, NEW id,
           \A l \in L : l.id # id
    PROVE  Merged(L, S, EnsureRemoteRow(d, res, s, id), todo \ {res}, gone)
<1> DEFINE e == EnsureRemoteRow(d, res, s, id)
<1>1. res \in S /\ res \in Resource
  BY DEF Merged, Basis
<1>2. /\ e.copies = d.copies
      /\ \E r \in RowAt(e, res.path) : r.kind = res.kind /\ r.ver = res.ver
      /\ \A r \in d.files : r.path # res.path => r \in e.files
      /\ \A r \in e.files : \/ r \in d.files
                            \/ r.path = res.path /\ r.id = id
                            \/ r.path = res.path /\ \E q \in d.files : r.id = q.id /\ r.path = q.path
  BY <1>1, RemoteRows
<1> HIDE DEF e
<1>3. ASSUME NEW x \in S \ (todo \ {res})
      PROVE  \E r \in RowAt(e, x.path) : r.kind = x.kind /\ r.ver = x.ver
  <2>1. CASE x = res
    BY <1>2, <2>1
  <2>2. CASE x # res
    <3>1. x.path # res.path
      BY <1>1, <2>2 DEF Basis
    <3>2. PICK r \in RowAt(d, x.path) : r.kind = x.kind /\ r.ver = x.ver
      BY <2>2 DEF Merged
    <3>3. QED
      BY <1>2, <3>1, <3>2 DEF RowAt
  <2>3. QED
    BY <2>1, <2>2
<1>4. ASSUME NEW r \in e.files
      PROVE  \/ Exists(S, r.path) \/ <<r.id, r.path>> \in e.copies
             \/ \E l \in gone : l.id = r.id /\ l.path = r.path
  <2>1. CASE r.path = res.path
    BY <1>1, <2>1 DEF Exists, Meta
  <2>2. CASE r.path # res.path
    BY <1>2, <2>2 DEF Merged
  <2>3. QED
    BY <2>1, <2>2
<1>5. ASSUME NEW l \in L, l \in gone \/ Exists(todo \ {res}, l.path), NEW r \in e.files, r.id = l.id
      PROVE  r.path = l.path
  <2>1. l \in gone \/ Exists(todo, l.path)
    BY <1>5 DEF Exists, Meta
  <2>2. \A q \in d.files : q.id = l.id => q.path = l.path
    BY <2>1 DEF Merged
  <2>3. QED
    BY <1>2, <1>5, <2>2
<1>6. ASSUME NEW l \in L, l.sync \in Unsynced, NEW r \in e.files PROVE ~Below(l.path, r.path)
  <2>1. ~Below(l.path, res.path)
    BY <1>1, <1>6 DEF Basis
  <2>2. r \in d.files => ~Below(l.path, r.path)
    BY <1>6 DEF Merged
  <2>3. QED
    BY <1>2, <2>1, <2>2
<1>7. /\ todo \ {res} \subseteq S
      /\ gone \subseteq {l \in L : l.path # RootPath /\ \A x \in S : x.path # l.path}
  BY DEF Merged
<1>8. Merged(L, S, e, todo \ {res}, gone)
  BY <1>3, <1>4, <1>5, <1>6, <1>7 DEF Merged
<1>9. QED
  BY <1>8 DEF e

(* A row that the transaction moves aside is a conflict copy from then on.    *)
LEMMA MergeAside ==
    ASSUME NEW L, NEW S, Basis(L, S), NEW d, Sound(d), Tidy(d), NEW todo, NEW gone,
           Merged(L, S, d, todo, gone), NEW l \in L, l.sync \in Unsynced, l.path # RootPath,
           l \in gone \/ Exists(todo, l.path),
           NEW cp \in NextConflictPaths(d, l.path), ~ConflictFails(d, l.id, l.path, cp)
    PROVE  LET e == ApplyConflict(d, l.id, l.path, cp)
           IN  /\ e \in Database
               /\ \A r \in e.files : Exists(S, r.path) \/ <<r.id, r.path>> \in e.copies
                                       \/ \E k \in gone \ {l} : k.id = r.id /\ k.path = r.path
               /\ \A k \in L : k # l /\ (k \in gone \/ Exists(todo, k.path)) =>
                      \A r \in e.files : r.id = k.id => r.path = k.path
               /\ \A k \in L : k.sync \in Unsynced => \A r \in e.files : ~Below(k.path, r.path)
               /\ \A r \in d.files : r.path # l.path => r \in e.files
<1> DEFINE e == ApplyConflict(d, l.id, l.path, cp)
<1>1. /\ l \in Row /\ l.path \in Path /\ l.id \in FileId /\ d \in Database
      /\ \A k \in L : k.path \in Path
  BY DEF Basis, Row, Sound
<1>2. PICK q \in d.files : q.id = l.id
  BY DEF ConflictFails, HasRow, RowOf
<1>3. q.path = l.path /\ q \in Row
  BY <1>1, <1>2 DEF Merged, Database
<1> DEFINE moved == Copied(q, cp)
<1>4. /\ e.files = (d.files \ {q}) \cup {moved}
      /\ e.copies = d.copies \cup {<<l.id, cp>>}
  <2>1. \A r \in d.files : ~Below(l.path, r.path)
    BY DEF Merged
  <2>2. Clash(d, l.path, cp) = {}
    BY DEF ConflictFails
  <2>3. QED
    BY <1>2, <1>3, <2>1, <2>2, AsideRows
<1>5. moved.id = l.id /\ moved.path = cp
  BY <1>2, <1>3 DEF Row, Copied
<1>6. cp \in Path /\ cp # l.path /\ \A p \in Path : Below(p, cp) <=> Below(p, l.path)
  BY <1>1, CopyBeside
<1>7. e \in Database
  BY <1>1, <1>6, ApplyConflictFollows DEF Follows, Sound
<1> HIDE DEF moved, e
<1>8. \A r \in d.files : r.path # l.path => r \in e.files
  BY <1>3, <1>4
<1>9. ASSUME NEW r \in e.files
      PROVE  Exists(S, r.path) \/ <<r.id, r.path>> \in e.copies
               \/ \E k \in gone \ {l} : k.id = r.id /\ k.path = r.path
  <2>1. CASE r = moved
    BY <1>4, <1>5, <2>1
  <2>2. CASE r \in d.files /\ r # q
    <3>1. r.id # l.id
      BY <1>2, <2>2 DEF Tidy, IdsOnce
    <3>2. \/ Exists(S, r.path) \/ <<r.id, r.path>> \in d.copies
          \/ \E k \in gone : k.id = r.id /\ k.path = r.path
      BY <2>2 DEF Merged
    <3>3. QED
      BY <1>4, <3>1, <3>2
  <2>3. QED
    BY <1>4, <2>1, <2>2
<1>10. ASSUME NEW k \in L, k # l, k \in gone \/ Exists(todo, k.path), NEW r \in e.files, r.id = k.id
       PROVE  r.path = k.path
  <2>1. k.id # l.id
    BY <1>10 DEF Basis
  <2>2. r \in d.files
    BY <1>4, <1>5, <1>10, <2>1
  <2>3. QED
    BY <1>10, <2>2 DEF Merged
<1>11. ASSUME NEW k \in L, k.sync \in Unsynced, NEW r \in e.files PROVE ~Below(k.path, r.path)
  <2>1. \A g \in d.files : ~Below(k.path, g.path)
    BY <1>11 DEF Merged
  <2>2. ~Below(k.path, l.path)
    BY <1>3, <2>1
  <2>3. ~Below(k.path, moved.path)
    BY <1>1, <1>5, <1>6, <2>2
  <2>4. QED
    BY <1>4, <2>1, <2>3
<1>12. QED
  BY <1>7, <1>8, <1>9, <1>10, <1>11 DEF e

LEMMA MergeDiverged ==
    ASSUME NEW L, NEW S, Basis(L, S), NEW d, Sound(d), Tidy(d), NEW todo, NEW gone,
           Merged(L, S, d, todo, gone), NEW res \in todo, NEW l \in L, l.path = res.path,
           l.sync \in Unsynced, l.path # RootPath, NEW s, NEW id, \A k \in L : k.id # id,
           NEW cp \in NextConflictPaths(d, l.path), ~ConflictFails(d, l.id, l.path, cp)
    PROVE  Merged(L, S, EnsureRemoteRow(ApplyConflict(d, l.id, l.path, cp), res, s, id),
                  todo \ {res}, gone)
<1> DEFINE e == ApplyConflict(d, l.id, l.path, cp)
           g == EnsureRemoteRow(e, res, s, id)
<1>1. res \in S /\ res \in Resource /\ todo \subseteq S
  BY DEF Merged, Basis
<1>2. Exists(todo, l.path)
  BY DEF Exists, Meta
<1>3. /\ e \in Database
      /\ \A r \in e.files : Exists(S, r.path) \/ <<r.id, r.path>> \in e.copies
                              \/ \E k \in gone \ {l} : k.id = r.id /\ k.path = r.path
      /\ \A k \in L : k # l /\ (k \in gone \/ Exists(todo, k.path)) =>
             \A r \in e.files : r.id = k.id => r.path = k.path
      /\ \A k \in L : k.sync \in Unsynced => \A r \in e.files : ~Below(k.path, r.path)
      /\ \A r \in d.files : r.path # l.path => r \in e.files
  BY <1>2, MergeAside
<1> HIDE DEF e
<1>4. /\ g.copies = e.copies
      /\ \E r \in RowAt(g, res.path) : r.kind = res.kind /\ r.ver = res.ver
      /\ \A r \in e.files : r.path # res.path => r \in g.files
      /\ \A r \in g.files : \/ r \in e.files
                            \/ r.path = res.path /\ r.id = id
                            \/ r.path = res.path /\ \E q \in e.files : r.id = q.id /\ r.path = q.path
  BY <1>1, <1>3, RemoteRows
<1> HIDE DEF g
<1>5. ASSUME NEW x \in S \ (todo \ {res})
      PROVE  \E r \in RowAt(g, x.path) : r.kind = x.kind /\ r.ver = x.ver
  <2>1. CASE x = res
    BY <1>4, <2>1
  <2>2. CASE x # res
    <3>1. x.path # res.path
      BY <1>1, <2>2 DEF Basis
    <3>2. PICK r \in RowAt(d, x.path) : r.kind = x.kind /\ r.ver = x.ver
      BY <2>2 DEF Merged
    <3>3. r \in g.files
      BY <1>3, <1>4, <3>1, <3>2 DEF RowAt
    <3>4. QED
      BY <3>2, <3>3 DEF RowAt
  <2>3. QED
    BY <2>1, <2>2
<1>6. ASSUME NEW r \in g.files
      PROVE  \/ Exists(S, r.path) \/ <<r.id, r.path>> \in g.copies
             \/ \E k \in gone : k.id = r.id /\ k.path = r.path
  <2>1. CASE r.path = res.path
    BY <1>1, <2>1 DEF Exists, Meta
  <2>2. CASE r.path # res.path
    BY <1>3, <1>4, <2>2
  <2>3. QED
    BY <2>1, <2>2
<1>7. ASSUME NEW k \in L, k \in gone \/ Exists(todo \ {res}, k.path), NEW r \in g.files, r.id = k.id
      PROVE  r.path = k.path
  <2>1. l \notin gone
    BY <1>1 DEF Merged
  <2>2. \A x \in todo \ {res} : x.path # l.path
    BY <1>1 DEF Basis
  <2>3. k # l /\ (k \in gone \/ Exists(todo, k.path))
    BY <1>7, <2>1, <2>2 DEF Exists, Meta
  <2>4. \A q \in e.files : q.id = k.id => q.path = k.path
    BY <1>3, <2>3
  <2>5. QED
    BY <1>4, <1>7, <2>4
<1>8. ASSUME NEW k \in L, k.sync \in Unsynced, NEW r \in g.files PROVE ~Below(k.path, r.path)
  <2>1. ~Below(k.path, res.path)
    BY <1>1, <1>8 DEF Basis
  <2>2. \A q \in e.files : ~Below(k.path, q.path)
    BY <1>3, <1>8
  <2>3. QED
    BY <1>4, <2>1, <2>2
<1>9. /\ todo \ {res} \subseteq S
      /\ gone \subseteq {k \in L : k.path # RootPath /\ \A x \in S : x.path # k.path}
  BY DEF Merged
<1>10. Merged(L, S, g, todo \ {res}, gone)
  BY <1>5, <1>6, <1>7, <1>8, <1>9 DEF Merged
<1>11. QED
  BY <1>10 DEF g, e

LEMMA DropDiverged ==
    ASSUME NEW L, NEW S, Basis(L, S), NEW d, Sound(d), Tidy(d), NEW gone,
           Merged(L, S, d, {}, gone), NEW l \in gone, l.sync \in Unsynced,
           NEW cp \in NextConflictPaths(d, l.path), ~ConflictFails(d, l.id, l.path, cp)
    PROVE  Merged(L, S, ApplyConflict(d, l.id, l.path, cp), {}, gone \ {l})
<1> DEFINE e == ApplyConflict(d, l.id, l.path, cp)
<1>1. l \in L /\ l.path # RootPath /\ \A x \in S : x.path # l.path
  BY DEF Merged
<1>2. /\ \A r \in e.files : Exists(S, r.path) \/ <<r.id, r.path>> \in e.copies
                              \/ \E k \in gone \ {l} : k.id = r.id /\ k.path = r.path
      /\ \A k \in L : k # l /\ (k \in gone \/ Exists({}, k.path)) =>
             \A r \in e.files : r.id = k.id => r.path = k.path
      /\ \A k \in L : k.sync \in Unsynced => \A r \in e.files : ~Below(k.path, r.path)
      /\ \A r \in d.files : r.path # l.path => r \in e.files
  BY <1>1, MergeAside
<1> HIDE DEF e
<1>3. ASSUME NEW x \in S PROVE \E r \in RowAt(e, x.path) : r.kind = x.kind /\ r.ver = x.ver
  <2>1. PICK r \in RowAt(d, x.path) : r.kind = x.kind /\ r.ver = x.ver
    BY DEF Merged
  <2>2. QED
    BY <1>1, <1>2, <2>1 DEF RowAt
<1>4. /\ {} \subseteq S
      /\ gone \ {l} \subseteq {k \in L : k.path # RootPath /\ \A x \in S : x.path # k.path}
  BY DEF Merged
<1>5. Merged(L, S, e, {}, gone \ {l})
  BY <1>2, <1>3, <1>4 DEF Merged, Exists, Meta
<1>6. QED
  BY <1>5 DEF e

LEMMA DropDone ==
    ASSUME NEW L, NEW S, Basis(L, S), NEW d \in Database, NEW gone,
           Merged(L, S, d, {}, gone), NEW l \in gone
    PROVE  /\ Merged(L, S, DeleteRow(d, l.id), {}, gone \ {l})
           /\ IsConflictCopy(d, l.id, l.path) => Merged(L, S, d, {}, gone \ {l})
<1> DEFINE e == DeleteRow(d, l.id)
<1>1. l \in L /\ \A x \in S : x.path # l.path
  BY DEF Merged
<1>2. e.files = {r \in d.files : r.id # l.id} /\ e.copies = {c \in d.copies : c[1] # l.id}
  BY DEF DeleteRow, Database
<1> HIDE DEF e
<1>3. ASSUME NEW x \in S PROVE \E r \in RowAt(e, x.path) : r.kind = x.kind /\ r.ver = x.ver
  <2>1. PICK r \in RowAt(d, x.path) : r.kind = x.kind /\ r.ver = x.ver
    BY DEF Merged
  <2>2. r.id # l.id
    BY <1>1, <2>1 DEF Merged, RowAt
  <2>3. QED
    BY <1>2, <2>1, <2>2 DEF RowAt
<1>4. ASSUME NEW r \in e.files
      PROVE  \/ Exists(S, r.path) \/ <<r.id, r.path>> \in e.copies
             \/ \E k \in gone \ {l} : k.id = r.id /\ k.path = r.path
  BY <1>2 DEF Merged
<1>5. Merged(L, S, e, {}, gone \ {l})
  BY <1>2, <1>3, <1>4 DEF Merged
<1>6. IsConflictCopy(d, l.id, l.path) => Merged(L, S, d, {}, gone \ {l})
  BY DEF Merged, IsConflictCopy
<1>7. QED
  BY <1>5, <1>6 DEF e
-----------------------------------------------------------------------------
(* The invariant: the remote disk has one resource per path; the worker comes *)
(* to a refresh with nothing seen; as long as no other client has changed the *)
(* tree the walk is as far as it is, what it ends with is the tree, and the   *)
(* transaction has merged what it no longer has to do.                        *)
Walking == {"f_list", "f_snap", "f_begin", "f_apply"}

Still == w.before = spent.other

Whole(S) == S = Rooted /\ Exists(S, RootPath)

RefreshInv ==
    /\ Tree(remote)
    /\ w.pc \in {"idle", "start"} => w.seen = {} /\ w.offset = 0
    /\ w.pc \in Walking => w.before <= spent.other
    /\ w.pc = "f_list" /\ Still => WalkedTo(w.seen, w.walk, w.dir, w.offset)
    /\ w.pc \in {"f_snap", "f_begin", "f_apply"} /\ Still => Whole(w.seen)
    /\ w.pc = "f_apply" /\ Undisturbed => Merged(w.snap, w.seen, w.tx, w.todo, w.gone)

(* What other clients do is counted.                                          *)
LEMMA OthersCounted ==
    ASSUME TypeOK, Counted
    PROVE  /\ spent.other \in Nat /\ spent'.other \in Nat /\ spent.other <= spent'.other
           /\ Spend("other") => spent.other < spent'.other
<1>1. spent \in [EventKind -> Nat] /\ "other" \in EventKind
  BY DEF TypeOK, Events, EventKind
<1>2. ASSUME NEW kind, Spend(kind) PROVE spent'["other"] \in {spent["other"], spent["other"] + 1}
  BY <1>1, <1>2 DEF Spend
<1>3. spent'["other"] \in {spent["other"], spent["other"] + 1}
  BY <1>2 DEF Counted
<1>4. Spend("other") => spent'["other"] = spent["other"] + 1
  BY <1>1 DEF Spend
<1>5. spent["other"] \in Nat
  BY <1>1
<1>6. QED
  BY <1>3, <1>4, <1>5

(* Steps that leave the worker where it is.                                   *)
LEMMA WorkerStays ==
    ASSUME Inv, RefreshInv, Counted, Tree(remote'), w' = w, Locked => db' = db,
           remote' = remote \/ Spend("other")
    PROVE  RefreshInv'
<1>0. /\ spent.other \in Nat /\ spent'.other \in Nat /\ spent.other <= spent'.other
      /\ remote' = remote \/ spent.other < spent'.other
  BY OthersCounted DEF Inv
<1>1. w.before \in Nat
  BY WorkerTypes DEF Inv, WorkerState
<1>2. ASSUME w.pc \in Walking PROVE w'.before <= spent'.other /\ (Still' => Still /\ remote' = remote)
  BY <1>0, <1>1, <1>2 DEF RefreshInv, Still
<1>3. ASSUME w.pc = "f_list", Still' PROVE WalkedTo(w.seen, w.walk, w.dir, w.offset)'
  <2>1. WalkedTo(w.seen, w.walk, w.dir, w.offset) /\ remote' = remote
    BY <1>2, <1>3 DEF RefreshInv, Walking
  <2>2. QED
    BY <2>1 DEF WalkedTo, Rooted
<1>4. ASSUME w.pc \in {"f_snap", "f_begin", "f_apply"}, Still' PROVE Whole(w.seen)'
  <2>1. Whole(w.seen) /\ remote' = remote
    BY <1>2, <1>4 DEF RefreshInv, Walking
  <2>2. QED
    BY <2>1 DEF Whole, Rooted
<1>5. ASSUME w.pc = "f_apply", Undisturbed' PROVE Merged(w.snap, w.seen, w.tx, w.todo, w.gone)'
  <2>1. Still
    BY <1>2, <1>5 DEF Undisturbed, Still, Walking
  <2>2. Undisturbed
    BY <1>5, <2>1 DEF Undisturbed, Still, Locked
  <2>3. QED
    BY <1>5, <2>2 DEF RefreshInv
<1>6. w.pc \in {"idle", "start"} => w'.seen = {} /\ w'.offset = 0
  BY DEF RefreshInv
<1>7. QED
  BY <1>2, <1>3, <1>4, <1>5, <1>6 DEF RefreshInv

(* Steps that take the worker out of a refresh, or never were in one.         *)
LEMMA WorkerAway ==
    ASSUME Tree(remote'), Finish \/ w'.pc \notin Walking \cup {"idle", "start"}
    PROVE  RefreshInv'
<1>1. CASE Finish
  <2>1. w'.pc = "idle" /\ w'.seen = {} /\ w'.offset = 0
    BY <1>1 DEF Finish, IdleWorker
  <2>2. QED
    BY <2>1 DEF RefreshInv, Walking
<1>2. CASE w'.pc \notin Walking \cup {"idle", "start"}
  BY <1>2 DEF RefreshInv, Walking
<1>3. QED
  BY <1>1, <1>2
-----------------------------------------------------------------------------
(* The calls, the other clients and a kill.                                   *)
LEMMA CallMirrors ==
    ASSUME Inv, RefreshInv, NEW t \in Thread, Call(t) \/ CallStep(t) PROVE RefreshInv'
<1>1. UNCHANGED <<w, remote>> /\ (Locked => db' = db)
  <2>1. CASE Call(t)
    BY <2>1 DEF Call, CreateFile, MakeDir, WriteFile, Unlink, Rename, ReadFile
  <2>2. CASE CallStep(t)
    BY <2>2 DEF CallStep, CreateCommit, MkdirCommit, WriteCopy, WriteCommit, UnlinkCommit,
       RenameCommit, ReadDownload, ReadDownloadFails, ReadStore, ReadCommit
  <2>3. QED
    BY <2>1, <2>2
<1>2. Tree(remote')
  BY <1>1 DEF RefreshInv
<1>3. QED
  BY <1>1, <1>2, CallCounted, WorkerStays

LEMMA RequestMirrors == ASSUME Inv, RefreshInv, RequestRefresh PROVE RefreshInv'
<1>1. Counted /\ UNCHANGED <<w, remote>> /\ ~Locked
  BY DEF RequestRefresh, Counted
<1>2. Tree(remote')
  BY <1>1 DEF RefreshInv
<1>3. QED
  BY <1>1, <1>2, WorkerStays

LEMMA OtherMirrors == ASSUME Inv, RefreshInv, OtherClient PROVE RefreshInv'
<1>1. Spend("other") /\ UNCHANGED <<w, db>> /\ Counted
  BY DEF OtherClient, OtherPut, OtherDelete, Counted
<1>2. Tree(remote')
  BY PutFileTree, DeleteTreeTree DEF OtherClient, OtherPut, OtherDelete, RefreshInv
<1>3. QED
  BY <1>1, <1>2, WorkerStays

LEMMA RestartMirrors == ASSUME RefreshInv, CrashRestart PROVE RefreshInv'
<1>1. Tree(remote') /\ Finish
  BY DEF RefreshInv, CrashRestart, Finish
<1>2. QED
  BY <1>1, WorkerAway
-----------------------------------------------------------------------------
(* The worker outside of a refresh.                                           *)
LEMMA LeaseMirrors == ASSUME Inv, RefreshInv, RecoverLease \/ Lease PROVE RefreshInv'
<1>1. CASE RecoverLease
  <2>1. Counted /\ UNCHANGED <<w, remote>> /\ ~Locked
    BY <1>1 DEF RecoverLease, Counted, At, Locked
  <2>2. Tree(remote')
    BY <2>1 DEF RefreshInv
  <2>3. QED
    BY <2>1, <2>2, WorkerStays
<1>2. CASE Lease
  <2>1. w.pc = "idle" /\ UNCHANGED remote
    BY <1>2 DEF Lease, At
  <2>2. w.seen = {} /\ w.offset = 0 /\ Tree(remote')
    BY <2>1 DEF RefreshInv
  <2>3. w'.pc = "start" /\ w'.seen = w.seen /\ w'.offset = w.offset
    BY <1>2, WorkerTypes DEF Inv, Lease, WorkerState
  <2>4. QED
    BY <2>2, <2>3 DEF RefreshInv, Walking
<1>3. QED
  BY <1>1, <1>2

LEMMA StartMirrors == ASSUME Inv, RefreshInv, Start PROVE RefreshInv'
<1> DEFINE type == w.job.type
           found == IF type \in {"Upload", "Mkdir", "Download"} THEN Mine ELSE {RootRow}
           start == IF type = "RefreshTree" THEN spent.other ELSE 0
           started == [w EXCEPT !.pc = FirstStep[type], !.entry = The(found),
                                !.walk = {RootPath}, !.before = start]
<1>1. /\ Goto("u_finish") \/ Finish \/ w' = started
      /\ w.pc = "start" /\ UNCHANGED <<remote, spent>>
  BY DEF Start, Abandon, At
<1>2. w.seen = {} /\ w.offset = 0 /\ Tree(remote')
  BY <1>1 DEF RefreshInv
<1>3. CASE Goto("u_finish") \/ Finish
  <2>1. Finish \/ w'.pc \notin Walking \cup {"idle", "start"}
    BY <1>3, GotoPc DEF Walking
  <2>2. QED
    BY <1>2, <2>1, WorkerAway
<1>4. CASE w' = started
  <2>1. /\ w'.pc = FirstStep[type] /\ w'.seen = {} /\ w'.offset = 0 /\ w'.walk = {RootPath}
        /\ w'.before = start
    <3> HIDE DEF found, start, type
    <3>1. w \in WorkerState
      BY WorkerTypes DEF Inv
    <3>2. QED
      BY <1>2, <1>4, <3>1 DEF WorkerState
  <2>2. type \in OpType
    BY WorkerTypes DEF Inv
  <2>3. CASE type = "RefreshTree"
    <3>1. w'.pc = "f_list" /\ w'.before = spent'.other
      BY <1>1, <2>1, <2>3 DEF FirstStep
    <3>2. WalkedTo(w.seen, w.walk, w.dir, w.offset)'
      BY <2>1 DEF WalkedTo
    <3>3. spent'.other \in Nat
      BY <1>1 DEF Inv, TypeOK, Events, EventKind
    <3>4. QED
      BY <1>2, <2>1, <3>1, <3>2, <3>3 DEF RefreshInv, Walking
  <2>4. CASE type # "RefreshTree"
    <3>1. w'.pc \notin Walking \cup {"idle", "start"}
      BY <2>1, <2>2, <2>4 DEF FirstStep, OpType, Walking
    <3>2. QED
      BY <1>2, <3>1, WorkerAway
  <2>5. QED
    BY <2>3, <2>4
<1>5. QED
  BY <1>1, <1>3, <1>4

(* A step of another function than process_refresh_tree: the worker stays in  *)
(* it, or is done.                                                             *)
JobPc == WorkerPc \ (Walking \cup {"idle", "start"})

LEMMA JobMirrors ==
    ASSUME Tree(remote'), Finish \/ w'.pc \in JobPc PROVE RefreshInv'
BY WorkerAway DEF JobPc

LEMMA UploadMirrors ==
    ASSUME Inv, RefreshInv,
           \/ UploadMark \/ UploadCheck \/ UploadConflict \/ UploadFinish
           \/ UploadPut \/ UploadFetch \/ UploadCommit
    PROVE  RefreshInv'
<1> USE DEF JobPc, WorkerPc, Walking
<1>0. Tree(remote) /\ w \in WorkerState
  BY WorkerTypes DEF Inv, RefreshInv
<1>1. CASE UploadMark
  BY <1>0, <1>1, GotoPc, JobMirrors DEF UploadMark
<1>2. CASE UploadCheck
  <2>1. w'.pc \in {"u_put", "u_conflict"}
    BY <1>0, <1>2 DEF UploadCheck, WorkerState
  <2>2. QED
    BY <1>0, <1>2, <2>1, JobMirrors DEF UploadCheck
<1>3. CASE UploadConflict
  <2>1. Finish \/ w'.pc = "u_finish"
    BY <1>3, GotoPc DEF UploadConflict, Abandon
  <2>2. QED
    BY <1>0, <1>3, <2>1, JobMirrors DEF UploadConflict
<1>4. CASE UploadFinish
  BY <1>0, <1>4, JobMirrors DEF UploadFinish
<1>5. CASE UploadPut
  <2>1. w'.pc \in {"u_fetch", "fail"}
    BY <1>5, GotoPc, FailPc DEF UploadPut, AnswerLost
  <2>2. Tree(remote')
    BY <1>0, <1>5, PutFileTree DEF UploadPut
  <2>3. QED
    BY <2>1, <2>2, JobMirrors
<1>6. CASE UploadFetch
  <2>1. w'.pc \in {"u_commit", "fail"}
    BY <1>6, FailPc, MetaPc DEF UploadFetch
  <2>2. QED
    BY <1>0, <1>6, <2>1, JobMirrors DEF UploadFetch
<1>7. CASE UploadCommit
  BY <1>0, <1>7, JobMirrors DEF UploadCommit, CommitSynced
<1>8. QED
  BY <1>1, <1>2, <1>3, <1>4, <1>5, <1>6, <1>7

LEMMA MakeMirrors ==
    ASSUME Inv, RefreshInv,
           DeleteCall \/ DeleteCommit \/ MkdirCall \/ MkdirFetch \/ MkdirSynced
    PROVE  RefreshInv'
<1> USE DEF JobPc, WorkerPc, Walking
<1>0. Tree(remote)
  BY DEF RefreshInv
<1>1. CASE DeleteCall
  <2>1. w'.pc \in {"d_commit", "fail"}
    BY <1>1, GotoPc, FailPc DEF DeleteCall, AnswerLost
  <2>2. Tree(remote')
    BY <1>0, <1>1, DeleteTreeTree DEF DeleteCall
  <2>3. QED
    BY <2>1, <2>2, JobMirrors
<1>2. CASE DeleteCommit
  BY <1>0, <1>2, JobMirrors DEF DeleteCommit
<1>3. CASE MkdirCall
  <2>1. w'.pc \in {"m_fetch", "fail"}
    BY <1>3, GotoPc, FailPc DEF MkdirCall, AnswerLost
  <2>2. Tree(remote')
    BY <1>0, <1>3, CreateDirTree DEF MkdirCall
  <2>3. QED
    BY <2>1, <2>2, JobMirrors
<1>4. CASE MkdirFetch
  <2>1. Finish \/ w'.pc = "m_commit"
    BY <1>4, MetaPc DEF MkdirFetch, Abandon
  <2>2. QED
    BY <1>0, <1>4, <2>1, JobMirrors DEF MkdirFetch
<1>5. CASE MkdirSynced
  BY <1>0, <1>5, JobMirrors DEF MkdirSynced, CommitSynced
<1>6. QED
  BY <1>1, <1>2, <1>3, <1>4, <1>5

LEMMA RenameMirrors ==
    ASSUME Inv, RefreshInv,
           RenameProbe \/ RenameDelete \/ RenameMove \/ RenameFetch \/ RenameSynced
    PROVE  RefreshInv'
<1> USE DEF JobPc, WorkerPc, Walking
<1>0. Tree(remote)
  BY DEF RefreshInv
<1>1. CASE RenameProbe
  <2>1. w'.pc \in {"r_delete", "r_move"}
    BY <1>1, GotoPc DEF RenameProbe
  <2>2. QED
    BY <1>0, <1>1, <2>1, JobMirrors DEF RenameProbe
<1>2. CASE RenameDelete
  <2>1. w'.pc \in {"r_fetch", "fail"}
    BY <1>2, GotoPc, FailPc DEF RenameDelete, AnswerLost
  <2>2. Tree(remote')
    BY <1>0, <1>2, DeleteTreeTree DEF RenameDelete
  <2>3. QED
    BY <2>1, <2>2, JobMirrors
<1>3. CASE RenameMove
  <2>1. w'.pc \in {"r_fetch", "fail"}
    BY <1>3, GotoPc, FailPc DEF RenameMove, AnswerLost
  <2>2. Tree(remote')
    BY <1>0, <1>3, WorkerTypes, MoveTreeTree DEF RenameMove, Inv, TypeOK
  <2>3. QED
    BY <2>1, <2>2, JobMirrors
<1>4. CASE RenameFetch
  <2>1. w'.pc = "r_commit"
    BY <1>4, MetaPc DEF RenameFetch
  <2>2. QED
    BY <1>0, <1>4, <2>1, JobMirrors DEF RenameFetch
<1>5. CASE RenameSynced
  BY <1>0, <1>5, JobMirrors DEF RenameSynced, CommitSynced
<1>6. QED
  BY <1>1, <1>2, <1>3, <1>4, <1>5

LEMMA DownloadMirrors ==
    ASSUME Inv, RefreshInv,
           Fail \/ DownloadMark \/ DownloadGet \/ DownloadWrite \/ DownloadCommit
    PROVE  RefreshInv'
<1> USE DEF JobPc, WorkerPc, Walking
<1>0. Tree(remote) /\ w \in WorkerState
  BY WorkerTypes DEF Inv, RefreshInv
<1>1. CASE Fail
  BY <1>0, <1>1, JobMirrors DEF Fail
<1>2. CASE DownloadMark
  BY <1>0, <1>2, GotoPc, JobMirrors DEF DownloadMark
<1>3. CASE DownloadGet
  <2>1. w'.pc \in {"l_write", "fail"}
    BY <1>0, <1>3 DEF DownloadGet, WorkerState
  <2>2. QED
    BY <1>0, <1>3, <2>1, JobMirrors DEF DownloadGet
<1>4. CASE DownloadWrite
  BY <1>0, <1>4, GotoPc, JobMirrors DEF DownloadWrite
<1>5. CASE DownloadCommit
  BY <1>0, <1>5, JobMirrors DEF DownloadCommit
<1>6. QED
  BY <1>1, <1>2, <1>3, <1>4, <1>5

LEMMA FaultMirrors == ASSUME Inv, RefreshInv, NetworkFails PROVE RefreshInv'
<1>1. Tree(remote')
  BY DEF NetworkFails, RefreshInv
<1>2. Finish \/ w'.pc \in {"fail", "r_move"}
  BY GotoPc, FailPc DEF NetworkFails, CallFails, CallAbandoned, Abandon
<1>3. QED
  BY <1>1, <1>2, JobMirrors DEF JobPc, WorkerPc, Walking
-----------------------------------------------------------------------------
(* process_refresh_tree: the walk, the snapshot and the transaction.          *)
LEMMA ListMirrors == ASSUME Inv, RefreshInv, RefreshList PROVE RefreshInv'
<1>0. w \in WorkerState /\ w.pc = "f_list" /\ UNCHANGED <<remote, spent>> /\ w.offset \in Nat
  BY WorkerTypes, RefreshTypes DEF Inv, RefreshList, At
<1>1. PICK p \in IF w.offset = 0 THEN w.walk ELSE {w.dir} :
         LET page == Page(remote, p, w.offset)
             last == LastPage(remote, p, w.offset)
             walk == (IF last THEN w.walk \ {p} ELSE w.walk)
                        \cup {x.path : x \in {y \in page : y.kind = "Dir"}}
         IN  IF \E x \in Meta(remote, p) : x.kind = "Dir"
             THEN w' = [w EXCEPT !.pc = IF walk = {} THEN "f_snap" ELSE "f_list",
                                 !.walk = walk,
                                 !.dir = IF last THEN RootPath ELSE p,
                                 !.offset = IF last THEN 0 ELSE @ + PageSize,
                                 !.seen = Listed(@, page \cup
                                    IF p = RootPath THEN Meta(remote, p) ELSE {})]
             ELSE Abandon
  BY DEF RefreshList
<1> DEFINE last == LastPage(remote, p, w.offset)
           page == Page(remote, p, w.offset)
           walk == (IF last THEN w.walk \ {p} ELSE w.walk)
                      \cup {x.path : x \in {y \in page : y.kind = "Dir"}}
           seen == Listed(w.seen, page \cup IF p = RootPath THEN Meta(remote, p) ELSE {})
           step == IF walk = {} THEN "f_snap" ELSE "f_list"
           dir == IF last THEN RootPath ELSE p
           offset == IF last THEN 0 ELSE w.offset + PageSize
           listed == [w EXCEPT !.pc = step, !.walk = walk, !.dir = dir, !.offset = offset,
                               !.seen = seen]
<1>2. Tree(remote')
  BY <1>0 DEF RefreshInv
<1>3. CASE Abandon
  BY <1>2, <1>3, WorkerAway DEF Abandon
<1>4. CASE ~Abandon
  <2>1. (\E x \in Meta(remote, p) : x.kind = "Dir") /\ w' = listed
    BY <1>0, <1>1, <1>4 DEF WorkerState
  <2>2. Still => WalkedTo(seen, walk, dir, offset)
    <3>1. Still => WalkedTo(w.seen, w.walk, w.dir, w.offset)
      BY <1>0 DEF RefreshInv
    <3>2. remote \subseteq Resource /\ Tree(remote)
      BY DEF Inv, TypeOK, RefreshInv
    <3>3. QED
      BY <1>0, <2>1, <3>1, <3>2, WalkStep
  <2>3. step = IF walk = {} THEN "f_snap" ELSE "f_list"
    OBVIOUS
  <2> HIDE DEF walk, seen, step, dir, offset
  <2>4. /\ w'.pc = step /\ w'.walk = walk /\ w'.dir = dir /\ w'.offset = offset
        /\ w'.seen = seen /\ w'.before = w.before
    BY <1>0, <2>1 DEF WorkerState
  <2>5. w'.before <= spent'.other /\ (Still' => Still)
    BY <1>0, <2>4 DEF RefreshInv, Walking, Still
  <2>6. CASE walk = {}
    <3>1. Still => seen = Rooted /\ Exists(seen, RootPath)
      <4>1. remote \subseteq Resource /\ Tree(remote)
        BY DEF Inv, TypeOK, RefreshInv
      <4>2. Still => /\ seen \in SUBSET Rooted /\ Exists(seen, RootPath)
                     /\ \A x \in seen : x.kind = "Dir" => Listing(remote, x.path) \subseteq seen
        BY <2>2, <2>6 DEF WalkedTo
      <4>3. QED
        BY <4>1, <4>2, WholeTree
    <3>2. Still' => Whole(w.seen)'
      BY <1>0, <2>4, <2>5, <3>1 DEF Whole, Rooted
    <3>3. QED
      BY <1>2, <2>3, <2>4, <2>5, <2>6, <3>2 DEF RefreshInv, Walking
  <2>7. CASE walk # {}
    <3>1. Still' => WalkedTo(w.seen, w.walk, w.dir, w.offset)'
      BY <1>0, <2>2, <2>4, <2>5 DEF WalkedTo, Rooted
    <3>2. QED
      BY <1>2, <2>3, <2>4, <2>5, <2>7, <3>1 DEF RefreshInv, Walking
  <2>8. QED
    BY <2>6, <2>7
<1>5. QED
  BY <1>3, <1>4

LEMMA SnapshotMirrors == ASSUME Inv, RefreshInv, RefreshSnapshot PROVE RefreshInv'
<1>1. /\ w.pc = "f_snap" /\ UNCHANGED <<remote, spent>>
      /\ w'.pc = "f_begin" /\ w'.before = w.before /\ w'.seen = w.seen
  BY WorkerTypes DEF Inv, RefreshSnapshot, At, WorkerState
<1>2. Tree(remote') /\ w'.before <= spent'.other /\ (Still' => Whole(w.seen)')
  BY <1>1 DEF RefreshInv, Walking, Still, Whole, Rooted
<1>3. QED
  BY <1>1, <1>2 DEF RefreshInv

(* The transaction begins with everything still to be merged or dropped.      *)
LEMMA BeginMirrors == ASSUME Inv, Safe, RefreshInv, RefreshBegin PROVE RefreshInv'
<1> DEFINE gone == {r \in w.snap : r.path # RootPath /\ \A x \in w.seen : x.path # r.path}
<1>1. /\ w.pc = "f_begin" /\ UNCHANGED <<remote, spent, db>>
      /\ w'.pc = "f_apply" /\ w'.before = w.before /\ w'.seen = w.seen /\ w'.snap = w.snap
      /\ w'.tx = db /\ w'.todo = w.seen /\ w'.gone = gone
  BY WorkerTypes DEF Inv, RefreshBegin, At, WorkerState
<1>2. Tree(remote') /\ w'.before <= spent'.other /\ (Still' => Still /\ Whole(w.seen)')
  BY <1>1 DEF RefreshInv, Walking, Still, Whole, Rooted
<1>3. ASSUME Undisturbed' PROVE Merged(w.snap, w.seen, w.tx, w.todo, w.gone)'
  <2>1. Still /\ w.snap = db.files
    BY <1>1, <1>2, <1>3 DEF Undisturbed, Still
  <2>2. \A r \in w.snap : r.sync \in Unsynced => Subtree(db, r.path) = {r}
    BY <1>1, <1>3 DEF Undisturbed
  <2>3. Exists(w.seen, RootPath)
    BY <1>1, <2>1 DEF RefreshInv, Whole
  <2>4. Tidy(db)
    BY DEF Safe, StoresOK, Stores
  <2>5. \A r \in db.files : \/ Exists(w.seen, r.path)
                            \/ \E l \in gone : l.id = r.id /\ l.path = r.path
    BY <2>1, <2>3 DEF Exists, Meta
  <2>6. \A l \in w.snap : l \in gone \/ Exists(w.seen, l.path) =>
           \A r \in db.files : r.id = l.id => r.path = l.path
    BY <2>1, <2>4 DEF Tidy, IdsOnce
  <2>7. \A l \in w.snap : l.sync \in Unsynced => \A r \in db.files : ~Below(l.path, r.path)
    <3>1. \A r \in db.files : r.path \in Path
      BY DEF Inv, TypeOK, Database, Row
    <3>2. \A r \in db.files : ~Below(r.path, r.path)
      BY <3>1 DEF Below, Path
    <3>3. \A l \in w.snap, r \in db.files : Below(l.path, r.path) => r \in Subtree(db, l.path)
      BY DEF Subtree
    <3>4. QED
      BY <2>1, <2>2, <3>2, <3>3
  <2> HIDE DEF gone
  <2>8. Merged(w.snap, w.seen, db, w.seen, gone)
    <3>1. gone \subseteq {l \in w.snap : l.path # RootPath /\ \A x \in w.seen : x.path # l.path}
      BY DEF gone
    <3>2. QED
      BY <2>5, <2>6, <2>7, <3>1 DEF Merged
  <2>9. QED
    BY <1>1, <2>8 DEF Merged
<1>4. QED
  BY <1>1, <1>2, <1>3 DEF RefreshInv
-----------------------------------------------------------------------------
(* The transaction: what it rests on, and a step of it.                       *)
LEMMA ApplyBasis ==
    ASSUME Inv, Safe, RefreshInv, w.pc = "f_apply", Undisturbed
    PROVE  /\ Basis(w.snap, w.seen) /\ Merged(w.snap, w.seen, w.tx, w.todo, w.gone)
           /\ Sound(w.tx) /\ Tidy(w.tx) /\ w.tx \in Database
           /\ FileId \ born # {} => \A l \in w.snap : l.id # FreshId
<1>1. Whole(w.seen) /\ w.snap = db.files /\ Tree(remote) /\ remote \subseteq Resource
  BY DEF RefreshInv, Undisturbed, Still, Inv, TypeOK
<1>2. w.seen \subseteq remote
  BY <1>1 DEF Whole, Rooted
<1>3. w.snap \subseteq Row /\ \A l \in w.snap : l.path \in Path
  BY <1>1 DEF Inv, TypeOK, Database, Row
<1>4. /\ Tidy(db) /\ Ids(db) \subseteq born
      /\ Tidy(w.tx)
  BY DEF Safe, StoresOK, Stores, Locked
<1>5. \A r, q \in w.snap : r.id = q.id => r = q
  BY <1>1, <1>4 DEF Tidy, IdsOnce
<1>6. \A l \in w.snap : l.sync \in Unsynced => \A x \in w.seen : ~Below(l.path, x.path)
  BY DEF Undisturbed
<1>7. Basis(w.snap, w.seen)
  BY <1>1, <1>2, <1>3, <1>5, <1>6 DEF Basis, Tree
<1>8. FileId \ born # {} => \A l \in w.snap : l.id # FreshId
  BY <1>1, <1>4 DEF Ids, FreshId
<1>9. QED
  BY <1>4, <1>7, <1>8 DEF RefreshInv, Inv, TxSound, Sound

LEMMA ApplyGoesOn ==
    ASSUME RefreshInv, w.pc = "f_apply", UNCHANGED <<db, remote, spent>>,
           w'.pc = "f_apply", w'.before = w.before, w'.seen = w.seen, w'.snap = w.snap,
           Undisturbed => Merged(w.snap, w.seen, w'.tx, w'.todo, w'.gone)
    PROVE  RefreshInv'
<1>1. Tree(remote') /\ w'.before <= spent'.other /\ (Still' => Whole(w.seen)')
  BY DEF RefreshInv, Walking, Still, Whole, Rooted
<1>2. Undisturbed' => Merged(w.snap, w.seen, w.tx, w.todo, w.gone)'
  BY DEF Undisturbed, Merged
<1>3. QED
  BY <1>1, <1>2 DEF RefreshInv

LEMMA MergeMirrors ==
    ASSUME Inv, Safe, RefreshInv, w.pc = "f_apply", FileId \ born # {}, NEW res \in w.todo,
           MergeConflict(res) \/ MergeOutdated(res) \/ MergePlain(res),
           UNCHANGED <<db, remote, spent>>
    PROVE  RefreshInv'
<1>1. res \in Resource /\ w.tx \in Database /\ w \in WorkerState
  BY RefreshTypes, WorkerTypes DEF Inv, TxSound, Sound
<1>2. ASSUME NEW tx, w' = [w EXCEPT !.tx = tx, !.todo = @ \ {res}],
             Undisturbed => Merged(w.snap, w.seen, tx, w.todo \ {res}, w.gone)
      PROVE  RefreshInv'
  <2>1. /\ w'.pc = "f_apply" /\ w'.before = w.before /\ w'.seen = w.seen /\ w'.snap = w.snap
        /\ w'.tx = tx /\ w'.todo = w.todo \ {res} /\ w'.gone = w.gone
    BY <1>1, <1>2 DEF WorkerState
  <2>2. QED
    BY <1>2, <2>1, ApplyGoesOn
<1>3. CASE MergeConflict(res)
  <2>0. PICK l \in Conflicting(res) : \E cp \in NextConflictPaths(w.tx, l.path) :
           IF ConflictFails(w.tx, l.id, l.path, cp)
           THEN Abandon /\ UNCHANGED born
           ELSE LET aside == ApplyConflict(w.tx, l.id, l.path, cp)
                IN  /\ w' = [w EXCEPT !.tx = EnsureRemoteRow(aside, res, "Synced", FreshId),
                                      !.todo = @ \ {res}]
                    /\ BornFor(aside, res)
    BY <1>3 DEF MergeConflict
  <2>1. PICK cp \in NextConflictPaths(w.tx, l.path) :
           IF ConflictFails(w.tx, l.id, l.path, cp)
           THEN Abandon /\ UNCHANGED born
           ELSE LET aside == ApplyConflict(w.tx, l.id, l.path, cp)
                IN  /\ w' = [w EXCEPT !.tx = EnsureRemoteRow(aside, res, "Synced", FreshId),
                                      !.todo = @ \ {res}]
                    /\ BornFor(aside, res)
    BY <2>0
  <2>2. l \in w.snap /\ l.path = res.path /\ l.path # RootPath /\ l.sync \in Unsynced
    BY DEF Conflicting, Local
  <2>3. CASE ConflictFails(w.tx, l.id, l.path, cp)
    BY <2>1, <2>3, WorkerAway DEF Abandon, RefreshInv
  <2>4. CASE ~ConflictFails(w.tx, l.id, l.path, cp)
    <3> DEFINE tx == EnsureRemoteRow(ApplyConflict(w.tx, l.id, l.path, cp), res, "Synced", FreshId)
    <3>1. w' = [w EXCEPT !.tx = tx, !.todo = @ \ {res}]
      BY <2>1, <2>4
    <3>2. Undisturbed => Merged(w.snap, w.seen, tx, w.todo \ {res}, w.gone)
      BY <2>2, <2>4, ApplyBasis, MergeDiverged
    <3> HIDE DEF tx
    <3>3. QED
      BY <1>2, <3>1, <3>2
  <2>5. QED
    BY <2>3, <2>4
<1>4. CASE MergeOutdated(res)
  <2> DEFINE merged == EnsureRemoteRow(w.tx, res, "Downloading", FreshId)
             f == The(RowAt(merged, res.path)).id
             tx == Upsert(merged, f, "Download", res.path, RootPath)
  <2>1. w' = [w EXCEPT !.tx = tx, !.todo = @ \ {res}]
    BY <1>4 DEF MergeOutdated
  <2>2. Undisturbed => Merged(w.snap, w.seen, merged, w.todo \ {res}, w.gone)
    BY ApplyBasis, MergeRow
  <2>3. merged \in Database
    BY <1>1, EnsureRemoteRowFollows, FreshIdType DEF Follows, Sound, SyncState, Inv, TxSound
  <2> HIDE DEF merged, f
  <2>4. tx.files = merged.files /\ tx.copies = merged.copies
    BY <2>3 DEF Upsert, Database
  <2>5. Undisturbed => Merged(w.snap, w.seen, tx, w.todo \ {res}, w.gone)
    BY <2>2, <2>4 DEF Merged, RowAt
  <2> HIDE DEF tx
  <2>6. QED
    BY <1>2, <2>1, <2>5
<1>5. CASE MergePlain(res)
  <2> DEFINE tx == EnsureRemoteRow(w.tx, res, "Synced", FreshId)
  <2>1. w' = [w EXCEPT !.tx = tx, !.todo = @ \ {res}]
    BY <1>5 DEF MergePlain
  <2>2. Undisturbed => Merged(w.snap, w.seen, tx, w.todo \ {res}, w.gone)
    BY ApplyBasis, MergeRow
  <2> HIDE DEF tx
  <2>3. QED
    BY <1>2, <2>1, <2>2
<1>6. QED
  BY <1>3, <1>4, <1>5

LEMMA DropMirrors ==
    ASSUME Inv, Safe, RefreshInv, w.pc = "f_apply", w.todo = {}, NEW l \in w.gone,
           DropRow(l) \/ KeepCopy(l) \/ DropConflict(l),
           UNCHANGED <<db, remote, spent>>
    PROVE  RefreshInv'
<1>1. w \in WorkerState
  BY WorkerTypes DEF Inv
<1>2. ASSUME NEW tx, w' = [w EXCEPT !.tx = tx, !.gone = @ \ {l}],
             Undisturbed => Merged(w.snap, w.seen, tx, {}, w.gone \ {l})
      PROVE  RefreshInv'
  <2>1. /\ w'.pc = "f_apply" /\ w'.before = w.before /\ w'.seen = w.seen /\ w'.snap = w.snap
        /\ w'.tx = tx /\ w'.todo = {} /\ w'.gone = w.gone \ {l}
    BY <1>1, <1>2 DEF WorkerState
  <2>2. QED
    BY <1>2, <2>1, ApplyGoesOn
<1>3. Undisturbed => /\ Basis(w.snap, w.seen) /\ Merged(w.snap, w.seen, w.tx, {}, w.gone)
                     /\ Sound(w.tx) /\ Tidy(w.tx) /\ w.tx \in Database
  BY ApplyBasis
<1>4. CASE DropRow(l)
  BY <1>2, <1>3, <1>4, DropDone DEF DropRow
<1>5. CASE KeepCopy(l)
  <2>1. w' = [w EXCEPT !.tx = w.tx, !.gone = @ \ {l}]
    BY <1>1, <1>5 DEF KeepCopy, WorkerState
  <2>2. QED
    BY <1>2, <1>3, <1>5, <2>1, DropDone DEF KeepCopy
<1>6. CASE DropConflict(l)
  <2>1. PICK cp \in NextConflictPaths(w.tx, l.path) :
           IF ConflictFails(w.tx, l.id, l.path, cp) THEN Abandon
           ELSE w' = [w EXCEPT !.tx = ApplyConflict(w.tx, l.id, l.path, cp),
                               !.gone = @ \ {l}]
    BY <1>6 DEF DropConflict
  <2>2. CASE ConflictFails(w.tx, l.id, l.path, cp)
    BY <2>1, <2>2, WorkerAway DEF Abandon, RefreshInv
  <2>3. CASE ~ConflictFails(w.tx, l.id, l.path, cp)
    BY <1>2, <1>3, <1>6, <2>1, <2>3, DropDiverged DEF DropConflict
  <2>4. QED
    BY <2>2, <2>3
<1>7. QED
  BY <1>4, <1>5, <1>6

LEMMA EndMirrors ==
    ASSUME Inv, RefreshInv, RefreshCommit \/ RefreshDone PROVE RefreshInv'
<1>1. Tree(remote')
  BY DEF RefreshInv, RefreshCommit, RefreshDone
<1>2. RefreshCommit => w'.pc = "f_done"
  BY WorkerTypes DEF Inv, RefreshCommit, WorkerState
<1>3. RefreshDone => Finish
  BY DEF RefreshDone
<1>4. QED
  BY <1>1, <1>2, <1>3, WorkerAway DEF Walking
-----------------------------------------------------------------------------
LEMMA InitMirrors == ASSUME Init PROVE RefreshInv
<1> DEFINE res(e) == [path |-> e.path, kind |-> e.kind, ver |-> 1,
                      data |-> IF e.kind = "File" THEN 1 ELSE NoData]
           T == {res(e) : e \in InitTree}
<1>1. \A e \in InitTree : res(e).path = e.path
  OBVIOUS
<1>2. remote = {RootResource} \cup T
  BY DEF Init
<1> HIDE DEF res
<1>3. IsFiniteSet(InitTree)
  BY StateAssumption
<1>4. IsFiniteSet(T)
  <2> DEFINE f == [e \in InitTree |-> res(e)]
  <2>1. f \in Surjection(InitTree, T)
    BY DEF Surjection
  <2> HIDE DEF f, T
  <2>2. QED
    BY <1>3, <2>1, FS_Surjection
<1>5. Tree(T)
  <2>1. \A e, g \in InitTree : e.path = g.path => e = g
    BY StateAssumption
  <2>2. \A x, y \in T : x.path = y.path => x = y
    BY <1>1, <2>1
  <2> HIDE DEF T
  <2>3. QED
    BY <1>4, <2>2 DEF Tree
<1>6. \A x \in T : x.path # RootResource.path
  <2>1. \A e \in InitTree : e.path # RootPath
    BY StateAssumption
  <2>2. QED
    BY <1>1, <2>1 DEF RootResource
<1> HIDE DEF T
<1>7. Tree(T \cup {RootResource})
  BY <1>5, <1>6, OneMoreInTree
<1>8. Tree(remote)
  <2>1. remote = T \cup {RootResource}
    BY <1>2
  <2>2. QED
    BY <1>7, <2>1
<1>9. w.pc = "idle" /\ w.seen = {} /\ w.offset = 0
  BY DEF Init, IdleWorker
<1>10. QED
  BY <1>8, <1>9 DEF RefreshInv, Walking

LEMMA MirrorsKept == ASSUME Inv, Safe, RefreshInv, [Next]_vars PROVE RefreshInv'
<1>1. CASE \E t \in Thread : Call(t) \/ CallStep(t)
  BY <1>1, CallMirrors
<1>2. UNCHANGED vars => RefreshInv'
  <2>1. ASSUME UNCHANGED vars PROVE RefreshInv'
    <3>1. Counted /\ UNCHANGED <<w, db, remote>>
      BY <2>1 DEF vars, Counted
    <3>2. Tree(remote')
      BY <3>1 DEF RefreshInv
    <3>3. QED
      BY <3>1, <3>2, WorkerStays
  <2>2. QED
    BY <2>1
<1>3. CASE WorkerStep
  <2>1. Poll => UNCHANGED vars
    BY DEF Poll
  <2>2. QED
    BY <1>2, <1>3, <2>1, LeaseMirrors, StartMirrors, UploadMirrors, MakeMirrors, RenameMirrors,
       DownloadMirrors DEF WorkerStep
<1>4. CASE RefreshStep
  <2>1. RefreshMerge => RefreshInv'
    BY MergeMirrors DEF RefreshMerge, At
  <2>2. RefreshDrop => RefreshInv'
    BY DropMirrors DEF RefreshDrop, At
  <2>3. QED
    BY <1>4, <2>1, <2>2, ListMirrors, SnapshotMirrors, BeginMirrors, EndMirrors DEF RefreshStep
<1>5. QED
  BY <1>1, <1>2, <1>3, <1>4, RequestMirrors, FaultMirrors, OtherMirrors, RestartMirrors DEF Next

THEOREM RefreshInvariance == Spec => [](Inv /\ Safe /\ RefreshInv)
<1>1. Init => Inv /\ Safe /\ RefreshInv
  BY InitInv, InitSafe, InitMirrors
<1>2. (Inv /\ Safe /\ RefreshInv) /\ [Next]_vars => (Inv /\ Safe /\ RefreshInv)'
  BY NextKeeps, SafeKept, MirrorsKept
<1>3. QED
  BY <1>1, <1>2, PTL DEF Spec

(* A refresh that nothing disturbed leaves the rows of the remote tree, with  *)
(* its versions, and beside them only conflict copies: every resource that    *)
(* hangs from the root is seen, over however many pages and directories, and  *)
(* merged, and every row that has none is dropped or a copy.                  *)
THEOREM RefreshesMirror == Spec => RefreshMirrors
<1>1. ASSUME Inv, Safe, RefreshInv, RefreshCommit, Undisturbed PROVE Mirrored(db')
  <2>1. w.pc = "f_apply" /\ w.todo = {} /\ w.gone = {} /\ db' = w.tx /\ remote' = remote
    BY <1>1 DEF RefreshCommit, At
  <2>2. Merged(w.snap, w.seen, w.tx, {}, {}) /\ w.seen = Rooted
    BY <1>1, <2>1 DEF RefreshInv, Undisturbed, Still, Whole
  <2>3. Mirrored(w.tx)
    BY <2>2 DEF Merged, Mirrored, IsConflictCopy
  <2>4. QED
    BY <2>1, <2>3
<1>2. Inv /\ Safe /\ RefreshInv =>
         [RefreshCommit /\ Undisturbed => Mirrored(db')]_vars
  BY <1>1
<1>3. QED
  BY <1>2, RefreshInvariance, PTL DEF RefreshMirrors
=============================================================================
