------------------------------ MODULE RemoteDisk -----------------------------
(****************************************************************************)
(* The cloud disk behind the trait RemoteSyncClient, an external service:   *)
(* what its calls do to the tree of resources, as the program relies on it  *)
(* (src/src/yadisk.rs) and as the fake client of its tests implements it.   *)
(* A tree is a set of resources with distinct paths.  Every change gives    *)
(* the resources it touches a version that was not used before.             *)
(****************************************************************************)
EXTENDS SyncStore

CONSTANTS PageSize,  \* how many entries a listing has at most ("limit")
          Rank       \* the order of names in listings, by their stems

ASSUME DiskAssumption == PageSize \in Nat \ {0} /\ Rank \in [Stem -> Nat]

Resource == [path : Path, kind : Kind, ver : Nat, data : Nat]

Meta(tree, p) == {x \in tree : x.path = p}
Exists(tree, p) == Meta(tree, p) # {}

RemoteVersion(found) == IF found = {} THEN NoVersion ELSE The(found).ver

Listing(tree, p) == {x \in tree : x.path # RootPath /\ Front(x.path) = p}

(* A page of a listing: what follows the first k entries as they are now.    *)
Precedes(m, n) == \/ Rank[m.stem] < Rank[n.stem]
                  \/ m.stem = n.stem /\ m.n < n.n

Position(tree, x) ==
    Cardinality({y \in Listing(tree, Front(x.path)) : Precedes(Last(y.path), Last(x.path))})

\* Faulty: offsets are taken to begin with 1.
PageFromOne(tree, p, k) ==
    {x \in Listing(tree, p) : k < Position(tree, x) /\ Position(tree, x) <= k + PageSize}

Page(tree, p, k) ==
    {x \in Listing(tree, p) : k <= Position(tree, x) /\ Position(tree, x) < k + PageSize}

(* list_directory stops when the page is empty or ends at the total.         *)
LastPage(tree, p, k) == \A x \in Listing(tree, p) : Position(tree, x) < k + PageSize

PutFile(tree, p, data, v) ==
    (tree \ Meta(tree, p)) \cup {[path |-> p, kind |-> "File", ver |-> v, data |-> data]}

(* 409 when the path exists, which process_mkdir takes for success.          *)
CreateDir(tree, p, v) ==
    IF Exists(tree, p) THEN tree
    ELSE tree \cup {[path |-> p, kind |-> "Dir", ver |-> v, data |-> NoData]}

(* 404 when there is nothing, which every caller takes for success.          *)
DeleteTree(tree, p) == {x \in tree : ~IsPrefix(p, x.path)}

MoveTree(tree, from, to, v) ==
    LET moved == {x \in tree : IsPrefix(from, x.path)}
        put   == {[x EXCEPT !.path = Moved(x.path, from, to), !.ver = v] : x \in moved}
    IN  {x \in tree \ moved : \A y \in put : y.path # x.path} \cup put
=============================================================================
