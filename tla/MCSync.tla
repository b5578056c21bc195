-------------------------------- MODULE MCSync -------------------------------
(****************************************************************************)
(* Constants for model-checking the sync layer.                              *)
(****************************************************************************)
EXTENDS SyncProperties

N(s) == [stem |-> s, n |-> 1]
A  == <<N("a")>>
B  == <<N("b")>>
C  == <<N("c")>>
D  == <<N("d")>>
DA == <<N("d"), N("a")>>

Alphabetical == [a |-> 1, b |-> 2, c |-> 3, d |-> 4]

OneFile    == {A}
OnlyB      == {B}
TwoFiles   == {A, B}
WithCopy   == {A, B, <<[stem |-> "b", n |-> 2]>>}
ThreeNames == {A, B, C}
OneDir     == {D}
MixedPaths == {A, D, DA}

(* What the disk holds at the start.                                         *)
File(p, state) == {[path |-> p, kind |-> "File", local |-> state, id |-> 1]}
NoTree  == {}
CachedA == File(A, "cached")
CachedB == File(B, "cached")
KnownA  == File(A, "known")
DirTree == {[path |-> D, kind |-> "Dir", local |-> "known", id |-> 2],
            [path |-> DA, kind |-> "File", local |-> "cached", id |-> 1]}

(* How many calls, changes by other clients, network faults, refreshes after *)
(* the first, kills and kills inside a critical section there may be.        *)
Upto(u, o, f, r, c, h) ==
    [user |-> u, other |-> o, fault |-> f, refresh |-> r, crash |-> c, half |-> h]
CallLimits    == {Upto(2, 1, 1, 0, 0, 0), Upto(2, 0, 0, 0, 1, 0), Upto(2, 0, 0, 0, 0, 1)}
EditLimits    == {Upto(3, 0, 1, 0, 1, 0), Upto(0, 3, 1, 1, 0, 0), Upto(0, 2, 1, 1, 1, 0)}
SyncLimits    == {Upto(2, 1, 0, 1, 0, 0), Upto(2, 0, 1, 0, 0, 0), Upto(1, 1, 1, 0, 0, 0), Upto(2, 0, 0, 0, 1, 0)}
OneCall       == {Upto(1, 0, 0, 0, 0, 0)}
OneCallOther  == {Upto(1, 1, 0, 0, 0, 0)}
TwoCalls      == {Upto(2, 0, 0, 0, 0, 0)}
=============================================================================
