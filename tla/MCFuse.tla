-------------------------------- MODULE MCFuse -------------------------------
(****************************************************************************)
(* Constants for model-checking the FUSE handles.                            *)
(****************************************************************************)
EXTENDS FuseHandles

Letters == {"a", "b", "d", "x"}

A  == <<"a">>
B  == <<"b">>
AX == <<"a", "x">>
BX == <<"b", "x">>
DA == <<"d", "/", "a">>
D  == <<"d">>

File(p) == [path |-> p, kind |-> "File"]
Dir(p)  == [path |-> p, kind |-> "Dir"]

\* b and d are one letter in two cases.
CaseOfD == {<<"b", "d">>, <<"d", "b">>}

FewNames    == {A, B, D}
FileInDir   == {Dir(D), File(DA)}
CommonStart == {A, AX, B, BX}
ThreeFiles  == {File(A), File(AX), File(BX)}

AllOps     == {"lookup", "readdir", "create", "mkdir", "unlink", "rmdir", "rename"}
OnlyRename == {"rename"}

(* How many lookups, opens, changes of names, writes, flushes and faults a   *)
(* behaviour may have.                                                        *)
Events(l, o, n, w, f, x) ==
    [look |-> l, open |-> o, name |-> n, write |-> w, flush |-> f, fault |-> x]
HandleLimits == {Events(1, 1, 1, 1, 0, 0), Events(0, 1, 1, 2, 1, 0), Events(0, 2, 0, 2, 1, 1),
                 Events(1, 0, 2, 0, 0, 1)}
SaveLimits   == {Events(0, 1, 1, 1, 0, 0)}
=============================================================================
