------------------------------- MODULE MCDaemon ------------------------------
(****************************************************************************)
(* Constants for model-checking the daemon's lifecycle.                      *)
(****************************************************************************)
EXTENDS DaemonLifecycle

(* How many logins, token refreshes and troubles (failures, kills, signals,  *)
(* unmounts by others) a behaviour may have.                                   *)
Events(l, r, t) == [login |-> l, refresh |-> r, trouble |-> t]
DaemonLimits == {Events(1, 1, 3), Events(1, 2, 2), Events(2, 1, 0)}
TwoLogins    == {Events(2, 0, 0)}
=============================================================================
