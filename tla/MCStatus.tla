------------------------------ MODULE MCStatus ------------------------------
(****************************************************************************)
(* Constants for model-checking the status feed: those of the sync layer.    *)
(****************************************************************************)
EXTENDS MCSync, StatusFeed
=============================================================================
