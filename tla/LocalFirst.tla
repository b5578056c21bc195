------------------------------ MODULE LocalFirst -----------------------------
(****************************************************************************)
(* What a local-first sync layer promises to the programs that write files, *)
(* whatever its rows, operations and conflicts look like: the bytes of an   *)
(* edit stay as they were written until the server has been given them, and *)
(* only then does the file count as clean.                                   *)
(****************************************************************************)
EXTENDS Naturals

CONSTANTS File, Content

VARIABLES bytes,   \* the content a program finds in each file
          owed,    \* the files with an edit the server has not been given
          inHand,  \* the files a program is writing or removing
          clean,   \* the files that count as synchronized
          server   \* the contents that the server has

vars == <<bytes, owed, inHand, clean, server>>

Init ==
    /\ bytes \in [File -> Content]
    /\ owed = {}
    /\ inHand = {}
    /\ clean \subseteq File
    /\ server \subseteq Content

Changed(f) == /\ bytes'[f] \in Content
              /\ bytes' = [bytes EXCEPT ![f] = bytes'[f]]

(* A program takes a file in hand to write or remove it.                     *)
Take(f) ==
    /\ inHand' = inHand \cup {f}
    /\ UNCHANGED <<bytes, owed, clean, server>>

(* It replaces the bytes, and then commits the edit.                         *)
Stage(f) ==
    /\ f \in inHand /\ Changed(f)
    /\ inHand' \in {inHand, inHand \ {f}}
    /\ UNCHANGED <<owed, clean, server>>

Commit(f) ==
    /\ owed' = owed \cup {f}
    /\ clean' = clean \ {f}
    /\ UNCHANGED <<bytes, inHand, server>>

Remove(f) ==
    /\ f \in inHand /\ Changed(f)
    /\ inHand' \in {inHand, inHand \ {f}}
    /\ owed' = owed \ {f}
    /\ clean' = clean \ {f}
    /\ UNCHANGED server

(* A file that owes the server nothing is downloaded, or dropped.            *)
Load(f) ==
    /\ f \notin owed /\ Changed(f)
    /\ UNCHANGED <<owed, inHand, clean, server>>

(* The server is given the bytes as they are.                                *)
Give(f) ==
    /\ f \in owed
    /\ owed' = owed \ {f}
    /\ server' \subseteq server \cup {bytes[f]} /\ bytes[f] \in server'
    /\ UNCHANGED <<bytes, inHand, clean>>

(* The layer, or a restart, finds what is clean: nothing that owes an edit.  *)
Review ==
    /\ clean' \subseteq File /\ \A f \in clean' \ clean : f \notin owed
    /\ inHand' \subseteq inHand
    /\ UNCHANGED <<bytes, owed, server>>

(* The tree on the server changes for other reasons.                         *)
Elsewhere ==
    /\ server' \subseteq Content
    /\ UNCHANGED <<bytes, owed, inHand, clean>>

Next ==
    \/ \E f \in File : Take(f) \/ Stage(f) \/ Commit(f) \/ Remove(f) \/ Load(f) \/ Give(f)
    \/ Review \/ Elsewhere

Spec == Init /\ [][Next]_vars

(* An edit that is owed is given to the server in the end, or removed.       *)
Delivery == \A f \in File : f \in owed ~> f \notin owed
=============================================================================
