--------------------------- MODULE MCWorkspaceTree ---------------------------
(* Small instances of WorkspaceTree for TLC. *)
EXTENDS WorkspaceTree, TLC

CONSTANTS w1, w2, f1, f2, d1, b1, b2, b3

\* One file in a directory, then one in the workspace itself.
TwoFiles == <<f1, f2>>
Places == (f1 :> d1) @@ (f2 :> Root)

\* Two writers that agree on the first file and differ in the second.
Blobs == (w1 :> ((f1 :> b1) @@ (f2 :> b2))) @@ (w2 :> ((f1 :> b1) @@ (f2 :> b3)))
=============================================================================
