----------------------- MODULE MCWorkspaceCapabilities -----------------------
(* Small instances of WorkspaceCapabilities for TLC. *)
EXTENDS WorkspaceCapabilities
=============================================================================
