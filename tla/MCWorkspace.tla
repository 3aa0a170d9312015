---------------------------- MODULE MCWorkspace ----------------------------
(* Instances of Workspace for TLC.                                            *)
EXTENDS Workspace, TLC

\* Tasks and files are interchangeable, and so are the contents but the empty one.
WorkspaceSymmetry ==
    Permutations(Tasks) \cup Permutations(Files) \cup Permutations(Contents \ {Empty})
=============================================================================
