--------------------------- MODULE MCMountManager ---------------------------
(***************************************************************************)
(* An instance of MountManager for TLC: two folders to choose from.        *)
(***************************************************************************)
EXTENDS MountManager, TLC

CONSTANTS home, disk

\* The folders differ in nothing but their name.
FolderSymmetry == Permutations(Folder)
=============================================================================
