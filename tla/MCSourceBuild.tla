---------------------------- MODULE MCSourceBuild ----------------------------
(* Instances of SourceBuild for TLC. *)
EXTENDS SourceBuild, TLC

\* The webports processes are interchangeable, and so are the versions.
Symmetry == Permutations(Process) \cup Permutations(Version)
=============================================================================
