----------------------------- MODULE MCInstallDb -----------------------------
(***************************************************************************)
(* Instances of InstallDb for TLC: a library, an application that depends  *)
(* on it, and a package that has a file in common with each of them.       *)
(***************************************************************************)
EXTENDS InstallDb, TLC

CONSTANTS lib, app, rival, f1, f2, w1, w2

Payload == (lib :> {f1}) @@ (app :> {f2}) @@ (rival :> {f1, f2})
Needs   == (lib :> {}) @@ (app :> {lib}) @@ (rival :> {})

\* The webports processes differ in nothing but their name.
ProcessSymmetry == Permutations(Process)
=============================================================================
