---------------------------- MODULE MCDreadThread ----------------------------
(***************************************************************************)
(* Instances of DreadThread for TLC.                                       *)
(***************************************************************************)
EXTENDS DreadThread, TLC

CONSTANTS m, a, b, l, e

OneLock == e :> l
AllFree == l :> 1

\* Only b fits into a stack that another thread leaves.
OneSmaller == (m :> 2) @@ (a :> 2) @@ (b :> 1)

=============================================================================
