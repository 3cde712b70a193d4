---------------------------- MODULE MCPipeServer ----------------------------
(***************************************************************************)
(* An instance of PipeServer for TLC, with its refinement: who owns which  *)
(* thread.                                                                 *)
(***************************************************************************)
EXTENDS PipeStream, TLC

CONSTANTS sh, a,           \* the processes
          sh1, sh2, a1     \* their threads

\* A shell with two threads and one child: one thread of the shell can close
\* or read while the other spawns.
TwoThreads == (sh1 :> sh) @@ (sh2 :> sh) @@ (a1 :> a)
=============================================================================
