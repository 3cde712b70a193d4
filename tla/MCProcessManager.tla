-------------------------- MODULE MCProcessManager --------------------------
(***************************************************************************)
(* Instances of ProcessManager for TLC: the threads of an image.           *)
(***************************************************************************)
EXTENDS ProcessManager, TLC

CONSTANTS t1, t2

\* The threads of one image differ in nothing but their name.
ThreadSymmetry == Permutations(Thread)
=============================================================================
