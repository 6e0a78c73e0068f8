----------------------------- MODULE MCJobQueue -----------------------------
(***************************************************************************)
(* Small instances of JobQueue.  Job ids and threads are interchangeable.  *)
(***************************************************************************)
EXTENDS JobQueue, TLC

Symmetry == Permutations(Jobs) \cup Permutations(Threads)
=============================================================================
