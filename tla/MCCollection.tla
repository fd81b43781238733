---------------------------- MODULE MCCollection ----------------------------
(* Collection on small instances; the constants are model values of the cfg. *)
EXTENDS Collection, TLC

\* Workers are interchangeable: Spec and its safety properties never tell one
\* from another.  Not used with liveness.
WorkerSymmetry == Permutations(Worker)
=============================================================================
