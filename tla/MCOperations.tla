---------------------------- MODULE MCOperations ----------------------------
(* Charges, refunds and reconciliation on a small instance.                  *)
EXTENDS Reconciliation

\* Requests are alike, and so are the keys of refunds.
Alike == Permutations(Caller) \cup Permutations(Refunder) \cup Permutations(RefundKey)
=============================================================================
