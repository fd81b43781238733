------------------------------ MODULE MCDunning ------------------------------
(* Dunning on a small instance; the constants are model values of the cfg.   *)
EXTENDS Dunning, TLC
=============================================================================
