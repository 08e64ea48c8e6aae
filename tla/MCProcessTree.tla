--------------------------- MODULE MCProcessTree ---------------------------
(* A shell and a few task ids, fewer map entries than ids.                  *)
EXTENDS ProcessTree, TLC

MCSymmetry == Permutations(Pids \ {Shell})
=============================================================================
