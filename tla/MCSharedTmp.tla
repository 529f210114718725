---------------------------- MODULE MCSharedTmp ----------------------------
(* Small instances of SharedTmp for TLC: the model values of the cfgs.       *)
EXTENDS SharedTmp, TLC

CONSTANTS p1, p2

\* The processes run the same program.
Symmetry == Permutations(Procs)
=============================================================================
