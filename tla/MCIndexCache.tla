------------------------------ MODULE MCIndexCache ------------------------------
EXTENDS IndexCache, TLC

CONSTANTS p, q, b1, b2, stdlib, dep, dev

Julia(minor, patch) == [minor |-> minor, patch |-> patch]
MCInstalls == { Julia(11, 2), Julia(12, 0) }
MCPatches == { Julia(11, 2), Julia(11, 5) }
MCFirstInstall == Julia(11, 2)
MCSymmetry == Permutations({p, q}) \cup Permutations({b1, b2})

(* The symmetry of processes and builds by hand: p starts first, of build b1. *)
MCFirstStart == starts' = 1 => env'[q] = NoEnv /\ (env'[p] # NoEnv => env'[p].build = b1)
=============================================================================
