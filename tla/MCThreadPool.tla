----------------------------- MODULE MCThreadPool -----------------------------
(* ThreadPool for TLC.  Worker ids are model values that the specification     *)
(* only compares, so they may be permuted where no liveness is checked.        *)
EXTENDS ThreadPool, TLC

Symmetry == Permutations(Threads)

==============================================================================
