-------------------------- MODULE MCThreadPoolProofs --------------------------
(* The inductive invariants of the pool's proofs for TLC, on a small pool.        *)
EXTENDS ThreadPoolProofs, TLC

Symmetry == Permutations(Threads)

==============================================================================
