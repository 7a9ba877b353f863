----------------------------- MODULE MCProdCons -----------------------------
(***************************************************************************)
(* Instances of ProdCons for TLC: two or three threads of each kind, a     *)
(* ring the file goes round at least twice, and every interleaving.        *)
(***************************************************************************)
EXTENDS ProdCons, TLC

\* Threads of a kind run the same code.
Symmetry == Permutations(Producers) \cup Permutations(Consumers)
=============================================================================
