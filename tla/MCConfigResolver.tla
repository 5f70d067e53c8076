-------------------------- MODULE MCConfigResolver --------------------------
(* Instantiates ConfigResolver for TLC: constants come from the .cfg files. *)
EXTENDS ConfigResolver, TLC

\* Symmetry of the interchangeable threads and Resolver instances.
Symmetry == Permutations(Threads) \cup Permutations(Resolvers)
=============================================================================
