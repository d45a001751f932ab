--------------------------- MODULE MCVectorStore ---------------------------
(* Instances of VectorStore for TLC.                                       *)
EXTENDS VectorStoreInv, TLC

\* Tasks of one kind, and Arcs, are interchangeable.  Not used with liveness.
Symmetry == Permutations(Loaders) \cup Permutations(Readers)
              \cup Permutations(Arcs) \cup Permutations(Versions)
              \cup Permutations(Names)
=============================================================================
