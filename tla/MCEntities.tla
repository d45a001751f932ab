----------------------------- MODULE MCEntities -----------------------------
(* Instances of Entities for TLC: the default entity, another, and the other *)
(* with a space before its id.                                               *)
EXTENDS Entities, TLC

MCIds == {"rs", "sc", " sc"}
MCQueries == {"sc", NoId}
MCBodies == {" sc", NoId}
MCTrim == [id \in MCIds |-> IF id = " sc" THEN "sc" ELSE id]

Symmetry == Permutations(Loads) \cup Permutations(Dirs)
=============================================================================
