------------------------------ MODULE MCBlocks ------------------------------
(* An instance of Blocks for TLC: one kind for each way of embedding       *)
(* (pareceres are treated as faqs are).                                    *)
EXTENDS Blocks

MCKinds == {"services", "faqs", "notas"}
=============================================================================
