----------------------------- MODULE MCScoring -----------------------------
(* Instances of Scoring for TLC: vectors of length 5, whose cosines are      *)
(* 25ths, one of them opposite to a query, one of a length that is no whole  *)
(* number, a zero vector and one of another width, as a file of an earlier   *)
(* embedding model holds.  Rounding takes one distance below 0, one above 2  *)
(* and makes a tie of two others.                                            *)
EXTENDS Scoring

MCVectors == {<<5, 0>>, <<3, 4>>, <<3, -4>>, <<-5, 0>>, <<1, 1>>, <<0, 0>>, <<5>>}
MCQueries == {<<5, 0>>, <<4, 3>>}
MCRounding ==
  [q \in MCQueries |-> [v \in MCVectors |->
     CASE q = <<5, 0>> /\ v = <<5, 0>> -> -1
       [] q = <<5, 0>> /\ v = <<-5, 0>> -> 1
       [] q = <<4, 3>> /\ v = <<3, 4>> -> -1
       [] OTHER -> 0]]
=============================================================================
