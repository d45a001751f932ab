------------------------------ MODULE MCTokens ------------------------------
(* Instances of Tokens for TLC: a minute of two seconds, each of two steps,  *)
(* and the leeway a minute, as it is; settings from one whose exp wraps early *)
(* on to one that chrono panics on.                                          *)
EXTENDS Tokens, TLC

MCSettings == {-2, 0, 2, 3, Unset}

Symmetry == Permutations(Pairs)
=============================================================================
