------------------------------- MODULE MCAuth -------------------------------
(* An instance of Auth for TLC: one address in two spellings.  The row of    *)
(* the upper-case one can only be imported, as rows with bcrypt hashes are.  *)
(* Rows that no normalised address finds, as one with a space around it, are *)
(* left to the theorems.                                                     *)
EXTENDS Auth, TLC

MCEmails == {"ana", "Ana"}
MCLower == [e \in MCEmails |-> "ana"]

Symmetry == Permutations(Clients) \cup Permutations(Passwords)
=============================================================================
