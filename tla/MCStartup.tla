----------------------------- MODULE MCStartup -----------------------------
(* Instances of Startup for TLC; no symmetry, as liveness is checked.      *)
EXTENDS Startup
=============================================================================
