----------------------------- MODULE MCRequests -----------------------------
(* Instances of Requests for TLC; no symmetry, as liveness is checked.     *)
EXTENDS Requests

MCKinds == {"services", "faqs"}
=============================================================================
