-------------------------- MODULE MCSessionHandle --------------------------
(***************************************************************************)
(* SessionHandle with a handful of requests.  A turn number never exceeds  *)
(* the number of requests, so the model is finite without a bound.         *)
(***************************************************************************)
EXTENDS SessionHandle, TLC

\* Requests are interchangeable: usable where no liveness is checked.
RequestSymmetry == Permutations(Requests)
=============================================================================
