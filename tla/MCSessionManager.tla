-------------------------- MODULE MCSessionManager --------------------------
(***************************************************************************)
(* SessionManager with a few calls on two sessions.  Every call is made at *)
(* most once, which bounds the versions; MaxCrashes bounds the restarts.   *)
(***************************************************************************)
EXTENDS SessionManager, TLC

\* Calls are interchangeable, and so are ids, where no liveness is checked.
CallSymmetry == Permutations(Calls) \cup Permutations(Ids)
=============================================================================
