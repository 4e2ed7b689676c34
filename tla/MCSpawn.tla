------------------------------ MODULE MCSpawn ------------------------------
(***************************************************************************)
(* Spawn with a few calls and one resume; each is made once, which bounds  *)
(* the sessions.                                                           *)
(***************************************************************************)
EXTENDS Spawn
=============================================================================
