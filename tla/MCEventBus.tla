----------------------------- MODULE MCEventBus -----------------------------
(***************************************************************************)
(* EventBus with a few sessions, queues that overflow after a couple of    *)
(* events, and MaxEvents events.                                           *)
(***************************************************************************)
EXTENDS EventBus
=============================================================================
