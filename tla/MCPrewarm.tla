----------------------------- MODULE MCPrewarm -----------------------------
(***************************************************************************)
(* Prewarm with a few retries; each comes once, which bounds the model.    *)
(***************************************************************************)
EXTENDS Prewarm
=============================================================================
