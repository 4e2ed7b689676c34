--------------------------- MODULE MCSessionFiles ---------------------------
(***************************************************************************)
(* SessionFiles with two turns.  The first one's answer holds a line       *)
(* separator that splitlines() takes for the end of a line, and a tool     *)
(* call of the second is refused by json.dumps.  Each turn, PATCH and      *)
(* resume comes once, which bounds the model.                              *)
(***************************************************************************)
EXTENDS SessionFiles

TornAnswer == {<<1, "answer">>}
UnwritableCall == {<<2, "call">>}
=============================================================================
