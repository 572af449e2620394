----------------------------- MODULE MCTasking -----------------------------
(* Model-checking instance of Tasking. *)
EXTENDS Tasking
=============================================================================
