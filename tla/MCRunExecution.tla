--------------------------- MODULE MCRunExecution ---------------------------
(* Model-checking instance of RunExecution. *)
EXTENDS RunExecution
=============================================================================
