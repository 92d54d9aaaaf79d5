------------------------------ MODULE MCServer ------------------------------
(* Model-checking instance of Server: one invoice.                         *)
EXTENDS Server

MCId == {[major |-> 0, minor |-> 1, creation |-> 2]}
=============================================================================
