------------------------------ MODULE MCStorage ------------------------------
(* Model-checking instances of Storage.                                    *)
EXTENDS Storage
=============================================================================
