------------------------------ MODULE MCPubSub ------------------------------
(* Model-checking instance of PubSub.                                      *)
EXTENDS PubSub
=============================================================================
