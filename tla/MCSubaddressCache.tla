-------------------------- MODULE MCSubaddressCache --------------------------
(* Model-checking instance of SubaddressCache.  The callers are alike.     *)
EXTENDS SubaddressCache, TLC

CallerSymmetry == Permutations(Caller)
=============================================================================
