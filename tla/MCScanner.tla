------------------------------ MODULE MCScanner ------------------------------
(* Model-checking instances of Scanner: a payment to a subaddress.         *)
EXTENDS Scanner, TLC

CONSTANTS t1, s1, k1

MCSubOf == [tx \in Tx |-> s1]
MCAmountOf == [tx \in Tx |-> 1]
MCKeyOf == [tx \in Tx |-> k1]

(* Bound: a call fails, or the gateway stops or crashes, once in a run.    *)
OneDisturbance == faults + restarts <= 1

(* Bound: no invoice is made when the chain has its full length; nobody    *)
(* could pay it any more.                                                  *)
CanBePaid == \A id \in drawn : id.creation < MaxLen
=============================================================================
