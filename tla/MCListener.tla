------------------------------ MODULE MCListener ------------------------------
(***************************************************************************)
(* EventListenerSelector for TLC: b1 and b2 are bindings of one pipeline.  *)
(***************************************************************************)
EXTENDS EventListenerSelector, TLC

CONSTANTS b1, b2, b3, shared, own, stranger

SharedName == [b \in Bindings |-> IF b = b3 THEN own ELSE shared]
=============================================================================
