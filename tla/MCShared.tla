------------------------------ MODULE MCShared ------------------------------
(***************************************************************************)
(* RepoBindingReconciler for TLC with two bindings whose specs name the    *)
(* same pipeline: neither validator compares a binding with the others.    *)
(***************************************************************************)
EXTENDS RepoBindingReconciler, TLC

CONSTANTS
    b1, b2, \* two RepoBinding keys; b1 is also the pipeline both name
    good    \* a spec both validators accept

SharedPipeline == [b \in Bindings |-> b1]
=============================================================================
