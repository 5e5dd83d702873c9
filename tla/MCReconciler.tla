---------------------------- MODULE MCReconciler ----------------------------
(***************************************************************************)
(* RepoBindingReconciler for TLC.  Bindings, pipelines and specs are model *)
(* values; every binding is for the pipeline of its own name.              *)
(***************************************************************************)
EXTENDS RepoBindingReconciler, TLC

CONSTANTS
    b1,                \* a RepoBinding key and its pipeline
    good, other,       \* specs both validators accept
    bad,               \* a spec only the webhook accepts
    broken             \* accepted by both, but its pipelineSpec does not decode

OwnPipeline == [b \in Bindings |-> b]
=============================================================================
