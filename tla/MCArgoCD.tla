------------------------------ MODULE MCArgoCD ------------------------------
(***************************************************************************)
(* ArgoCDCleanup for TLC: two tenants, one with a labelled and a foreign   *)
(* Application, one with a labelled Application.                           *)
(***************************************************************************)
EXTENDS ArgoCDCleanup

CONSTANTS
    t1, t2,   \* tenants
    a1, a2,   \* a labelled Application of each tenant
    f         \* a foreign Application in the namespace of t1

TwoHomes == [a \in Apps |-> IF a = a2 THEN t2 ELSE t1]
=============================================================================
