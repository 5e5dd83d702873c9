---------------------------- MODULE ListenerPromise ----------------------------
(***************************************************************************)
(* What the EventListener step promises the bindings of one organization:  *)
(* names are only ever added to the selector, and a binding is told that   *)
(* the step has succeeded only when its pipeline is among them.            *)
(***************************************************************************)
CONSTANTS Bindings, Names, NameOf

VARIABLES
    listed, \* the names the EventListener selects
    told    \* the bindings whose step has last succeeded

Init == listed \in SUBSET Names /\ told = {}

\* A name is added, by a binding for its pipeline or by someone else.
List(n) == listed' = listed \cup {n} /\ UNCHANGED told

Tell(b) ==
    /\ NameOf[b] \in listed'
    /\ listed' \in {listed, listed \cup {NameOf[b]}}
    /\ told' = told \cup {b}

\* The step is run again: its success was not recorded.
Forget(S) == told' = told \ S /\ UNCHANGED listed

Next ==
    \/ \E n \in Names : List(n)
    \/ \E b \in Bindings : Tell(b)
    \/ \E S \in SUBSET Bindings : Forget(S)

Spec == Init /\ [][Next]_<<listed, told>>
=============================================================================
