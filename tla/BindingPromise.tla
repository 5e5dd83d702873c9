--------------------------- MODULE BindingPromise ---------------------------
(***************************************************************************)
(* What the controller promises about a binding, told without copies,      *)
(* status fields, work queue and retries: the life of the binding, and     *)
(* whether pushes to its repository start runs.                            *)
(*                                                                         *)
(*    gone -> asked -> kept <-> ready -> leaving -> gone                   *)
(***************************************************************************)
CONSTANT Bindings

VARIABLES
    life,   \* life[b]: see above
    routed  \* the bindings whose pushes start runs

vars == <<life, routed>>

Init ==
    /\ life = [b \in Bindings |-> "gone"]
    /\ routed = {}

Becomes(b, stage) == life' = [life EXCEPT ![b] = stage]

-----------------------------------------------------------------------------
\* A user asks for the binding; a rejected one stays asked for.
Ask(b) ==
    /\ life[b] = "gone"
    /\ Becomes(b, "asked")
    /\ UNCHANGED routed

\* The user takes the request back before the controller has taken it on.
Withdraw(b) ==
    /\ life[b] = "asked"
    /\ Becomes(b, "gone")
    /\ UNCHANGED routed

\* The controller takes it on: from here on nothing is dropped without cleanup.
Admit(b) ==
    /\ life[b] = "asked"
    /\ Becomes(b, "kept")
    /\ UNCHANGED routed

\* Routing may still begin after the user has asked for the deletion: a
\* reconcile under way does not look again.
Route(b) ==
    /\ life[b] \in {"kept", "ready", "leaving"}
    /\ routed' = routed \cup {b}
    /\ UNCHANGED life

\* Never reported ready without a route.
Finish(b) ==
    /\ life[b] = "kept"
    /\ b \in routed
    /\ Becomes(b, "ready")
    /\ UNCHANGED routed

\* A late reconcile may report a failure of a binding that is ready.
Relapse(b) ==
    /\ life[b] = "ready"
    /\ Becomes(b, "kept")
    /\ UNCHANGED routed

Leave(b) ==
    /\ life[b] \in {"kept", "ready"}
    /\ Becomes(b, "leaving")
    /\ UNCHANGED routed

\* The route of a binding its user wants is never taken away.
Unroute(b) ==
    /\ life[b] = "leaving"
    /\ routed' = routed \ {b}
    /\ UNCHANGED life

\* No binding goes with its route left behind.
Release(b) ==
    /\ life[b] = "leaving"
    /\ b \notin routed
    /\ Becomes(b, "gone")
    /\ UNCHANGED routed

Next ==
    \E b \in Bindings :
        \/ Ask(b) \/ Withdraw(b) \/ Admit(b) \/ Route(b) \/ Finish(b)
        \/ Relapse(b) \/ Leave(b) \/ Unroute(b) \/ Release(b)

Spec == Init /\ [][Next]_vars
=============================================================================
