---------------------------- MODULE ArgoCDCleanup ----------------------------
(***************************************************************************)
(* The cleanup of a deleted RepoBinding from its ArgoCD step on: list the  *)
(* labelled Applications of the tenant's namespace, delete them, wait      *)
(* until no Application is left there, then remove the AppProject and the  *)
(* rest.  Any error starts the whole cleanup over.  Meanwhile runs that    *)
(* were started before the Trigger went create Applications, users create  *)
(* and remove their own, ArgoCD finishes deletions in its own time, and    *)
(* the tenants being deleted share the workers of the controller.          *)
(***************************************************************************)
EXTENDS Naturals, FiniteSets

CONSTANTS
    Tenants,                 \* the deleted bindings, by pipelineName
    Apps,                    \* Applications
    Home,                    \* Home[a]: the tenant in whose namespace a lives
    Labelled,                \* the Applications that carry the pipeline's label
    Timeout,                 \* ticks of the ticker before the wait times out
    MaxConcurrentReconciles, \* workers of the controller
    MaxCreations,            \* bound: Applications created during the cleanups
    MaxFaults                \* bound: failed API calls, expired contexts, restarts

ASSUME CleanupAssumption ==
    /\ Home \in [Apps -> Tenants]
    /\ Labelled \subseteq Apps
    /\ Timeout \in Nat \ {0}
    /\ MaxConcurrentReconciles \in Nat \ {0}
    /\ MaxCreations \in Nat /\ MaxFaults \in Nat

VARIABLES
    installed, \* does the API server know the Application kind?
    apps,      \* apps[a]: "none", "live", or "deleting" while ArgoCD cascades
    project,   \* the tenants whose AppProject exists
    pc,        \* pc[t]: where the cleanup of t stands
    todo,      \* todo[t]: Applications listed and not deleted yet
    clock,     \* clock[t]: ticks since the wait began, up to Timeout
    tick,      \* the tenants whose ticker channel holds a tick
    creations, faults, \* the bounded counters
    late       \* history, for properties only: the Applications created since
               \* the last list of their namespace that came back empty

vars == <<installed, apps, project, pc, todo, clock, tick, creations, faults, late>>

cluster == <<installed, project, creations, faults>>

-----------------------------------------------------------------------------
Stages == {"queued", "list", "delete", "wait", "relist", "project", "finish", "done"}

Here(t) == {a \in Apps : Home[a] = t}

Existing == {a \in Apps : apps[a] # "none"}

TypeOK ==
    /\ installed \in BOOLEAN
    /\ apps \in [Apps -> {"none", "live", "deleting"}]
    /\ project \subseteq Tenants
    /\ pc \in [Tenants -> Stages]
    /\ todo \in [Tenants -> SUBSET Apps]
    /\ clock \in [Tenants -> 0..Timeout]
    /\ tick \subseteq Tenants
    /\ creations \in 0..MaxCreations
    /\ faults \in 0..MaxFaults
    /\ late \subseteq Apps

\* The bindings have just been deleted.
Init ==
    /\ installed \in BOOLEAN
    /\ apps \in [Apps -> {"none", "live"}]
    /\ ~installed => Existing = {}
    /\ project = Tenants
    /\ pc = [t \in Tenants |-> "queued"]
    /\ todo = [t \in Tenants |-> {}]
    /\ clock = [t \in Tenants |-> 0]
    /\ tick = {}
    /\ creations = 0
    /\ faults = 0
    /\ late = {}

-----------------------------------------------------------------------------
(***************************************************************************)
(* Operators whose comment starts with "Mistake:" are variants of the next *)
(* definition that a plausible bug would produce; no specification uses    *)
(* them.                                                                   *)
(***************************************************************************)
Busy == {t \in Tenants : pc[t] \notin {"queued", "done"}}

Goto(t, stage) == pc' = [pc EXCEPT ![t] = stage]

\* The wait's timer and ticker exist only while it lasts.
StopTimers(t) ==
    /\ clock' = [clock EXCEPT ![t] = 0]
    /\ tick' = tick \ {t}

\* Mistake: the steps done before the error are not repeated.
RetryResumes(t) ==
    /\ Goto(t, IF pc[t] \in {"wait", "relist"} THEN "wait" ELSE "queued")
    /\ todo' = [todo EXCEPT ![t] = {}]
    /\ StopTimers(t)

\* The error is returned and the key queued again.
Retry(t) ==
    /\ Goto(t, "queued")
    /\ todo' = [todo EXCEPT ![t] = {}]
    /\ StopTimers(t)

\* A free worker takes the binding.  The cleanup of Trigger and
\* TriggerTemplate, which comes first, touches nothing modelled here.
Start(t) ==
    /\ pc[t] = "queued"
    /\ Cardinality(Busy) < MaxConcurrentReconciles
    /\ Goto(t, "list")
    /\ UNCHANGED <<cluster, apps, todo, clock, tick, late>>

\* A NotFound for the kind itself: nothing to wait for.
ListLabelled(t) ==
    /\ pc[t] = "list"
    /\ Goto(t, IF installed THEN "delete" ELSE "project")
    /\ todo' = [todo EXCEPT ![t] = Existing \cap Here(t) \cap Labelled]
    /\ UNCHANGED <<cluster, apps, clock, tick, late>>

\* Whether a kind the API server does not know is reported as NotFound is up to
\* the client library: any other error is returned.
KindUnknown(t) ==
    /\ pc[t] = "list"
    /\ ~installed
    /\ Retry(t)
    /\ UNCHANGED <<cluster, apps, late>>

\* An Application with ArgoCD's finalizer stays until its resources are gone,
\* one without it goes at once.
Deleted(a) ==
    IF apps[a] = "live"
      THEN \E s \in {"deleting", "none"} : apps' = [apps EXCEPT ![a] = s]
      ELSE UNCHANGED apps

DeleteNext(t) ==
    /\ pc[t] = "delete"
    /\ \E a \in todo[t] :
          /\ Deleted(a)
          /\ todo' = [todo EXCEPT ![t] = @ \ {a}]
    /\ UNCHANGED <<cluster, pc, clock, tick, late>>

BeginWait(t) ==
    /\ pc[t] = "delete"
    /\ todo[t] = {}
    /\ Goto(t, "wait")
    /\ UNCHANGED <<cluster, apps, todo, clock, tick, late>>

-----------------------------------------------------------------------------
(***************************************************************************)
(* waitForApplicationDeletion.                                             *)
(***************************************************************************)
\* One period of the ticker passes.  Its channel holds one tick: a tick that
\* nobody took is not followed by another.
Pass(t) ==
    /\ pc[t] \in {"wait", "relist"}
    /\ clock' = [clock EXCEPT ![t] = IF @ < Timeout THEN @ + 1 ELSE @]
    /\ tick' = tick \cup {t}
    /\ UNCHANGED <<cluster, apps, pc, todo, late>>

\* Mistake: the timer is made inside the loop, each round starts a new one.
TakeTickRestartsTimer(t) ==
    /\ pc[t] = "wait"
    /\ t \in tick
    /\ Goto(t, "relist")
    /\ StopTimers(t)
    /\ UNCHANGED <<cluster, apps, todo, late>>

\* select takes either of two channels that are ready.
TakeTick(t) ==
    /\ pc[t] = "wait"
    /\ t \in tick
    /\ Goto(t, "relist")
    /\ tick' = tick \ {t}
    /\ UNCHANGED <<cluster, apps, todo, clock, late>>

TimeOut(t) ==
    /\ pc[t] = "wait"
    /\ clock[t] = Timeout
    /\ Retry(t)
    /\ UNCHANGED <<cluster, apps, late>>

\* Mistake: the wait lists what the deletion listed.
AwaitedLabelled(t) == Existing \cap Here(t) \cap Labelled

\* The wait lists the namespace without the label.
Awaited(t) == Existing \cap Here(t)

NoneLeft(t) ==
    /\ pc[t] = "relist"
    /\ Awaited(t) = {}
    /\ Goto(t, "project")
    /\ StopTimers(t)
    /\ late' = late \ Here(t)
    /\ UNCHANGED <<cluster, apps, todo>>

SomeLeft(t) ==
    /\ pc[t] = "relist"
    /\ Awaited(t) # {}
    /\ Goto(t, "wait")
    /\ UNCHANGED <<cluster, apps, todo, clock, tick, late>>

RemoveProject(t) ==
    /\ pc[t] = "project"
    /\ Goto(t, "finish")
    /\ project' = project \ {t}
    /\ UNCHANGED <<installed, apps, todo, clock, tick, creations, faults, late>>

\* Cluster-scoped RBAC, namespace and finalizer.
Finish(t) ==
    /\ pc[t] = "finish"
    /\ Goto(t, "done")
    /\ UNCHANGED <<cluster, apps, todo, clock, tick, late>>

\* A call fails, the context ends (also in select), or the process restarts.
Abort(t) ==
    /\ t \in Busy
    /\ faults < MaxFaults
    /\ faults' = faults + 1
    /\ Retry(t)
    /\ UNCHANGED <<installed, project, apps, creations, late>>

-----------------------------------------------------------------------------
(***************************************************************************)
(* The cluster around the controller.                                      *)
(***************************************************************************)
\* A run or a user creates an Application: the namespace admits it until it is
\* deleted itself, the last thing the cleanup does.
Create(a) ==
    /\ installed
    /\ pc[Home[a]] # "done"
    /\ apps[a] = "none"
    /\ creations < MaxCreations
    /\ creations' = creations + 1
    /\ apps' = [apps EXCEPT ![a] = "live"]
    /\ late' = late \cup {a}
    /\ UNCHANGED <<installed, project, pc, todo, clock, tick, faults>>

UserDeletes(a) ==
    /\ apps[a] = "live"
    /\ Deleted(a)
    /\ UNCHANGED <<cluster, pc, todo, clock, tick, late>>

\* ArgoCD has removed the Application's resources and takes its finalizer off.
Cascade(a) ==
    /\ apps[a] = "deleting"
    /\ apps' = [apps EXCEPT ![a] = "none"]
    /\ UNCHANGED <<cluster, pc, todo, clock, tick, late>>

Work(t) ==
    \/ ListLabelled(t) \/ KindUnknown(t) \/ DeleteNext(t) \/ BeginWait(t)
    \/ NoneLeft(t) \/ SomeLeft(t) \/ RemoveProject(t) \/ Finish(t)

Next ==
    \/ \E t \in Tenants : \/ Start(t) \/ Work(t) \/ Abort(t)
                          \/ Pass(t) \/ TakeTick(t) \/ TimeOut(t)
    \/ \E a \in Apps : Create(a) \/ UserDeletes(a) \/ Cascade(a)

Spec == Init /\ [][Next]_vars

(***************************************************************************)
(* Workers go on, time passes, ArgoCD finishes deletions, the work queue   *)
(* is first in, first out; select picks among ready channels at random, so *)
(* neither the tick nor the timer is passed over for ever.  Users owe      *)
(* nothing: an Application without the label may stay.                     *)
(***************************************************************************)
Fairness ==
    /\ \A t \in Tenants :
          /\ WF_vars(Work(t)) /\ WF_vars(Pass(t))
          /\ SF_vars(Start(t)) /\ SF_vars(TakeTick(t)) /\ SF_vars(TimeOut(t))
    /\ \A a \in Apps : WF_vars(Cascade(a))

FairSpec == Spec /\ Fairness

-----------------------------------------------------------------------------
(***************************************************************************)
(* Properties.                                                             *)
(***************************************************************************)
\* cleanupArgoCDApplications "waits for cascade deletion to complete": an
\* Application whose AppProject is gone was created after the cleanup had seen
\* the namespace empty; one that was there before, with the label or without,
\* keeps its project until its deletion is complete, across timeouts, errors
\* and retries of the cleanup.
ProjectOutlivesApplications ==
    \A a \in Existing : Home[a] \notin project => a \in late

\* A wait holds a worker for as long as it lasts.  Whoever is queued gets one in
\* the end, even if another deletion waits for an Application nobody removes:
\* every wait ends.
WorkersComeFree ==
    \A t \in Tenants : pc[t] = "queued" ~> pc[t] # "queued"

\* With ArgoCD installed a deletion completes once the namespace has no
\* Application left that the controller does not delete, whatever was created
\* behind its back: a retry deletes what the list before it missed.
CleanupCompletes ==
    \A t \in Tenants :
        installed /\ <>[](Existing \cap Here(t) \subseteq Labelled)
            => <>(pc[t] = "done")
=============================================================================
