----------------------- MODULE RepoBindingReconciler -----------------------
(***************************************************************************)
(* The RepoBinding controller: one reconcile loop over RepoBinding         *)
(* objects, read from an informer cache and written through the API        *)
(* server.  One action per API call: between two calls of one reconcile    *)
(* users, informers, other reconciles, the namespace controller, API       *)
(* failures and restarts take their steps.                                 *)
(***************************************************************************)
EXTENDS TenantObjects

CONSTANTS
    Bindings,                \* RepoBinding keys (namespace/name)
    PipelineName,            \* PipelineName[b]: spec.pipelineName, immutable
    ValidSpecs,              \* specs ValidateRepoBinding accepts
    MaxConcurrentReconciles, \* workers of the controller
    PatchRefreshes,          \* does a status patch decode the reply into the object?
    MaxLives,                \* bound: creations of one key
    MaxEdits,                \* bound: spec updates
    MaxFaults,               \* bound: failed API calls, expired contexts, restarts
    SwallowedReads           \* may one of the faults hit a read whose error is ignored?

ASSUME ReconcilerAssumption ==
    /\ PipelineName \in [Bindings -> Pipelines]
    /\ ValidSpecs \subseteq CatalogSpecs
    /\ MaxConcurrentReconciles \in Nat \ {0}
    /\ PatchRefreshes \in BOOLEAN
    /\ MaxLives \in Nat /\ MaxEdits \in Nat /\ MaxFaults \in Nat
    /\ SwallowedReads \in BOOLEAN

VARIABLES
    rb,     \* rb[b]: the RepoBinding the API server stores under key b
    cache,  \* cache[b]: the informer's copy
    local,  \* local[b]: the copy the reconcile of b works on
    behind, \* behind[b]: which of the two copies are older than rb[b]
    queue,  \* keys waiting in the work queue
    pc,     \* pc[b]: where the reconcile of b stands, "idle" when none runs
    at,     \* at[b]: position in the current list of objects
    lives, edits, faults \* the bounded counters

vars == <<objs, terminating, seen, routed,
          rb, cache, local, behind, queue, pc, at, lives, edits, faults>>

-----------------------------------------------------------------------------
(***************************************************************************)
(* RepoBinding objects.                                                    *)
(***************************************************************************)
\* Operators whose comment starts with "Mistake:" are variants of the next
\* definition that a plausible bug would produce.  No specification uses them:
\* they show that the properties tell the code from its mistakes.

\* Mistake: the Trigger goes live before the template it refers to.
TriggerBeforeTemplate == <<"namespace", "pipeline", "serviceAccount", "rbac",
                           "listener", "trigger", "triggerTemplate">>

\* The provisioning steps with a status field, in the order of the code, and
\* the finalization that follows them.
StepOrder == <<"namespace", "pipeline", "serviceAccount", "rbac",
               "listener", "triggerTemplate", "trigger">>

Steps == {"namespace", "pipeline", "serviceAccount", "rbac",
          "listener", "triggerTemplate", "trigger"}

Finalization == "webhookInfo"

StepKinds ==
    [namespace |-> NamespaceStep, pipeline |-> PipelineStep,
     serviceAccount |-> ServiceAccountStep, rbac |-> RBACStep,
     listener |-> ListenerStep, triggerTemplate |-> TriggerTemplateStep,
     trigger |-> TriggerStep, webhookInfo |-> WebhookInfoStep]

Phases == {"", "Pending", "Provisioning", "Ready", "Failed"}

\* present = FALSE: no object under this key.
RepoBinding ==
    [present: BOOLEAN, spec: Specs, finalizer: BOOLEAN, deleting: BOOLEAN,
     phase: Phases, flags: SUBSET Steps]

Created(s) ==
    [present |-> TRUE, spec |-> s, finalizer |-> FALSE, deleting |-> FALSE,
     phase |-> "", flags |-> {}]

Absent == [Created(AnySpec) EXCEPT !.present = FALSE]

\* The steps that come before s in the list executeProvisioningSteps walks.
Before(s) ==
    {StepOrder[i] : i \in {j \in 1..Len(StepOrder) :
        \A k \in 1..j : StepOrder[k] # s}}

\* Mistake: the shared EventListener is updated first, it needs no namespace.
NextStepListenerFirst(flags) ==
    IF flags = Steps THEN Finalization
    ELSE IF "listener" \notin flags THEN "listener"
    ELSE CHOOSE s \in Steps \ flags : Before(s) \subseteq flags

\* Mistake: the walk stops one step short.
NextStepOneShort(flags) ==
    IF Steps \ flags \subseteq {"trigger"} THEN Finalization
    ELSE CHOOSE s \in Steps \ flags : Before(s) \subseteq flags

\* The first step whose status field is unset; none: finalizeProvisioning.
NextStep(flags) ==
    IF flags = Steps THEN Finalization
    ELSE CHOOSE s \in Steps \ flags : Before(s) \subseteq flags

PassesValidation(s) == s \in ValidSpecs

-----------------------------------------------------------------------------
(***************************************************************************)
(* Reconcile: where a copy o of the object sends the reconcile.            *)
(***************************************************************************)
Stages == {"idle", "admit", "initialize", "validate", "provision",
           "record", "markFailed", "cleanup", "release"}

\* Mistake: a Failed binding is left alone, whatever it failed of.
AfterInitializeFailedIsFinal(o) ==
    CASE o.phase \in {"Ready", "Failed"} -> "idle"
      [] o.phase = "Pending" -> "validate"
      [] OTHER -> "provision"

\* isAlreadyReady and validateAndUpdatePhase look at the phase.
AfterInitialize(o) ==
    CASE o.phase = "Ready"   -> "idle"
      [] o.phase = "Pending" -> "validate"
      [] OTHER               -> "provision"

\* Mistake: isAlreadyReady is asked before IsBeingDeleted.
DispatchReadyFirst(o) ==
    CASE o.phase = "Ready" -> "idle"
      [] o.phase # "Ready" /\ o.deleting -> IF o.finalizer THEN "cleanup" ELSE "idle"
      [] o.phase # "Ready" /\ ~o.deleting /\ ~o.finalizer -> "admit"
      [] OTHER -> IF o.phase = "" THEN "initialize" ELSE AfterInitialize(o)

\* Mistake: only what became Ready is thought to need a cleanup.
DispatchCleansReadyOnly(o) ==
    CASE o.deleting /\ o.finalizer -> IF o.phase = "Ready" THEN "cleanup" ELSE "release"
      [] o.deleting /\ ~o.finalizer -> "idle"
      [] ~o.deleting /\ ~o.finalizer -> "admit"
      [] OTHER -> IF o.phase = "" THEN "initialize" ELSE AfterInitialize(o)

\* Mistake: a Failed binding is rolled back as if it were being deleted.
DispatchRollsBack(o) ==
    CASE o.finalizer /\ (o.deleting \/ o.phase = "Failed") -> "cleanup"
      [] o.deleting /\ ~o.finalizer -> "idle"
      [] ~o.deleting /\ ~o.finalizer -> "admit"
      [] OTHER -> IF o.phase = "" THEN "initialize" ELSE AfterInitialize(o)

Dispatch(o) ==
    CASE o.deleting /\ o.finalizer  -> "cleanup"
      [] o.deleting /\ ~o.finalizer -> "idle"
      [] ~o.deleting /\ ~o.finalizer -> "admit"
      [] ~o.deleting /\ o.finalizer /\ o.phase = "" -> "initialize"
      [] OTHER -> AfterInitialize(o)

TypeOK ==
    /\ TenantTypeOK
    /\ rb \in [Bindings -> RepoBinding]
    /\ cache \in [Bindings -> RepoBinding]
    /\ local \in [Bindings -> RepoBinding]
    /\ behind \in [Bindings -> SUBSET {"cache", "local"}]
    /\ queue \subseteq Bindings
    /\ pc \in [Bindings -> Stages]
    /\ at \in [Bindings -> 1..7]
    /\ lives \in [Bindings -> 0..MaxLives]
    /\ edits \in 0..MaxEdits
    /\ faults \in 0..MaxFaults

Init ==
    /\ TenantInit
    /\ rb = [b \in Bindings |-> Absent]
    /\ cache = [b \in Bindings |-> Absent]
    /\ local = [b \in Bindings |-> Absent]
    /\ behind = [b \in Bindings |-> {}]
    /\ queue = {}
    /\ pc = [b \in Bindings |-> "idle"]
    /\ at = [b \in Bindings |-> 1]
    /\ lives = [b \in Bindings |-> 0]
    /\ edits = 0
    /\ faults = 0

-----------------------------------------------------------------------------
(***************************************************************************)
(* How a reconcile writes its object, and how it ends.                     *)
(***************************************************************************)
\* Mistake: the finalizer is patched, without the resource version.
StaleUnnoticed(b) == b \notin Bindings

\* The copy b's reconcile works on is older than the stored object: the API
\* server refuses an Update made from it.
Stale(b) == "local" \in behind[b]

\* Mistake: the error is logged and swallowed, the key is not queued again.
ReturnForgets(b, again) ==
    /\ pc' = [pc EXCEPT ![b] = "idle"]
    /\ local' = [local EXCEPT ![b] = Absent]
    /\ at' = [at EXCEPT ![b] = 1]
    /\ queue' = queue

\* Reconcile returns; with an error or Requeue: true the key is queued again.
Return(b, again) ==
    /\ pc' = [pc EXCEPT ![b] = "idle"]
    /\ local' = [local EXCEPT ![b] = Absent]
    /\ at' = [at EXCEPT ![b] = 1]
    /\ queue' = IF again THEN queue \cup {b} ELSE queue

\* The API server stores o under key b and the reconcile of b ends.
WriteAndReturn(b, o, again) ==
    /\ rb' = [rb EXCEPT ![b] = o]
    /\ behind' = [behind EXCEPT ![b] = {"cache"}]
    /\ Return(b, again)
    /\ UNCHANGED <<tenantVars, cache, lives, edits, faults>>

\* The same for a status patch that repeats what is stored within the second
\* lastReconcileTime resolves: nothing changes and no watch event follows.
RepeatAndReturn(b, o, again) ==
    /\ o = rb[b]
    /\ behind' = [behind EXCEPT ![b] = @ \ {"local"}]
    /\ Return(b, again)
    /\ UNCHANGED <<tenantVars, rb, cache, lives, edits, faults>>

\* The API server stores o under key b and the reconcile continues at `stage`,
\* with o as its copy if the patch decodes the reply into it.
WriteAndContinue(b, o, stage) ==
    /\ rb' = [rb EXCEPT ![b] = o]
    /\ local' = IF PatchRefreshes THEN [local EXCEPT ![b] = o] ELSE local
    /\ behind' = [behind EXCEPT ![b] =
                    IF PatchRefreshes THEN {"cache"} ELSE {"cache", "local"}]
    /\ pc' = [pc EXCEPT ![b] = stage]
    /\ UNCHANGED <<tenantVars, cache, queue, at, lives, edits, faults>>

-----------------------------------------------------------------------------
(***************************************************************************)
(* Reconcile, up to provisioning.                                          *)
(***************************************************************************)
Busy == {b \in Bindings : pc[b] # "idle"}

\* A free worker takes b off the queue and reads it from the cache.  A key the
\* cache does not hold, a deleted object without the finalizer and a Ready one
\* are done at once.
Fetch(b) ==
    LET stage == IF cache[b].present THEN Dispatch(cache[b]) ELSE "idle" IN
    /\ b \in queue
    /\ pc[b] = "idle"
    /\ Cardinality(Busy) < MaxConcurrentReconciles
    /\ queue' = queue \ {b}
    /\ pc' = [pc EXCEPT ![b] = stage]
    /\ local' = IF stage = "idle" THEN local ELSE [local EXCEPT ![b] = cache[b]]
    /\ behind' = IF stage # "idle" /\ "cache" \in behind[b]
                   THEN [behind EXCEPT ![b] = {"cache", "local"}] ELSE behind
    /\ UNCHANGED <<tenantVars, rb, cache, at, lives, edits, faults>>

\* A status patch is a merge patch by name: it lands on whatever object has
\* the name now, and fails only if there is none.
AdmitRejected(b) ==
    LET failed == [rb[b] EXCEPT !.phase = "Failed"] IN
    /\ pc[b] = "admit"
    /\ ~PassesValidation(local[b].spec)
    /\ rb[b].present
    /\ \/ WriteAndReturn(b, failed, FALSE)
       \/ RepeatAndReturn(b, failed, FALSE)

\* The finalizer is written with an Update: only if the local copy is current.
EnsureFinalizer(b) ==
    /\ pc[b] = "admit"
    /\ PassesValidation(local[b].spec)
    /\ ~Stale(b)
    /\ WriteAndReturn(b, [rb[b] EXCEPT !.finalizer = TRUE], TRUE)

FinalizerConflict(b) ==
    /\ pc[b] = "admit"
    /\ PassesValidation(local[b].spec)
    /\ Stale(b)
    /\ behind' = [behind EXCEPT ![b] = @ \ {"local"}]
    /\ Return(b, TRUE)
    /\ UNCHANGED <<tenantVars, rb, cache, lives, edits, faults>>

InitializeStatus(b) ==
    LET pending == [rb[b] EXCEPT !.phase = "Pending"] IN
    /\ pc[b] = "initialize"
    /\ rb[b].present
    /\ WriteAndContinue(b, pending,
           AfterInitialize(IF PatchRefreshes THEN pending ELSE local[b]))

\* The status goes to Failed and the validation error is returned.
RejectPending(b) ==
    /\ pc[b] = "validate"
    /\ ~PassesValidation(local[b].spec)
    /\ rb[b].present
    /\ WriteAndReturn(b, [rb[b] EXCEPT !.phase = "Failed"], TRUE)

AcceptPending(b) ==
    /\ pc[b] = "validate"
    /\ PassesValidation(local[b].spec)
    /\ rb[b].present
    /\ WriteAndContinue(b, [rb[b] EXCEPT !.phase = "Provisioning"], "provision")

-----------------------------------------------------------------------------
(***************************************************************************)
(* Provisioning: one step per reconcile, its objects one by one.           *)
(***************************************************************************)
CurrentStep(b) == NextStep(local[b].flags)

CurrentKind(b) == StepKinds[CurrentStep(b)][at[b]]

\* Mistake: the step counts as done after its first object.
LastKindIsFirst(b) == at[b] = 1

LastKind(b) == at[b] = Len(StepKinds[CurrentStep(b)])

EnsureObject(b) ==
    LET p == PipelineName[b]
        k == CurrentKind(b)
    IN
    /\ pc[b] = "provision"
    /\ CanEnsure(p, k, local[b].spec)
    /\ Ensure(p, k, local[b].spec)
    /\ pc' = IF LastKind(b) THEN [pc EXCEPT ![b] = "record"] ELSE pc
    /\ at' = [at EXCEPT ![b] = IF LastKind(b) THEN 1 ELSE @ + 1]
    /\ UNCHANGED <<rb, cache, local, behind, queue, lives, edits, faults>>

\* The provisioning function returns an error: its input does not allow the
\* write, the API server refuses it, or cache and API server disagree.
ProvisionRefused(b) ==
    /\ pc[b] = "provision"
    /\ \/ ~CanEnsure(PipelineName[b], CurrentKind(b), local[b].spec)
       \/ MayCollide(PipelineName[b], CurrentKind(b))
    /\ pc' = [pc EXCEPT ![b] = "markFailed"]
    /\ at' = [at EXCEPT ![b] = 1]
    /\ UNCHANGED <<tenantVars, rb, cache, local, behind, queue, lives, edits, faults>>

\* It returns an error because an API call did.
ProvisionFaulted(b) ==
    /\ pc[b] = "provision"
    /\ faults < MaxFaults
    /\ faults' = faults + 1
    /\ pc' = [pc EXCEPT ![b] = "markFailed"]
    /\ at' = [at EXCEPT ![b] = 1]
    /\ UNCHANGED <<tenantVars, rb, cache, local, behind, queue, lives, edits>>

MarkFailed(b) ==
    /\ pc[b] = "markFailed"
    /\ rb[b].present
    /\ WriteAndReturn(b, [rb[b] EXCEPT !.phase = "Failed"], TRUE)

RecordStep(b) ==
    /\ pc[b] = "record"
    /\ CurrentStep(b) # Finalization
    /\ rb[b].present
    /\ WriteAndReturn(b, [rb[b] EXCEPT !.flags = @ \cup {CurrentStep(b)}], TRUE)

\* All steps are recorded and the webhook secret is copied.
RecordReady(b) ==
    /\ pc[b] = "record"
    /\ CurrentStep(b) = Finalization
    /\ rb[b].present
    /\ WriteAndReturn(b, [rb[b] EXCEPT !.phase = "Ready"], FALSE)

-----------------------------------------------------------------------------
(***************************************************************************)
(* Deletion: the cleanup steps in order, then the finalizer.               *)
(***************************************************************************)
\* Mistake: the position is not reset after the last step.
CleanupNeverRewinds(b) ==
    /\ pc' = IF at[b] = Len(CleanupOrder) THEN [pc EXCEPT ![b] = "release"] ELSE pc
    /\ at' = [at EXCEPT ![b] = @ + 1]
    /\ UNCHANGED <<rb, cache, local, behind, queue, lives, edits>>

CleanupAdvances(b) ==
    /\ pc' = IF at[b] = Len(CleanupOrder) THEN [pc EXCEPT ![b] = "release"] ELSE pc
    /\ at' = [at EXCEPT ![b] = IF at[b] = Len(CleanupOrder) THEN 1 ELSE @ + 1]
    /\ UNCHANGED <<rb, cache, local, behind, queue, lives, edits>>

CleanupObject(b) ==
    /\ pc[b] = "cleanup"
    /\ Remove(PipelineName[b], CleanupOrder[at[b]])
    /\ CleanupAdvances(b)
    /\ UNCHANGED faults

\* cleanupClusterScopedRBAC deletes only when its Get returns no error, and
\* takes every error for "not found".
CleanupSwallowed(b) ==
    /\ pc[b] = "cleanup"
    /\ SwallowedReads
    /\ CleanupOrder[at[b]] \in {"ClusterRoleBinding", "ClusterRole"}
    /\ faults < MaxFaults
    /\ faults' = faults + 1
    /\ CleanupAdvances(b)
    /\ UNCHANGED tenantVars

\* The Update that removes the last finalizer removes the object.
RemoveFinalizer(b) ==
    /\ pc[b] = "release"
    /\ ~Stale(b)
    /\ WriteAndReturn(b, Absent, FALSE)

ReleaseConflict(b) ==
    /\ pc[b] = "release"
    /\ Stale(b)
    /\ behind' = [behind EXCEPT ![b] = @ \ {"local"}]
    /\ Return(b, TRUE)
    /\ UNCHANGED <<tenantVars, rb, cache, lives, edits, faults>>

-----------------------------------------------------------------------------
(***************************************************************************)
(* Failures.                                                               *)
(***************************************************************************)
Patching(b) ==
    \/ pc[b] \in {"initialize", "validate", "record", "markFailed"}
    \/ pc[b] = "admit" /\ ~PassesValidation(local[b].spec)

\* The object is gone when its status is patched.
PatchNotFound(b) ==
    /\ Patching(b)
    /\ ~rb[b].present
    /\ behind' = [behind EXCEPT ![b] = @ \ {"local"}]
    /\ Return(b, TRUE)
    /\ UNCHANGED <<tenantVars, rb, cache, lives, edits, faults>>

\* An API call fails or the provisioning timeout expires, and the error is
\* returned with nothing written.
Abort(b) ==
    /\ pc[b] # "idle"
    /\ faults < MaxFaults
    /\ faults' = faults + 1
    /\ behind' = [behind EXCEPT ![b] = @ \ {"local"}]
    /\ Return(b, TRUE)
    /\ UNCHANGED <<tenantVars, rb, cache, lives, edits>>

\* The process stops anywhere and starts again: nothing but what the API
\* server stores survives, and every binding listed at the start is queued.
Restart ==
    /\ faults < MaxFaults
    /\ faults' = faults + 1
    /\ cache' = rb
    /\ local' = [b \in Bindings |-> Absent]
    /\ behind' = [b \in Bindings |-> {}]
    /\ queue' = {b \in Bindings : rb[b].present}
    /\ pc' = [b \in Bindings |-> "idle"]
    /\ at' = [b \in Bindings |-> 1]
    /\ seen' = [p \in Pipelines |-> objs[p] \cap Lagging]
    /\ UNCHANGED <<objs, terminating, routed, rb, lives, edits>>

-----------------------------------------------------------------------------
(***************************************************************************)
(* Users, informers and the namespace controller.                          *)
(***************************************************************************)
\* Someone other than b's reconcile stores o under key b.
StoredBy(b, o) ==
    /\ rb' = [rb EXCEPT ![b] = o]
    /\ behind' = [behind EXCEPT ![b] =
                    IF pc[b] = "idle" THEN {"cache"} ELSE {"cache", "local"}]
    /\ UNCHANGED <<tenantVars, cache, local, queue, pc, at, faults>>

UserCreate(b, s) ==
    /\ ~rb[b].present
    /\ lives[b] < MaxLives
    /\ lives' = [lives EXCEPT ![b] = @ + 1]
    /\ StoredBy(b, Created(s))
    /\ UNCHANGED edits

\* The pipeline's name cannot change: validateImmutableFields.
UserUpdate(b, s) ==
    /\ rb[b].present
    /\ s # rb[b].spec
    /\ edits < MaxEdits
    /\ edits' = edits + 1
    /\ StoredBy(b, [rb[b] EXCEPT !.spec = s])
    /\ UNCHANGED lives

UserDelete(b) ==
    /\ rb[b].present
    /\ ~rb[b].deleting
    /\ StoredBy(b, IF rb[b].finalizer THEN [rb[b] EXCEPT !.deleting = TRUE] ELSE Absent)
    /\ UNCHANGED <<lives, edits>>

\* The informer delivers the newest state of b and its handler queues the key:
\* no predicate filters the events.
SyncBinding(b) ==
    /\ "cache" \in behind[b]
    /\ cache' = [cache EXCEPT ![b] = rb[b]]
    /\ behind' = [behind EXCEPT ![b] = @ \ {"cache"}]
    /\ queue' = queue \cup {b}
    /\ UNCHANGED <<tenantVars, rb, local, pc, at, lives, edits, faults>>

ClusterStep ==
    /\ \E p \in Pipelines : Drain(p) \/ \E k \in Lagging : SyncView(p, k)
    /\ UNCHANGED <<rb, cache, local, behind, queue, pc, at, lives, edits, faults>>

-----------------------------------------------------------------------------
\* The steps of b's reconcile that need no failure.
Work(b) ==
    \/ AdmitRejected(b) \/ EnsureFinalizer(b) \/ FinalizerConflict(b)
    \/ InitializeStatus(b) \/ RejectPending(b) \/ AcceptPending(b)
    \/ EnsureObject(b) \/ ProvisionRefused(b) \/ MarkFailed(b)
    \/ RecordStep(b) \/ RecordReady(b)
    \/ CleanupObject(b) \/ RemoveFinalizer(b) \/ ReleaseConflict(b)
    \/ PatchNotFound(b)

Failure(b) == ProvisionFaulted(b) \/ CleanupSwallowed(b) \/ Abort(b)

User(b) ==
    \/ \E s \in Specs : UserCreate(b, s) \/ UserUpdate(b, s)
    \/ UserDelete(b)

Next ==
    \/ \E b \in Bindings : Fetch(b) \/ Work(b) \/ Failure(b) \/ User(b) \/ SyncBinding(b)
    \/ Restart
    \/ ClusterStep

Spec == Init /\ [][Next]_vars

(***************************************************************************)
(* Workers do not stop in the middle of a reconcile, informers deliver,    *)
(* the namespace controller drains; the work queue is first in, first out, *)
(* so a key that is queued again and again gets a worker.  Nobody owes the *)
(* system a user request or a failure.                                     *)
(***************************************************************************)
OtherVars == <<rb, cache, local, behind, queue, pc, at, lives, edits, faults>>

Fairness ==
    /\ \A b \in Bindings :
          WF_vars(Work(b)) /\ SF_vars(Fetch(b)) /\ WF_vars(SyncBinding(b))
    /\ \A p \in Pipelines :
          /\ WF_vars(Drain(p) /\ UNCHANGED OtherVars)
          /\ \A k \in Lagging : WF_vars(SyncView(p, k) /\ UNCHANGED OtherVars)

FairSpec == Spec /\ Fairness

-----------------------------------------------------------------------------
(***************************************************************************)
(* Safety.                                                                 *)
(***************************************************************************)
Managed(b) == rb[b].present /\ rb[b].finalizer

\* An object its user wants, and one on its way out.
Kept(o) == o.present /\ o.finalizer /\ ~o.deleting

Doomed(o) == o.present /\ o.finalizer /\ o.deleting

\* The flags of the seven status fields are always a prefix of the code's list
\* of steps, whatever stale copies, lost patches and restarts do: no patch of
\* one reconcile overtakes the step another one still has to do.
StepsRecordedInOrder ==
    \A b \in Bindings : \A s \in rb[b].flags : Before(s) \subseteq rb[b].flags

\* No binding is Ready before all seven steps are recorded, although the phase
\* and the flags are written by different reconciles from different copies.
ReadyMeansAllSteps ==
    \A b \in Bindings : rb[b].phase = "Ready" => rb[b].flags = Steps

Promised(b) ==
    UNION {{StepKinds[s][i] : i \in 1..Len(StepKinds[s])} :
              s \in rb[b].flags \cup IF rb[b].phase = "Ready" THEN {Finalization} ELSE {}}

\* What the status of a binding that is not being deleted says is provisioned
\* exists, in a namespace that is not going away.
RecordedStepsAreReal ==
    \A b \in Bindings : Kept(rb[b]) =>
        /\ Promised(b) \subseteq objs[PipelineName[b]]
        /\ Promised(b) # {} => PipelineName[b] \notin terminating

\* What the run's template names (namespace, Pipeline, service account), what gives
\* the service account its permissions, and what selects and makes the run.
RunNeeds ==
    {"Namespace", "ConfigMap", "Pipeline", "ServiceAccount", "Role", "RoleBinding",
     "ClusterRole", "ClusterRoleBinding", "ArgoRoleBinding", "AppProject",
     "ListenerEntry", "TriggerTemplate"}

\* A Trigger starts a run for every push: as long as it exists, everything such
\* a run uses exists too, while provisioning builds it up and while cleanup
\* takes it down.
TriggerRoutesToProvisioned ==
    \A p \in Pipelines : "Trigger" \in objs[p] =>
        RunNeeds \subseteq objs[p] /\ p \notin terminating

Released(p) == \A b \in Bindings : PipelineName[b] = p => ~Managed(b)

\* Once no binding holds the finalizer for a pipeline, nothing routes events to
\* it, ArgoCD has no project for it and its namespace is gone or going.
NoTenantOrphans ==
    \A p \in Pipelines : Released(p) =>
        /\ objs[p] \cap {"Trigger", "TriggerTemplate", "AppProject"} = {}
        /\ "Namespace" \in objs[p] => p \in terminating

\* Nor do the cluster-wide permissions of its runs outlive it: the cleanup
\* "removes ClusterRoles and ClusterRoleBindings labeled with this pipeline".
NoClusterRBACOrphans ==
    \A p \in Pipelines : Released(p) =>
        objs[p] \cap {"ClusterRole", "ClusterRoleBinding"} = {}

\* While a reconcile cleans up, the stored object is doomed or gone: no binding
\* a user wants to keep loses its objects to a reconcile of an old copy.
CleanupOnlyDoomed ==
    \A b \in Bindings : pc[b] \in {"cleanup", "release"} =>
        ~Kept(rb[b])

Settled(b) == b \notin queue /\ pc[b] = "idle" /\ behind[b] = {}

\* No work is lost: when nothing is queued, running or on its way for a
\* binding, it is Ready, or it was refused before anything was provisioned, or
\* it is gone.  A retry the code forgot would park it somewhere else.
NoLostWork ==
    \A b \in Bindings : Settled(b) /\ rb[b].present =>
        /\ ~rb[b].deleting
        /\ rb[b].finalizer => rb[b].phase = "Ready"
        /\ ~rb[b].finalizer => rb[b].phase = "Failed" /\ rb[b].spec \notin ValidSpecs

\* The finalizer, and with it everything that follows, is only ever given to an
\* object whose stored spec passes the validation, although it is the copy's
\* spec that was validated and a user may have written in between.
FinalizerOnlyOnValid ==
    [][\A b \in Bindings :
          ~rb[b].finalizer /\ rb'[b].finalizer => rb'[b].spec \in ValidSpecs]_vars

\* How the copies relate to the stored object.  A copy no write has overtaken
\* equals it; a copy of an object with the finalizer, not being deleted, is of
\* the object's present life and knows no step the object does not; a copy of
\* an object being deleted is of a life that is over or ending.  This is what
\* makes working from stale copies safe.
Provisioning == {"initialize", "validate", "provision", "record", "markFailed"}

CopiesTrail ==
    \A b \in Bindings :
        /\ "cache" \notin behind[b] => cache[b] = rb[b]
        /\ pc[b] \in {"admit", "cleanup", "release"} /\ ~Stale(b)
              => local[b] = rb[b] /\ "cache" \notin behind[b]
        /\ pc[b] \in {"cleanup", "release"} => Doomed(local[b])
        /\ Doomed(cache[b]) => ~Kept(rb[b])
        /\ Kept(cache[b]) => Managed(b) /\ cache[b].flags \subseteq rb[b].flags
        /\ pc[b] \in Provisioning
              => Managed(b) /\ local[b].flags \subseteq rb[b].flags

\* The position is in the list it points into, and 1 between lists.
PositionOK ==
    \A b \in Bindings :
        /\ pc[b] = "provision" => at[b] <= Len(StepKinds[CurrentStep(b)])
        /\ pc[b] \notin {"provision", "cleanup"} => at[b] = 1

\* A spec the controller has rejected, in phase Failed, is left alone: "Don't
\* requeue failed resources".
RejectedIsNotProvisioned ==
    [][\A b \in Bindings :
          pc[b] = "idle" /\ pc'[b] = "provision"
             => ~(local'[b].phase = "Failed" /\ local'[b].spec \notin ValidSpecs)]_vars

\* Every create and every update is handled: when the controller has settled
\* on a Ready binding, the Trigger was made from the spec the user wrote last.
ReadyServesCurrentSpec ==
    \A b \in Bindings : Settled(b) /\ Managed(b) /\ rb[b].phase = "Ready"
        => routed[PipelineName[b]] = rb[b].spec

\* A Ready binding stands for what its message says, "Tenant resources
\* provisioned successfully": they exist and their namespace stays.
ReadyIsReal ==
    \A b \in Bindings : Kept(rb[b]) /\ rb[b].phase = "Ready" =>
        /\ Promised(b) \subseteq objs[PipelineName[b]]
        /\ PipelineName[b] \notin terminating

(***************************************************************************)
(* The promise.                                                            *)
(***************************************************************************)
Life(o) ==
    CASE ~o.present -> "gone"
      [] o.present /\ ~o.finalizer -> "asked"
      [] Doomed(o) -> "leaving"
      [] Kept(o) /\ o.phase = "Ready" -> "ready"
      [] OTHER -> "kept"

Promise == INSTANCE BindingPromise WITH
    life <- [b \in Bindings |-> Life(rb[b])],
    routed <- {b \in Bindings : "Trigger" \in objs[PipelineName[b]]}

\* Behind its copies, retries and restarts the controller does what a user may
\* rely on: pushes start runs only for bindings it has taken on, Ready means
\* they do, and no binding goes before they have stopped.
KeepsBindingPromise == Promise!Spec

(***************************************************************************)
(* Liveness.                                                               *)
(***************************************************************************)
\* A binding whose spec is valid and decodes becomes Ready and stays it, unless
\* its user deletes it or spoils its spec: failed steps, conflicts, restarts,
\* lagging caches and reconciles of old copies only delay it.
EventuallyReady ==
    \A b \in Bindings :
        <>[](\/ rb[b].phase = "Ready"
             \/ rb[b].deleting \/ ~rb[b].present
             \/ rb[b].spec \notin ValidSpecs \cap DecodableSpecs)

\* A deleted binding is let go in the end, whatever state it was deleted in, if
\* the wait for its Applications comes to an end and the webhook lets the update
\* of the finalizer pass: no step here is kept from happening by either.
\* CleanupCompletes in ArgoCDCleanup and SettledUnlessHeld in BindingValidation
\* are about the two.
DeletionCompletes ==
    \A b \in Bindings : rb[b].deleting ~> ~rb[b].present
=============================================================================
