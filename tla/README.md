# Verification of the RepoBinding controller

TLA+ modules, TLC configurations and TLAPS proofs for the Kubernetes controller
in this repository. It turns a `RepoBinding` (a GitHub repository, a pipeline
name, a template, a Tekton Pipeline) into a tenant namespace with service
account, RBAC, ArgoCD project and Tekton trigger, and takes all of it down
again. The repository has no tests; the definitions below are read off the Go
code. Paths are relative to `src/`, `controller:` is
`controller/repobinding_controller.go`, `provisioners:` is
`controller/repobinding_provisioners.go`.

## 1. Inventory

| Component | State it keeps | Operations | What is hard about it |
|---|---|---|---|
| Reconcile loop (`controller:59-314`, 521-594) | none of its own between calls: the status of the RepoBinding (phase, seven flags), the finalizer, the work queue | admit + finalizer, initialize, validate, one provisioning step, finalize, delete, requeue on error | works on an informer copy; every call to the API server is a point where users, other workers, informers, failures and restarts get in between |
| Provisioners (`provisioners:27-928`) | the tenant's objects in the cluster | 14 kinds of object, created or updated, some through cached reads, some live, some by server-side apply | partly done steps, lagging caches, a namespace that is being deleted |
| Cleanup (`controller:319-519`) | the same objects | six steps in order, then the finalizer | order, retries from the start, swallowed read errors, two-minute wait for ArgoCD Applications |
| EventListener selector (`provisioners:688-723`) | one list of namespaces per organization | cached read, append, update | shared by all bindings of an organization: optimistic concurrency |
| Controller validation (`controller/validators.go`) | compiled-in lists | five checks in order | a second, different copy of the webhook's checks |
| Admission webhook (`controller/webhooks/`) | approved organizations (flag) | create, update (immutable fields), delete | sees every write, also the controller's own |
| Template catalog and dispatcher template (`controller/template_catalog.go`, `controller/dispatcher_template.go`) | constant map | get, list, exists, render | parameters must match the trigger's bindings |
| Process (`main.go`) | flags, leader lease, health state | start, stop on a signal, health checks | a restart forgets everything but the cluster |
| AphexControllerRuntime, controller-runtime | external | status patch with retry, finalizer helper, create-or-update, caches, work queue | modelled from how the code calls them |

Interaction: users write RepoBindings through the webhook to the API server; the
informer delivers the newest state to the cache and queues the key (no predicate,
so the controller's own status patches queue it too); a worker reads the copy from
the cache, works on it and writes status (merge patch by name) and finalizer (an
update that is refused from an old copy) back; provisioners and cleanup write
tenant objects; the namespace controller empties a deleted namespace on its own
time. Bindings of one organization meet in the EventListener.

What makes each component correct:

* reconcile loop: it never acts on an old copy in a way the stored object does not
  allow; status is recorded in order and never ahead of the objects; nothing is
  forgotten; wanted bindings become Ready, deleted ones go;
* provisioning and cleanup: a Trigger exists only while all a run needs exists;
  no Trigger, TriggerTemplate, AppProject or cluster-wide RBAC outlives the
  finalizer, and the namespace is gone or going (the RoleBinding in the `argocd`
  namespace and the EventListener's entry do outlive it: nothing removes them);
* EventListener selector: no entry is lost or doubled, and success means listed;
* validation: what the webhook admits and what the controller accepts relate in a
  known way, nothing unvalidated gets the finalizer, and no tenant is made that the
  cleanup steps could not find again;
* wait for Applications: an AppProject is there for as long as Applications need it,
  and a wait neither lasts for ever nor keeps a worker from everyone else.

The hazards behind these, each at its line, are in `PROJECT.json`.

## 2. Modules

| Module | Contents |
|---|---|
| `TenantObjects` | The tenant's objects in the API server (`objs`, `terminating`), what the caches show of them (`seen`), the spec a Trigger was made from (`routed`); operators for one provisioning write (`CanEnsure`, `MayCollide`, `Ensure`) and one removal (`Remove`); the namespace controller (`Drain`) and informers (`SyncView`) |
| `RepoBindingReconciler` | EXTENDS it with the loop: stored object `rb`, informer copy `cache`, the copy `local` a reconcile works on, which of the two are `behind` the store, the `queue`, and per binding a stage `pc` and a position `at` in the current list of objects. All properties of the core are stated here |
| `MCReconciler` | model values and the pipeline map for TLC |
| `RepoBindingProofs` | type correctness |
| `RepoBindingSafetyProofs` | the inductive safety invariant and the theorems that follow |
| `WorkProofs` | the invariant of the work queue: no work is lost |
| `TenantProofs` | the invariants that relate the status to the tenant's objects: no orphans, what is recorded is real, Triggers route to provisioned tenants |
| `PromiseProofs` | the core implements `BindingPromise` |
| `BindingPromise` | abstract: the life of a binding (gone, asked, kept, ready, leaving) and whether pushes start runs for it; `RepoBindingReconciler` states its refinement as `KeepsBindingPromise` |
| `MCShared` | two bindings that name one pipeline, for TLC |
| `ListenerPromise` | abstract: a set of names that only grows; a binding that was told success is listed |
| `EventListenerSelector` | the list, its resource version, the cached copy and the copies of racing workers; its refinement of `ListenerPromise` |
| `MCListener` | two bindings of one pipeline and one of another, for TLC |
| `ListenerProofs` | safety and the refinement, for any number of bindings |
| `ArgoCDCleanup` | the cleanup from its ArgoCD step on: Applications and AppProjects, and per deleted binding the stage `pc`, what is left `todo`, the `clock` of the timeout and the `tick` in the ticker's channel; `late` is a history variable for one property |
| `MCArgoCD` | two deletions, one worker, labelled and foreign Applications, for TLC |
| `ArgoCDProofs` | no Application loses its AppProject early |
| `BindingValidation` | the checks of both validators on organization, name and template, the webhook's approved organizations, one binding, and the tenants' objects (`made`, `terminating`) with the organization and name they were made under |
| `MCValidation` | names and flags on both sides of every line the validators draw, for TLC |
| `ValidationProofs` | which tenants can exist, and what rejections can be about |

### How the core corresponds to the code

`Fetch` is the read in `controller:81-89` and everything decided from the copy
alone: `Dispatch` follows the branches of `Reconcile` (90-130). A reconcile that
turns out to have nothing to do ends in that step. Each later action is one write
to the API server, with the read right before it that decides on it (a Get followed
by Create, Update or Delete is one action) and the code up to the next. What others
do between that read and the write is in the refusals: `Stale` for updates,
`MayCollide` for creates and updates of tenant objects; for the shared
EventListener read and write are two actions in `EventListenerSelector`:

| Stage | Code | Actions |
|---|---|---|
| `admit` | 102-114, 562-576 | `AdmitRejected`, `EnsureFinalizer`, `FinalizerConflict` |
| `initialize` | 116-119, 522-531 | `InitializeStatus` |
| `validate` | 127-130, 542-560 | `RejectPending`, `AcceptPending` |
| `provision` | 180-236 and the provisioners | `EnsureObject`, `ProvisionRefused`, `ProvisionFaulted` |
| `markFailed` | 223-236 | `MarkFailed` |
| `record` | 238-298 | `RecordStep`, `RecordReady` |
| `cleanup` | 319-519 | `CleanupObject`, `CleanupSwallowed` |
| `release` | 345-349 | `RemoveFinalizer`, `ReleaseConflict` |
| any | | `PatchNotFound`, `Abort` (error returned with nothing written, also an expired context), `Restart` |

`UserCreate`, `UserUpdate`, `UserDelete` are requests the webhook admits,
`SyncBinding` the informer with its event handler, `ClusterStep` the informers of
the tenant's objects and the namespace controller.

Decisions that matter:

* A status patch is addressed by name and carries no resource version: it lands on
  whatever object has the name now. The finalizer is written with an update and
  refused if the copy is behind (`Stale`). Both are how the code calls the library;
  whether a patch refreshes the local copy is not visible in this repository, so it
  is a parameter (`PatchRefreshes`) and both values are checked.
* The update that removes the last finalizer removes the object.
* A status patch that repeats the stored status within the one-second resolution of
  `lastReconcileTime` changes nothing and raises no event (`RepeatAndReturn`).
* Caches: kinds in `Lagging` are read from `seen`, which catches up at any time;
  the others are current. AppProjects, and the cluster-scoped kinds during cleanup,
  are read as unstructured objects, which the manager's client reads live.
* Informers jump to the newest state: intermediate versions collapse. A restart
  lists fresh state and queues every binding. Periodic resync is not modelled: it
  only queues more, which would hide lost requeues.
* A call that was carried out but reported as failed is a success followed by
  `Abort` or `ProvisionFaulted`.
* A spec is a model value: `ValidSpecs` pass the controller's validation,
  `CatalogSpecs` name a known template, `DecodableSpecs` hold a decodable
  Pipeline; `Specs` are those the webhook admits.

### The other modules

`ArgoCDCleanup` follows `controller:412-470` call by call: `ListLabelled`,
`DeleteNext` for each listed Application, then `waitForApplicationDeletion` with its
three channels. `Pass` is time: it moves the clock towards the two-minute timer and
puts a tick into the ticker's channel, which holds one. `TakeTick` and `TimeOut` are
the two cases of the `select` and compete when both are ready, `Abort` is the third.
`NoneLeft` and `SomeLeft` are the list inside the loop, which is without the label.
`Retry` is the returned error: every step starts over. Around it `Create`,
`UserDeletes` and `Cascade` (ArgoCD takes its finalizer off). Where the client
reports a kind it does not know as something other than NotFound, the error is
returned (`KindUnknown`).

The list in the wait answering NotFound (460-462) would end it too; whether the kind
is installed does not change here, so the first list has then ended the step already.

`BindingValidation` takes a name apart at its hyphens, so that
`strings.HasPrefix(name, p+"-")` and the anchors of the two patterns are what they
are in the code. The webhook sees creates and updates, also the two updates by which
the controller adds and removes the finalizer (`Admit`, `Release`), but no status
patches. Webhooks are switched on, as in `manifests/deployment.yaml`. The pattern of
GitHub organizations is a constant, `GitHubOrgs`.

A reconcile is one step there, on the current object, because
`RepoBindingReconciler` has the rest; but provisioning is three groups of steps, each
of which may write part of its objects and fail (`ProvisionGroup`), and a cleanup may
stop anywhere and starts over (`CleanupFails`, `Release`). `made` holds the objects
with the organization and name they were made under, of this binding and of earlier
ones. What a cleanup does and does not do is the code's:

* it takes Trigger and TriggerTemplate, the AppProject, and the namespace, in this
  order (`CleanupParts`), by the spec it finds stored;
* after the first of them it waits until no Application is in the namespace.
  `foreign` says that there is one without the label, which it does not delete: with
  it no cleanup gets further;
* of the namespace only the deletion starts (`terminating`), the namespace controller
  ends it (`Drain`), and the finalizer does not wait for that;
* what is called `Access` it leaves behind: nothing removes the RoleBinding in the
  `argocd` namespace and the EventListener's entry. The cluster-wide RBAC, which it
  does try to remove, is counted to `Access` here; `NoClusterRBACOrphans` is about it.

Provisioning also happens in phase Pending: whether the reconcile's copy shows the
Pending just patched, and so is validated, is up to the library (`PatchRefreshes` in the
core).

`BindingPromise` is what a user may rely on. Its transitions allow two things one
might not expect, because the code does them: a route may still appear while the
binding is already leaving (a reconcile under way does not look again), and a Ready
binding may relapse when a reconcile of an older copy fails.

## 3. Runs

| Run | Instance | Checks | Distinct states |
|---|---|---|---|
| `lifecycle` | one life; accepted, rejected and undecodable specs; one edit; one fault | type, recorded order, Ready complete, recorded = real, Trigger routes to provisioned, no orphans (two), cleanup spares the wanted, no lost work, finalizer only on valid, the promise (refinement) | about 610,000 |
| `rebirth` | two lives under one key, one fault which may hit a swallowed read | copies trail, recorded order, no orphans, no lost work, the promise (refinement) | about 1.4 million |
| `caches` | Namespace, Pipeline, EventListener and Secret caches lag; patches leave the local copy stale; one fault | Ready complete, recorded = real, Trigger routes to provisioned | about 230,000 |
| `liveness` | lagging EventListener, Pipeline and Secret caches, one fault | `EventuallyReady`, `DeletionCompletes` | about 360,000 |
| `listener` | three bindings of two pipelines, two faults, two foreign edits | no name twice, copies trail, the promise (refinement), everyone listed | about 54,000 |
| `argocd` | two deletions, one worker, two labelled Applications and a foreign one, two created meanwhile, timeout after three ticks, one fault | AppProject outlives Applications, workers come free, cleanup completes | about 32,000 |
| `validation` | one binding at a time, unbounded edits, deletions, failed cleanups, foreign Applications and restarts with other flags; 8 names, 2 organizations, 4 repository owners, 3 templates, 2 flags | no orphaned tenant, no privileged tenant, rejections explained, settled unless held | about 222,000 |
| `rejected`, `swallowed_read`, `draining`, `edited`, `shared_pipeline` | small | one property each that the code violates, see section 6 | |

Why these bounds are enough to be interesting. Two lives are what it takes for
anything of a first life (copies, running reconciles, a terminating namespace) to
meet a second; a third meets the second in the same way. One fault can hit every
call of every reconcile, also a restart; the retry paths are entered by refusals
(`ProvisionRefused`), conflicts and `PatchNotFound` as well, which cost no fault.
One edit between any two calls is what separates the validated spec from the stored
one. Bounds on lives, edits and faults are constants used in guards only; the
theorems hold for every value. Two bindings in the core exceed four million states
within the time of a run and are not checked by TLC; the theorems cover any number
of bindings and workers, and what bindings share is modelled in
`EventListenerSelector`. Deadlock is not reported because the system may rest: all
bindings settled and the users' bounded requests used up. That it does not rest too
early is `NoLostWork`. In `BindingValidation` nothing is bounded and deadlock is
checked; its names stand on both sides of every line the validators draw, its flags
approve and drop the compiled-in organization and name one that is no GitHub name.

In `ArgoCDCleanup` two deletions and one worker are what it takes for one to wait for
the other. The foreign Application is one nobody needs to remove, so a wait can time
out again and again; the created ones may come between any two calls, also after the
namespace was seen empty. Timeouts are not bounded. Three ticks stand for the
twenty-four of the code: what matters is that several ticks fit and that the timer
can be ready together with a tick.

`shared_pipeline` needs no fault, edit or second life: two bindings and one pipeline
suffice.

Orphan properties are checked with current caches for the kinds the cleanup looks up
in caches (Trigger, TriggerTemplate, Namespace): with a lagging cache the cleanup can
miss an object written just before, which is listed as a hazard.

**Fairness** (`FairSpec`). Weak fairness for the steps of a running reconcile
(goroutines do not stop half-way unless the process does), for informers and for the
namespace controller. Strong fairness for `Fetch`: whether a worker is free is
switched on and off by other bindings, and the work queue is first in, first out, so
a key that waits again and again gets its turn. Nothing is assumed of users, faults
or restarts. In `EventListenerSelector` every step is enabled until it is done, so
weak fairness is enough there; the rate limiter only delays by a bounded time
(`main.go:104-107`). In `ArgoCDCleanup` workers, time and ArgoCD's cascade are weakly
fair; strong fairness is assumed of `Start` (the queue, as above) and of the two cases
of `select`, which Go picks at random among those that are ready, so that neither is
passed over for ever. Users owe nothing: `CleanupCompletes` takes as its premise that
foreign Applications are gone. In `BindingValidation` admission (`Admit` or `Reject`) and
`Release` are weakly fair: the work queue comes back to what failed, and calls do not
fail for ever. `Release` is not enabled while the webhook refuses the update or a foreign
Application stays, so nothing is assumed of either.

`DeletionCompletes` has two premises that are built into the core: its Applications step
passes or fails, and the webhook lets the controller's updates pass. `CleanupCompletes`
is about the first, `SettledUnlessHeld` about both.

**Mutants.** Every property of a passing run is violated when one definition is
replaced by a plausible mistake; the mistakes stand before the definitions they
alter, with a comment that starts with "Mistake:". No specification uses them.

## 4. Proofs

All theorems hold for every set of bindings, specs, lagging kinds, every bound and
both values of the switches, under the named assumptions `TenantAssumption`,
`ReconcilerAssumption`, `SelectorAssumption`, `CleanupAssumption` and
`ValidationAssumption` (types of the constants, that sets users choose from are not
empty, and that accepted specs name a template of the catalog,
`controller/validators.go:109-126`).

* `TypeCorrect`: `Spec => []TypeOK`. `TypeOK` alone is not inductive: that `at`
  stays in its range needs `PositionOK` (the position is inside the list the
  reconcile walks, and 1 between lists), which needs `NextStep` to return a step
  whose list is known (`NextStepFirst`, `StepKindsTyped`).
* `Safety`: `Spec => []SafeInv`, the inductive invariant of the core. For each
  binding: `CacheTrails` (a cached copy no write has overtaken equals the object; a
  cached copy with the finalizer and no deletion implies the object still has the
  finalizer and at least its flags; a doomed one implies the object is not wanted),
  `LocalTrails` (the same for the copy of a running reconcile, by stage), and
  `Recorded`. The argument: the finalizer is only added and removed by updates from
  current copies; a current local copy implies a current cache; so no cached copy
  with the finalizer survives into another life. Status patches, edits and deletion
  preserve the relation because flags only grow and users do not hand out finalizers.
* From it `CopiesTrailAlways`, `CleanupSpares`, `StepsInOrder`, `ReadyIsComplete`,
  and the action property `FinalizerValidated`.
* `WorkIsNotLost`: `Spec => []NoLostWork`. The property speaks of the moment when
  nobody has anything to do; what brings it about must be said of every earlier
  moment. `Awake` says that a reconcile works on an overtaken copy only while an event
  is under way or the key is queued, and that a binding that is idle, not queued and
  without an event is `AtRest`. A reconcile that ends without requeueing therefore has
  to end in a rest state unless it was overtaken. That needs `Steady`: what the stage
  says of the copies (a cleanup works for a doomed cached object, an admission for one
  that exists), and that phase and flags of an object without the finalizer are
  those of one not begun or rejected (`Sound`).
* `NoOrphans`, `NoRBACOrphans`, from `LeftoversOwned`: `Spec => []Owned`. The orphan
  properties only look at a pipeline with no finalizer left. The invariant says of each
  object that its cleanup is still to come: some binding of the pipeline `Answers` for
  it, has the finalizer and is either not in its cleanup or at a position not past the
  kind. It needs no hypothesis, because it is about kinds that are `Reliable`: removed by
  live reads or through a cache that does not lag, and not by a read whose failure is
  swallowed. The theorems then name which kinds must be reliable; that their
  hypotheses are needed is the hazard at `controller:358` and the run `swallowed_read`.
  Bindings that share a pipeline are included: whoever answers for an object last
  removes it.
* `RecordedAreReal`, `ReadyStaysReal`, `TriggersRoute`, from `RealInv`. While a binding
  is `Intact` (finalizer there, no cleanup of this life begun or to be begun before
  the cache shows the deletion), what it has recorded and what its running step has
  done so far (`Have`) exists, its namespace is not terminating, and the caches show
  nothing provisioning would wrongly take for existing (`Shown`). An object not yet
  admitted lies in a place the last life has left (`Vacant`). The hypotheses:
  - `OnePipelineEach`: no two bindings name one pipeline. The code does not ensure it,
    and `shared_pipeline` is the counterexample.
  - `PatientUsers`: a binding is created only where the namespace of its last life is
    gone (`Cleared`), its objects are not shown any more, and, if reads of cluster RBAC
    may be swallowed, none of it is left for a late cleanup to delete. The code does
    not make users wait, and `draining` is the counterexample. It is an action formula
    about one user action and restricts nobody else. `FirstLivesArePatient` proves it of
    `Spec` if each key is created at most once, and `FirstLivesAreReal` draws the
    conclusion: in first lives the properties hold with no word about users.
  - for `TriggersRoute`, a current Trigger cache: otherwise a cleanup may miss the
    Trigger and remove what its runs need.
* `BindingKeepsPromise`: `Spec => KeepsBindingPromise`, step by step. `WritesRefine`
  maps each write to the object to a step of its life, `ObjectsRefine` each write to
  the Trigger to `Route` or `Unroute`, `RestRefines` everything else to a stutter.
  Needed of the state: `WorkInv`, `Owned` (the binding that leaves takes its Trigger
  along) and `TriggerKept` (of an intact binding the Trigger stays once made, also while
  the tenant's namespace drains: it is applied whatever the caches show and lives in
  the organization's namespace). Users need not be
  patient here; two bindings of one pipeline would take each other's route away.
* `ListenerSafety`, `NamesOnce`, `ListenerKeepsPromise`: the invariant says that versions of
  copies never exceed the stored one, so an update that is accepted was made from
  exactly what is stored; every step then maps to a step of `ListenerPromise` or to
  a stutter.

* `ProjectsOutlive`: `Spec => []ProjectOutlivesApplications`. The property alone is
  not inductive: it says nothing between the end of the wait and the removal of the
  AppProject. The invariant calls an Application unguarded from the end of the wait
  on, and asks that every unguarded one be late; and that without the Application
  kind there is none, because then the wait is skipped.
* `TenantsAreOwned`, `PlatformIsSpared`, `RejectionExplained`. The invariant says that
  the stored spec has passed the webhook's checks on its name, which survive every
  change of the flag; that every object that was ever made has such a name; and
  `NoOrphanedTenant`: an object is of the tenant the stored spec names, under its
  finalizer, or a namespace that is being deleted, or `Access`. A release keeps it
  because the cleanup before it has gone through all its parts for the spec the object
  was made from, which is the stored one by `validateImmutableFields` (lemmas
  `SameTenantKeeps`, `CleanupTakes`). Of the RoleBinding in the `argocd` namespace and the
  EventListener's entry no such claim could be proved, because it is false. The lemma
  `WebhookNamesPass` (a name the webhook admits passes the controller's pattern and
  shorter list) carries the last.

Before they were proved, `WorkInv`, `Owned`, `TriggerKept` and, under patient users,
`RealInv` were checked by TLC as invariants of the instances `lifecycle`, `rebirth` and
`caches`.

Every safety property that a passing run checks is now also a theorem. Model-checked
only are `EventuallyReady`, `DeletionCompletes`, `EveryoneListed`, `WorkersComeFree`,
`CleanupCompletes` and `SettledUnlessHeld`: they rest on fairness, and reasoning
about fairness needs ENABLED, which is beyond the prover. `NoLostWork` and
`BindingKeepsPromise` are the safety halves of the first two. The properties of the
runs that end in a violation are false as they stand; `NoRBACOrphans` and
`ReadyStaysReal` state under which hypotheses two of them are true.

## 5. Not modelled

Contents of objects (labels, rules, rendered templates); what Tekton does with a push
event, which happens outside the program with static content (of the dispatcher
template only what a run refers to is used, `RunNeeds`); health checks and metrics,
whose thresholds are in a library; leader election, flags other than
`--approved-orgs`, and the manifests. Of the validators the checks on `aphexOrg`,
`repoName` and the outline of `pipelineSpec`, which only the webhook makes, are left
out: those fields are well-formed. A controller that runs without webhooks
(`--enable-webhooks=false`, the default of the flag) is not modelled. Several
namespaces with equally named Pipelines, which `findPipelineNamespace` could confuse,
do not arise from what the controller creates. A `pipelineName` that is the name of an
organization's namespace (`org-...`) is listed as a hazard and not instantiated. The runtime library
is external; only its use is modelled. The RBAC validator's refusal is one of the
errors `ProvisionFaulted` stands for.

## 6. What the violations show

* `rejected`: `controller:574` says "Don't requeue failed resources", but a rejection
  in phase Pending returns the error as well (546-550); the retry finds phase Failed,
  skips the validation and provisions the rejected spec.
* `swallowed_read`: `controller:483` and 496 take every read error for "not found", so
  the cleanup can finish with ClusterRole and ClusterRoleBinding in place, against
  the comment in 472.
* `draining`: the finalizer goes while the namespace only starts to terminate (515); a
  binding created again at that moment finds everything in place and is reported
  Ready ("Tenant resources provisioned successfully", 295), then the namespace is gone
  and Ready is never looked at again.
* `edited`: updates of a Ready binding are admitted and never applied (121-125, 533-539),
  though `Reconcile` "handles RepoBinding create/update/delete events" (58).
* `shared_pipeline`: the webhook admits a second binding with the same `pipelineName`;
  it finds everything in place and becomes Ready ("Tenant resources provisioned
  successfully", 295). Deleting the first removes the objects of both, and the second
  stays Ready.

`SettledUnlessHeld` holds, and its premise says what can hold a binding for ever: an
organization dropped from `--approved-orgs`, because the webhook then refuses the
controller's own updates and the binding is neither admitted nor released; and an
Application without the label in its namespace, because the cleanup waits for it. The
two validators' disagreement is not among them: what only the webhook accepts is
rejected, and released when deleted.

## 7. Plan

In order of importance; what is there is marked.

1. `TenantObjects`, `RepoBindingReconciler`: the core, runs, mutants (done).
2. `RepoBindingProofs`, `RepoBindingSafetyProofs` (done).
3. `EventListenerSelector`, `ListenerPromise`, `ListenerProofs` (done).
4. `BindingPromise`, refined by the core; a shared pipeline name (done).
5. `ArgoCDCleanup`, `ArgoCDProofs` (done).
6. `BindingValidation`, `ValidationProofs` (done).
7. `WorkProofs`, `TenantProofs`, `PromiseProofs` and `NamesOnce`: the rest of the safety
   properties and the refinement of `BindingPromise` (done).
8. Proofs left: what of `rejected` and `edited` is true (a rejected spec is provisioned
   only by a retry, an edit of a binding that is not yet Ready is served), as properties
   with a run and a theorem each; the safety halves of `WorkersComeFree` and
   `CleanupCompletes`; orphans under a lagging cache, if the objects are older than the
   caches.
