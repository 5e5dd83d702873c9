---------------------------- MODULE TenantObjects ----------------------------
(***************************************************************************)
(* The cluster objects a RepoBinding is provisioned into, as the API       *)
(* server stores them and as the controller's informer caches show them.   *)
(*                                                                         *)
(* An object is identified by the pipeline it belongs to and by its kind;  *)
(* a pipeline's name is also the name of its namespace.  The provisioners  *)
(* and the cleanup functions of the controller are operators here;         *)
(* RepoBindingReconciler says when they run.                               *)
(***************************************************************************)
EXTENDS Naturals, Sequences, FiniteSets

CONSTANTS
    Pipelines,      \* pipeline names
    Specs,          \* RepoBinding specs the admission webhook lets in
    CatalogSpecs,   \* those whose templateRef names a template of the catalog
    DecodableSpecs, \* those whose pipelineSpec decodes as a Tekton Pipeline
    Lagging         \* kinds whose informer cache may lag behind the API server

(***************************************************************************)
(* What each provisioning step writes, in the order the code writes it.    *)
(***************************************************************************)
NamespaceStep       == <<"Namespace", "ConfigMap">>
PipelineStep        == <<"Pipeline">>
ServiceAccountStep  == <<"ServiceAccount">>
RBACStep            == <<"Role", "RoleBinding", "ClusterRole",
                         "ClusterRoleBinding", "ArgoRoleBinding", "AppProject">>
ListenerStep        == <<"ListenerEntry">>
TriggerTemplateStep == <<"TriggerTemplate">>
TriggerStep         == <<"Trigger">>
WebhookInfoStep     == <<"Secret">>

\* Kinds that live inside the pipeline's namespace and die with it.
Namespaced ==
    {"ConfigMap", "Pipeline", "ServiceAccount", "Role", "RoleBinding", "Secret"}

Kinds ==
    Namespaced \cup {"Namespace", "ClusterRole", "ClusterRoleBinding",
                     "ArgoRoleBinding", "AppProject", "ListenerEntry",
                     "TriggerTemplate", "Trigger"}

\* Kinds handled as unstructured.Unstructured: the manager's client reads these
\* from the API server, everything else from an informer cache.
ReadLive == {"AppProject"}
CleanedLive == {"AppProject", "ClusterRole", "ClusterRoleBinding"}

\* Kinds written with server-side apply: written whatever the cache shows.
Applied == {"TriggerTemplate", "Trigger"}

ASSUME TenantAssumption ==
    /\ Specs # {}
    /\ CatalogSpecs \subseteq Specs
    /\ DecodableSpecs \subseteq Specs
    /\ Lagging \subseteq Kinds \ ReadLive

VARIABLES
    objs,        \* objs[p]: the kinds of objects that exist for pipeline p
    terminating, \* pipelines whose namespace is being deleted
    seen,        \* seen[p]: the lagging kinds p's informers show
    routed       \* routed[p]: the spec p's Trigger was last applied from

tenantVars == <<objs, terminating, seen, routed>>

TenantTypeOK ==
    /\ objs \in [Pipelines -> SUBSET Kinds]
    /\ terminating \subseteq Pipelines
    /\ seen \in [Pipelines -> SUBSET Lagging]
    /\ routed \in [Pipelines -> Specs]

\* Stands for "no spec": read only where no object refers to it.
AnySpec == CHOOSE s \in Specs : TRUE

TenantInit ==
    /\ objs = [p \in Pipelines |-> {}]
    /\ terminating = {}
    /\ seen = [p \in Pipelines |-> {}]
    /\ routed = [p \in Pipelines |-> AnySpec]

-----------------------------------------------------------------------------
(***************************************************************************)
(* Provisioning one object.                                                *)
(***************************************************************************)

\* Does a read through the manager's client find the object?
View(p, k) == IF k \in Lagging THEN k \in seen[p] ELSE k \in objs[p]

\* The namespace exists and still admits new objects.
Accepts(p) == "Namespace" \in objs[p] /\ p \notin terminating

\* One EventListener serves the organization: its cached copy is current only
\* when the entry of every pipeline is.
ListenerCurrent ==
    \A q \in Pipelines : View(q, "ListenerEntry") <=> "ListenerEntry" \in objs[q]

\* findPipelineNamespace gets the Pipeline in each namespace the cache lists.
PipelineFound(p) == View(p, "Namespace") /\ View(p, "Pipeline")

\* The write of kind k for spec s goes through when the API server answers.
CanEnsure(p, k, s) ==
    /\ k = "Pipeline" => s \in DecodableSpecs
    /\ k = "TriggerTemplate" => s \in CatalogSpecs
    /\ k = "Trigger" => PipelineFound(p)
    /\ k = "ListenerEntry" => View(p, k) \/ ListenerCurrent
    /\ k = "Secret" => View(p, k) \/ k \notin objs[p]
    /\ k \in Namespaced => View(p, k) \/ k \in objs[p] \/ Accepts(p)

\* The cache and the API server disagree on k: a create may hit AlreadyExists,
\* an update NotFound.
MayCollide(p, k) == k \notin Applied /\ ~(View(p, k) <=> k \in objs[p])

\* CreateOrUpdate, CreateIfNotExists, Apply: an object the cache shows is left
\* in place, one it does not show is created.
Ensure(p, k, s) ==
    /\ objs' = [objs EXCEPT ![p] =
                    IF View(p, k) /\ k \notin Applied THEN @ ELSE @ \cup {k}]
    /\ routed' = IF k = "Trigger" THEN [routed EXCEPT ![p] = s] ELSE routed
    /\ UNCHANGED <<terminating, seen>>

-----------------------------------------------------------------------------
(***************************************************************************)
(* Cleaning up one object.                                                 *)
(***************************************************************************)
\* Mistake (see RepoBindingReconciler): the AppProject is forgotten.
CleanupWithoutAppProject ==
    <<"Trigger", "TriggerTemplate", "Applications",
      "ClusterRoleBinding", "ClusterRole", "Namespace">>

\* Mistake: the namespace goes first, the Trigger last.
CleanupReversed ==
    <<"Namespace", "ClusterRole", "ClusterRoleBinding", "AppProject",
      "Applications", "TriggerTemplate", "Trigger">>

\* Mistake: the binding is deleted, the role it binds is not.
CleanupWithoutClusterRole ==
    <<"Trigger", "TriggerTemplate", "Applications", "AppProject",
      "ClusterRoleBinding", "Namespace">>

\* The order handleDeletionWithHelper lists the cleanup steps in.  The
\* ArgoCD Applications step waits for objects the controller never creates:
\* here it only passes or fails.
CleanupOrder ==
    <<"Trigger", "TriggerTemplate", "Applications", "AppProject",
      "ClusterRoleBinding", "ClusterRole", "Namespace">>

CleanupFinds(p, k) ==
    IF k \in CleanedLive THEN k \in objs[p] ELSE k \in Kinds /\ View(p, k)

\* Get, then Delete what was found; deleting a namespace only starts its
\* termination, deleting an object that is already gone is no error.
Remove(p, k) ==
    /\ IF CleanupFinds(p, k)
         THEN /\ objs' = [objs EXCEPT ![p] = IF k = "Namespace" THEN @ ELSE @ \ {k}]
              /\ terminating' = IF k = "Namespace" /\ k \in objs[p]
                                  THEN terminating \cup {p} ELSE terminating
         ELSE UNCHANGED <<objs, terminating>>
    /\ UNCHANGED <<seen, routed>>

-----------------------------------------------------------------------------
(***************************************************************************)
(* The cluster around the controller.                                      *)
(***************************************************************************)

\* The namespace controller empties a terminating namespace object by object
\* and removes it last.
Drain(p) ==
    /\ p \in terminating
    /\ IF objs[p] \cap Namespaced # {}
         THEN /\ \E k \in objs[p] \cap Namespaced :
                    objs' = [objs EXCEPT ![p] = @ \ {k}]
              /\ UNCHANGED terminating
         ELSE /\ objs' = [objs EXCEPT ![p] = @ \ {"Namespace"}]
              /\ terminating' = terminating \ {p}
    /\ UNCHANGED <<seen, routed>>

\* The informer of kind k catches up on pipeline p.  The entries of the
\* EventListener are fields of one object and arrive together.
SyncView(p, k) ==
    /\ k \in Lagging
    /\ k \in seen[p] <=> k \notin objs[p]
    /\ seen' = [q \in Pipelines |->
                  IF q = p \/ k = "ListenerEntry"
                    THEN (seen[q] \ {k}) \cup (objs[q] \cap {k})
                    ELSE seen[q]]
    /\ UNCHANGED <<objs, terminating, routed>>
=============================================================================
