-------------------------- MODULE BindingValidation --------------------------
(***************************************************************************)
(* Who may have a tenant: the two validators a RepoBinding meets, with     *)
(* their own lists and patterns.  The admission webhook sees every create  *)
(* and update, also the updates by which the controller adds and removes   *)
(* its finalizer; the controller checks before it adds the finalizer and   *)
(* once more in phase Pending.  The webhook's organizations come from a    *)
(* flag that may change with every start, the controller's are compiled    *)
(* in.                                                                     *)
(*                                                                         *)
(* One binding: no check looks at another.  A reconcile is one step on the *)
(* current object and caches are current: what stale copies and lagging    *)
(* caches do is RepoBindingReconciler's, how the wait for Applications     *)
(* goes is ArgoCDCleanup's.  Webhooks are on, as in                        *)
(* manifests/deployment.yaml.                                              *)
(***************************************************************************)
EXTENDS Naturals, SequencesExt

CONSTANTS
    Letters,   \* the legal, non-empty strings between the hyphens of a name
    Names,     \* names users ask for: sequences of what is between hyphens
    AphexOrgs, \* values of spec.aphexOrg
    RepoOrgs,  \* values of spec.repoOrg
    GitHubOrgs, \* those that match githubOrgPattern
    Templates, \* values of spec.templateRef
    Flags      \* values of --approved-orgs: sets of the parts between commas

Part == [text: RepoOrgs, padded: BOOLEAN]

ASSUME ValidationAssumption ==
    /\ AphexOrgs # {} /\ RepoOrgs # {} /\ Names # {} /\ Templates # {}
    /\ "" \notin Letters
    /\ GitHubOrgs \subseteq RepoOrgs \ {""}
    /\ \A n \in Names : n \in Seq(STRING) /\ n # <<>>
    /\ Flags \subseteq SUBSET Part

VARIABLES
    approved,    \* the webhook's approvedOrgs
    rb,          \* the RepoBinding the API server stores
    made,        \* the tenants' objects, of this binding and of earlier ones
    terminating, \* names of the namespaces that are being deleted
    foreign      \* has rb's namespace an Application without the label?

vars == <<approved, rb, made, terminating, foreign>>
tenantVars == <<made, terminating>>

-----------------------------------------------------------------------------
(***************************************************************************)
(* The checks.  The parts of a spec neither validator treats differently   *)
(* (repoName, the outline of pipelineSpec) are well-formed here.           *)
(***************************************************************************)
Specs == [aphexOrg: AphexOrgs, repoOrg: RepoOrgs,
          pipelineName: Names, templateRef: Templates]

\* parseApprovedOrgs: parts are trimmed, empty ones dropped.
ParseApprovedOrgs(flag) == {p.text : p \in flag} \ {""}

\* The list in controller/validators.go.
PrivilegedNamespaces ==
    {<<"kube", "system">>, <<"kube", "public">>, <<"kube", "node", "lease">>,
     <<"default">>, <<"pipeline", "system">>, <<"pipeline", "catalog">>,
     <<"auth", "system">>, <<"tekton", "pipelines">>,
     <<"tekton", "pipelines", "resolvers">>}

\* Mistake: the webhook's list has not been kept up to date.
WebhookPrivilegedOutdated == PrivilegedNamespaces

\* The list in controller/webhooks/webhooks.go.
WebhookPrivileged ==
    PrivilegedNamespaces \cup {<<"argocd">>, <<"platform", "system">>}

\* name == p || strings.HasPrefix(name, p+"-")
StartsWith(name, p) == IsPrefix(p, name)

\* ^[a-z0-9-]+$
ControllerPattern(n) ==
    /\ \A i \in 1..Len(n) : n[i] \in Letters \cup {""}
    /\ n # <<"">>

\* ^[a-z0-9][a-z0-9-]*[a-z0-9]$|^[a-z0-9]$
WebhookPattern(n) ==
    /\ \A i \in 1..Len(n) : n[i] \in Letters \cup {""}
    /\ n[1] # "" /\ n[Len(n)] # ""

ControllerName(n) ==
    ControllerPattern(n) /\ \A p \in PrivilegedNamespaces : ~StartsWith(n, p)

\* Mistake: the webhook compares whole names only.
WebhookNameWhole(n) == WebhookPattern(n) /\ n \notin WebhookPrivileged

WebhookName(n) ==
    WebhookPattern(n) /\ \A p \in WebhookPrivileged : ~StartsWith(n, p)

CompiledOrgs == {"bdchatham"}

Catalog == {"run-pipeline-v1"}

\* ValidateRepoBinding
ControllerAccepts(s) ==
    /\ s.repoOrg \in CompiledOrgs
    /\ ControllerName(s.pipelineName)
    /\ s.templateRef \in Catalog

\* validateSpec
WebhookAccepts(s) ==
    /\ s.repoOrg \in GitHubOrgs
    /\ s.repoOrg \in approved
    /\ WebhookName(s.pipelineName)
    /\ s.templateRef # ""

\* Mistake: aphexOrg is thought to be a label.
SameTenantIfSameName(s, new) == s.pipelineName = new.pipelineName

\* validateImmutableFields
SameTenant(s, new) ==
    s.pipelineName = new.pipelineName /\ s.aphexOrg = new.aphexOrg

-----------------------------------------------------------------------------
Phases == {"", "Pending", "Provisioning", "Ready", "Failed"}

\* recorded: how many groups of provisioning steps have set their flags.
RepoBinding ==
    [present: BOOLEAN, spec: Specs, finalizer: BOOLEAN,
     deleting: BOOLEAN, phase: Phases, recorded: 0..3]

Created(s) ==
    [present |-> TRUE, spec |-> s, finalizer |-> FALSE,
     deleting |-> FALSE, phase |-> "", recorded |-> 0]

\* No object; its spec is read nowhere.
Gone == [Created(CHOOSE s \in Specs : TRUE) EXCEPT !.present = FALSE]

(***************************************************************************)
(* A tenant's objects, by what becomes of them.                            *)
(*   Namespace   the namespace and everything in it                        *)
(*   Access      the cluster-wide RBAC, the RoleBinding in the argocd      *)
(*               namespace and the entry of the EventListener              *)
(*   AppProject  the ArgoCD project                                        *)
(*   Trigger     TriggerTemplate and Trigger, in the organization's        *)
(*               namespace                                                 *)
(* Several objects taken together are there while any of them is.          *)
(***************************************************************************)
Parts == {"Namespace", "Access", "AppProject", "Trigger"}

Object(part, s) ==
    [part |-> part,
     org  |-> IF part \in {"Access", "Trigger"} THEN s.aphexOrg ELSE "",
     name |-> s.pipelineName]

\* What the steps 1 to 3, 4 and 5, 6 and 7 of executeProvisioningSteps write.
Group == <<{"Namespace"}, {"Access", "AppProject"}, {"Trigger"}>>

Init ==
    /\ \E flag \in Flags : approved = ParseApprovedOrgs(flag)
    /\ rb = Gone
    /\ made = {}
    /\ terminating = {}
    /\ foreign = FALSE

-----------------------------------------------------------------------------
(***************************************************************************)
(* Users, operators and the cluster.                                       *)
(***************************************************************************)
UserCreate(s) ==
    /\ ~rb.present
    /\ WebhookAccepts(s)
    /\ rb' = Created(s)
    /\ UNCHANGED <<approved, tenantVars, foreign>>

UserUpdate(s) ==
    /\ rb.present
    /\ SameTenant(rb.spec, s)
    /\ WebhookAccepts(s)
    /\ rb' = [rb EXCEPT !.spec = s]
    /\ UNCHANGED <<approved, tenantVars, foreign>>

UserDelete ==
    /\ rb.present
    /\ IF rb.finalizer
         THEN rb' = [rb EXCEPT !.deleting = TRUE] /\ UNCHANGED foreign
         ELSE rb' = Gone /\ foreign' = FALSE
    /\ UNCHANGED <<approved, tenantVars>>

\* Somebody puts an Application into the namespace, which may also be one users
\* have made themselves, that the cleanup, going by the label, does not delete; or
\* takes the last one away.
ForeignChanges ==
    /\ rb.present
    /\ foreign' = ~foreign
    /\ UNCHANGED <<approved, rb, tenantVars>>

\* The controller is started with another flag.
Reconfigure(flag) ==
    /\ approved' = ParseApprovedOrgs(flag)
    /\ UNCHANGED <<rb, tenantVars, foreign>>

\* The namespace controller has emptied a namespace, and it is gone.
Drain(n) ==
    /\ n \in terminating
    /\ made' = {o \in made : ~(o.part = "Namespace" /\ o.name = n)}
    /\ terminating' = terminating \ {n}
    /\ foreign' = (foreign /\ rb.spec.pipelineName # n)
    /\ UNCHANGED <<approved, rb>>

(***************************************************************************)
(* Reconciles, by the state they find the binding in.                      *)
(***************************************************************************)
\* The finalizer is added by an update: the webhook may refuse it, then the
\* error is returned and the reconcile repeated.
Admit ==
    /\ rb.present /\ ~rb.deleting /\ ~rb.finalizer
    /\ ControllerAccepts(rb.spec)
    /\ WebhookAccepts(rb.spec)
    /\ rb' = [rb EXCEPT !.finalizer = TRUE]
    /\ UNCHANGED <<approved, tenantVars, foreign>>

\* Status patches do not pass the webhook.
Reject ==
    /\ rb.present /\ ~rb.deleting
    /\ rb.finalizer => rb.phase = "Pending"
    /\ ~ControllerAccepts(rb.spec)
    /\ rb' = [rb EXCEPT !.phase = "Failed"]
    /\ UNCHANGED <<approved, tenantVars, foreign>>

Initialize ==
    /\ rb.present /\ ~rb.deleting /\ rb.finalizer
    /\ rb.phase = ""
    /\ rb' = [rb EXCEPT !.phase = "Pending"]
    /\ UNCHANGED <<approved, tenantVars, foreign>>

Accept ==
    /\ rb.present /\ ~rb.deleting /\ rb.finalizer
    /\ rb.phase = "Pending"
    /\ ControllerAccepts(rb.spec)
    /\ rb' = [rb EXCEPT !.phase = "Provisioning"]
    /\ UNCHANGED <<approved, tenantVars, foreign>>

\* Also in Pending: whether the patch that has just set it reaches the
\* reconcile's own copy, which is what decides on the validation, is up to the
\* library.
Provisions ==
    /\ rb.present /\ ~rb.deleting /\ rb.finalizer
    /\ rb.phase \in {"Pending", "Provisioning", "Failed"}

\* The steps of a group write their objects, up to a failure; the patch to
\* Failed may be lost too. A namespace that is there is left as it is, also one
\* that is being deleted.
ProvisionGroup ==
    /\ Provisions
    /\ rb.recorded < 3
    /\ \E parts \in SUBSET Group[rb.recorded + 1] :
        /\ made' = made \cup {Object(part, rb.spec) : part \in parts}
        /\ \/ \E phase \in {rb.phase, "Failed"} : rb' = [rb EXCEPT !.phase = phase]
           \/ /\ parts = Group[rb.recorded + 1]
              /\ rb' = [rb EXCEPT !.recorded = @ + 1]
    /\ UNCHANGED <<approved, terminating, foreign>>

\* finalizeProvisioning; what it writes is in the namespace.
Finalize ==
    /\ Provisions
    /\ rb.recorded = 3
    /\ \E phase \in {"Ready", "Failed"} : rb' = [rb EXCEPT !.phase = phase]
    /\ UNCHANGED <<approved, tenantVars, foreign>>

\* The parts the cleanup takes away, in its order. Between the first and the
\* second it waits for every Application in the namespace to go. The reads of
\* the cluster-wide RBAC may fail unnoticed, and nothing takes the RoleBinding
\* in the argocd namespace and the EventListener's entry away: Access stays.
CleanupParts == <<"Trigger", "AppProject", "Namespace">>

\* The first n are taken away. Of the namespace only the deletion starts.
CleanedUp(n) ==
    LET taken == {Object(CleanupParts[i], rb.spec) : i \in 1..n}
    IN  /\ made' = {o \in made : o \in taken => o.part = "Namespace"}
        /\ terminating' = terminating \cup
                {o.name : o \in {t \in taken \cap made : t.part = "Namespace"}}

\* The cleanup fails, at the latest in the wait if an Application stays there,
\* or has done everything but the last update fails. The next reconcile starts
\* from the first step.
CleanupFails ==
    /\ rb.present /\ rb.deleting
    /\ \E n \in 0..3 : (foreign => n <= 1) /\ CleanedUp(n)
    /\ UNCHANGED <<approved, rb, foreign>>

\* Mistake: nothing is done for a spec the controller would not accept.
ReleaseOfAccepted ==
    /\ rb.present /\ rb.deleting
    /\ ControllerAccepts(rb.spec)
    /\ ~foreign
    /\ WebhookAccepts(rb.spec)
    /\ CleanedUp(3)
    /\ rb' = Gone
    /\ UNCHANGED <<approved, foreign>>

\* The whole cleanup, and the update that removes the finalizer, if the webhook
\* lets it pass.
Release ==
    /\ rb.present /\ rb.deleting
    /\ ~foreign
    /\ WebhookAccepts(rb.spec)
    /\ CleanedUp(3)
    /\ rb' = Gone
    /\ UNCHANGED <<approved, foreign>>

Reconcile ==
    \/ Admit \/ Reject \/ Initialize \/ Accept
    \/ ProvisionGroup \/ Finalize
    \/ CleanupFails \/ Release

Next ==
    \/ Reconcile
    \/ \E s \in Specs : UserCreate(s) \/ UserUpdate(s)
    \/ UserDelete \/ ForeignChanges
    \/ \E flag \in Flags : Reconfigure(flag)
    \/ \E n \in Names : Drain(n)

Spec == Init /\ [][Next]_vars

\* The controller reconciles what it is given, and retries what failed: calls
\* do not fail for ever. Nothing else is fair, least of all users.
FairSpec == Spec /\ WF_vars(Admit \/ Reject) /\ WF_vars(Release)

-----------------------------------------------------------------------------
(***************************************************************************)
(* Properties.                                                             *)
(***************************************************************************)
TypeOK ==
    /\ approved \subseteq RepoOrgs
    /\ rb \in RepoBinding
    /\ made \subseteq [part: Parts, org: AphexOrgs \cup {""}, name: Names]
    /\ terminating \subseteq Names
    /\ foreign \in BOOLEAN

\* Each object a cleanup step is there to take away belongs to the tenant the
\* stored spec names, under its finalizer, or to a namespace on its way out. The
\* cleanup goes by the spec it finds: whatever was made under another name or in
\* another organization would never be removed. Access is not among them.
NoOrphanedTenant ==
    \A o \in made : o.part # "Access" =>
        \/ rb.present /\ rb.finalizer /\ o = Object(o.part, rb.spec)
        \/ o.part = "Namespace" /\ o.name \in terminating

\* Namespaces Kubernetes, Tekton and the platform live in: those both lists
\* name, ArgoCD's, where the AppProjects of all tenants are, and the one the
\* controller itself is deployed to.
PlatformNamespaces ==
    PrivilegedNamespaces \cup {<<"argocd">>, <<"platform", "system">>}

\* None of them ever becomes a tenant's, to be filled by the provisioners and
\* deleted by the cleanup, although the controller's own check would let two
\* of them pass: "cannot be used for tenant namespaces".
NoPrivilegedTenant ==
    \A n \in {o.name : o \in made} : \A p \in PlatformNamespaces : ~StartsWith(n, p)

\* What the webhook has let in the controller rejects for its organization or
\* its template only, never for a name the webhook took for good.
RejectionIsExplained ==
    [][Reject => \/ rb.spec.repoOrg \notin CompiledOrgs
                 \/ rb.spec.templateRef \notin Catalog]_vars

Undecided ==
    /\ rb.present
    /\ rb.deleting \/ (rb.phase = "" /\ ~rb.finalizer)

\* An organization dropped from the flag: the webhook refuses the controller's
\* own updates. Somebody's Application in the namespace: the cleanup waits for it
\* and times out.
Held == rb.spec.repoOrg \notin approved \/ (rb.deleting /\ foreign)

\* A binding stays undecided or undeleted for ever only if again and again, or
\* from some time on, it is held by one of the two; neither the validators, which
\* disagree, nor a cleanup that starts over block it.
SettledUnlessHeld == []<>~(Undecided /\ ~Held)
=============================================================================
